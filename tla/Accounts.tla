------------------------------ MODULE Accounts ------------------------------
(***************************************************************************)
(* The user rows and the calls that write them or sign a role              *)
(* (modules/users/user.service.ts, auth.service.ts, and the part of        *)
(* acceptInvitation that touches users).                                   *)
(*                                                                         *)
(* Each of these calls loads a row, awaits something (a password hash, at  *)
(* least the next query) and hands the loaded object to TypeORM's save.    *)
(* save reads the row again and writes the columns in which the object     *)
(* differs from what it read; nothing is locked between the three.  So a   *)
(* call has the steps Load..., Select, Update and Finish, and what another *)
(* call wrote since the load is overwritten.                               *)
(*                                                                         *)
(* The roles that guards see are the claims of the caller's token, which   *)
(* jwt.strategy.ts does not refresh from the row, and rows are found by    *)
(* the address in a token or a link as often as by the id: an address may  *)
(* change hands.  Names and passwords are left out, so that the calls that *)
(* write them appear here for the other columns they write back.           *)
(***************************************************************************)
EXTENDS Naturals, FiniteSets

CONSTANTS
  Users,        \* ids of users, the ones who register and the ones invited
  Orgs,
  Emails,
  InvitedRoles, \* the roles invitations carry
  Calls,        \* concurrent requests
  None,         \* no row, no founder, nothing read yet
  MaxTokens,    \* bound: access tokens alive at a time
  MaxLinks      \* bound: mailed links alive at a time

Roles == {"OWNER", "ADMIN", "MEMBER"}

Columns == {"role", "active", "verified", "email", "org"}
RowType == [role : Roles, active : BOOLEAN, verified : BOOLEAN,
            email : Emails, org : Orgs]
Claim == [user : Users, org : Orgs, role : Roles, email : Emails]
Link == [kind : {"verify", "reset", "change"}, user : Users, org : Orgs,
         email : Emails]

ASSUME ConstantsAssumption ==
  /\ None \notin Users \cup RowType \cup Claim \cup Link
  /\ InvitedRoles \subseteq Roles
  /\ MaxTokens \in Nat /\ MaxLinks \in Nat

VARIABLES
  row,        \* the columns of each user's row
  founder,    \* who registered each organisation
  links,      \* mailed tokens whose entry Redis has
  claims,     \* the claims of the access tokens issued, kept alive by refresh
  call,       \* the request each call is serving
  held,       \* history: the addresses each row has had
  contested   \* history: users whose row an acceptance and another call held
              \* at once when one of the two wrote it

vars == <<row, founder, links, claims, call, held, contested>>

Ops == {"login", "remove", "updateRole", "update", "changePassword",
        "resetPassword", "verifyEmail", "confirmEmail", "accept"}
CallPc == {"idle", "authed", "opened", "checked", "inserting", "loaded",
           "selected", "saved"}
CallType == [pc : CallPc, op : Ops, claim : Claim \cup {None},
             link : Link \cup {None}, user : Users \cup {None},
             obj : RowType \cup {None}, diff : SUBSET Columns]

IdleCall == [pc |-> "idle", op |-> "login", claim |-> None, link |-> None,
             user |-> None, obj |-> None, diff |-> {}]

Init ==
  /\ row = [u \in Users |-> None]
  /\ founder = [o \in Orgs |-> None]
  /\ links = {}
  /\ claims = {}
  /\ call = [c \in Calls |-> IdleCall]
  /\ held = [u \in Users |-> {}]
  /\ contested = {}

-----------------------------------------------------------------------------
members == {u \in Users : row[u] # None}
NewRow(role, verified, e, o) ==
  [role |-> role, active |-> TRUE, verified |-> verified, email |-> e, org |-> o]

\* getByEmail: the row that has the address, in whatever organisation.
Holder(u, e) == u \in members /\ row[u].email = e
FreeAddress(e, u) == \A v \in members \ {u} : row[v].email # e

\* getById with the organisation of the token or link.
InOrg(u, o) == u \in members /\ row[u].org = o

SendLink(kind, u, o, e) ==
  /\ links' = links \cup {[kind |-> kind, user |-> u, org |-> o, email |-> e]}
  /\ Cardinality(links') <= MaxLinks

\* register's transaction: an organisation, its OWNER and a verification link.
Register(u, o, e) ==
  /\ u \notin members /\ founder[o] = None
  /\ FreeAddress(e, u)
  /\ row' = [row EXCEPT ![u] = NewRow("OWNER", FALSE, e, o)]
  /\ founder' = [founder EXCEPT ![o] = u]
  /\ held' = [held EXCEPT ![u] = @ \cup {e}]
  /\ SendLink("verify", u, o, e)
  /\ UNCHANGED <<claims, call, contested>>

ResendVerifyEmail(u) ==
  /\ u \in members /\ row[u].active /\ ~row[u].verified
  /\ SendLink("verify", u, row[u].org, row[u].email)
  /\ UNCHANGED <<row, founder, claims, call, held, contested>>

\* Whoever has the row gets the link, active or not.
ForgotPassword(u) ==
  /\ u \in members
  /\ SendLink("reset", u, row[u].org, row[u].email)
  /\ UNCHANGED <<row, founder, claims, call, held, contested>>

\* TTL_EXPIRATION of a link's entry, and the exp of a token.
LinkExpires(l) ==
  /\ links' = links \ {l}
  /\ UNCHANGED <<row, founder, claims, call, held, contested>>
TokenExpires(cl) ==
  /\ claims' = claims \ {cl}
  /\ UNCHANGED <<row, founder, links, call, held, contested>>

-----------------------------------------------------------------------------
\* Only the call changes: nothing is written.
Becomes(c, k) ==
  /\ call' = [call EXCEPT ![c] = k]
  /\ UNCHANGED <<row, founder, links, claims, held, contested>>

\* The call loads u's row and sets its own columns on it (repository.merge); of
\* the caller's token only changePassword uses anything later.
LoadRow(c, op, u, obj) ==
  /\ u \in members
  /\ Becomes(c, [call[c] EXCEPT
       !.pc = "loaded", !.op = op, !.user = u, !.obj = obj,
       !.claim = IF op = "changePassword" THEN @ ELSE None])

\* The claims of the pair a call signs: resetPassword takes the id from the link
\* and the role from the row, changePassword the id from the row and the role
\* from the caller's token.
ClaimOfId(u, o, role, e) == [user |-> u, org |-> o, role |-> role, email |-> u]
ClaimOf(u, o, role, e) == [user |-> u, org |-> o, role |-> role, email |-> e]
Signed(k) ==
  CASE k.op \in {"resetPassword", "confirmEmail"} ->
         ClaimOf(k.link.user, k.link.org, k.obj.role, k.link.email)
    [] k.op = "changePassword" ->
         ClaimOf(k.user, k.obj.org, k.claim.role, k.claim.email)
    [] k.op = "accept" -> ClaimOf(k.user, k.obj.org, k.obj.role, k.obj.email)
    [] OTHER -> None

\* What is left to do once the row is written.
After(k) ==
  IF k.op \in {"remove", "updateRole", "update"} THEN IdleCall
  ELSE [IdleCall EXCEPT !.pc = "saved", !.op = k.op, !.claim = Signed(k),
                        !.link = k.link]

\* login: a verified, active user will get a token that claims the role of the
\* row as it was before the password was verified.
LoadLogin(c, u) ==
  /\ call[c].pc = "idle"
  /\ u \in members /\ row[u].verified /\ row[u].active
  /\ Becomes(c, [IdleCall EXCEPT !.pc = "saved", !.op = "login",
                  !.claim = ClaimOf(u, row[u].org, row[u].role, row[u].email)])

\* JwtStrategy.validate: the row of the token's user in its organisation decides
\* whether the caller may act, the token as whom.
Authenticate(c, cl) ==
  /\ call[c].pc = "idle"
  /\ InOrg(cl.user, cl.org)
  /\ row[cl.user].verified /\ row[cl.user].active
  /\ Becomes(c, [IdleCall EXCEPT !.pc = "authed", !.claim = cl])

\* remove's tests on the member it loaded.
MayRemoveOwner(c, u) ==
  call[c].claim.user # u /\ ~(call[c].claim.role = "ADMIN" /\ row[u].role = "ADMIN")
MayRemove(c, u) ==
  /\ call[c].claim.user # u
  /\ row[u].role # "OWNER"
  /\ ~(call[c].claim.role = "ADMIN" /\ row[u].role = "ADMIN")

\* updateRole's tests on the new role and on the member it loaded.
MayDemoteOwner(c, u, role) == role # "OWNER" /\ call[c].claim.user # u
MayUpdateRole(c, u, role) ==
  /\ role # "OWNER"
  /\ call[c].claim.user # u
  /\ row[u].role \notin {"OWNER", role}

\* @Roles of the members' routes, and RolesGuard: the claim decides, not the
\* row.  JwtOnlyGuard keeps API keys, which RolesGuard lets pass, off these two.
RequiredRoles == [remove |-> {"OWNER", "ADMIN"}, updateRole |-> {"OWNER"}]
RolesGuard(c, op) == call[c].claim.role \in RequiredRoles[op]

LoadRemove(c, u) ==
  /\ call[c].pc = "authed" /\ RolesGuard(c, "remove")
  /\ InOrg(u, call[c].claim.org) /\ row[u].active
  /\ MayRemove(c, u)
  /\ LoadRow(c, "remove", u, [row[u] EXCEPT !.active = FALSE])

LoadUpdateRole(c, u, role) ==
  /\ call[c].pc = "authed" /\ RolesGuard(c, "updateRole")
  /\ InOrg(u, call[c].claim.org) /\ row[u].active
  /\ MayUpdateRole(c, u, role)
  /\ LoadRow(c, "updateRole", u, [row[u] EXCEPT !.role = role])

\* PATCH /users/me: only names are set, the whole row is loaded.
LoadUpdate(c) ==
  LET u == call[c].claim.user IN
  /\ call[c].pc = "authed"
  /\ LoadRow(c, "update", u, row[u])

\* changePassword finds the row by the address the token claims: the caller's,
\* unless the address has changed hands since.
LoadChangePassword(c, u) ==
  /\ call[c].pc = "authed"
  /\ Holder(u, call[c].claim.email)
  /\ LoadRow(c, "changePassword", u, row[u])

\* changeEmail sends a link to an address that nobody else has.
ChangeEmail(c, e) ==
  LET cl == call[c].claim IN
  /\ call[c].pc = "authed"
  /\ e # cl.email /\ FreeAddress(e, cl.user)
  /\ SendLink("change", cl.user, cl.org, e)
  /\ call' = [call EXCEPT ![c] = IdleCall]
  /\ UNCHANGED <<row, founder, claims, held, contested>>

\* verifyEmail, resetPassword and confirmEmailChange begin with the entry.
OpenLink(c, l) ==
  /\ call[c].pc = "idle"
  /\ Becomes(c, [IdleCall EXCEPT !.pc = "opened", !.link = l])

LoadVerifyEmail(c) ==
  LET l == call[c].link IN
  /\ call[c].pc = "opened" /\ l.kind = "verify"
  /\ LoadRow(c, "verifyEmail", l.user, [row[l.user] EXCEPT !.verified = TRUE])

\* resetPassword finds the row by the address of the entry, not by its id.
LoadResetPassword(c, u) ==
  /\ call[c].pc = "opened" /\ call[c].link.kind = "reset"
  /\ Holder(u, call[c].link.email) /\ row[u].active
  /\ LoadRow(c, "resetPassword", u, row[u])

LoadConfirmEmail(c) ==
  LET l == call[c].link IN
  /\ call[c].pc = "opened" /\ l.kind = "change"
  /\ InOrg(l.user, l.org) /\ row[l.user].active
  /\ LoadRow(c, "confirmEmail", l.user, [row[l.user] EXCEPT !.email = l.email])

\* acceptInvitation looks the invited address up, then hashes the password.
CheckAcceptTaken(c, u, e, o, role) ==
  /\ call[c].pc = "idle" /\ founder[o] # None
  /\ Holder(u, e) /\ ~row[u].active
  /\ Becomes(c, [IdleCall EXCEPT !.pc = "checked", !.op = "accept", !.user = u,
                                 !.obj = NewRow(role, TRUE, e, o)])
CheckAcceptFree(c, e, o, role) ==
  /\ call[c].pc = "idle" /\ founder[o] # None
  /\ FreeAddress(e, None)
  /\ Becomes(c, [IdleCall EXCEPT !.pc = "inserting", !.op = "accept",
                                 !.obj = NewRow(role, TRUE, e, o)])

\* An address that had a row: preload reads it again by its id and merges into
\* it, whatever has become of it since the check.
LoadAccept(c) ==
  LET k == call[c] IN
  /\ k.pc = "checked"
  /\ LoadRow(c, "accept", k.user, [k.obj EXCEPT !.email = row[k.user].email])

\* A new address: INSERT, which the unique index on email lets through once.
InsertAccept(c, u) ==
  LET k == call[c] IN
  /\ k.pc = "inserting"
  /\ u \notin members /\ FreeAddress(k.obj.email, u)
  /\ row' = [row EXCEPT ![u] = k.obj]
  /\ held' = [held EXCEPT ![u] = @ \cup {k.obj.email}]
  /\ call' = [call EXCEPT ![c] = After([k EXCEPT !.user = u])]
  /\ UNCHANGED <<founder, links, claims, contested>>

-----------------------------------------------------------------------------
\* Calls that have seen u's row and will write it.
Holding(u) ==
  {c \in Calls : call[c].pc \in {"checked", "loaded", "selected"}
                 /\ call[c].user = u}

\* An object loaded without its relations has no organization to write.
Carried(op) ==
  IF op \in {"changePassword", "resetPassword", "confirmEmail", "accept"}
  THEN Columns ELSE Columns \ {"org"}

\* save, first query: which columns of the object differ from the row.
Select(c) ==
  LET k == call[c] IN
  /\ k.pc = "loaded"
  /\ Becomes(c, [k EXCEPT
       !.pc = "selected",
       !.diff = {x \in Carried(k.op) : k.obj[x] # row[k.user][x]}])

\* What the UPDATE makes of a row.
Written(k, r) ==
  [role     |-> IF "role" \in k.diff THEN k.obj.role ELSE r.role,
   active   |-> IF "active" \in k.diff THEN k.obj.active ELSE r.active,
   verified |-> IF "verified" \in k.diff THEN k.obj.verified ELSE r.verified,
   email    |-> IF "email" \in k.diff THEN k.obj.email ELSE r.email,
   org      |-> IF "org" \in k.diff THEN k.obj.org ELSE r.org]

\* save, second query: UPDATE of these columns, or the unique index refuses.
Update(c) ==
  LET k == call[c]
      others == Holding(k.user) \ {c}
      touches == \E d \in others : "accept" \in {k.op, call[d].op}
  IN
  /\ k.pc = "selected"
  /\ "email" \in k.diff => FreeAddress(k.obj.email, k.user)
  /\ row' = [row EXCEPT ![k.user] = Written(k, @)]
  /\ held' = [held EXCEPT ![k.user] = @ \cup {Written(k, row[k.user]).email}]
  /\ contested' = IF touches THEN contested \cup {k.user} ELSE contested
  /\ call' = [call EXCEPT ![c] = After(k)]
  /\ UNCHANGED <<founder, links, claims>>

\* After the save a call signs its pair and drops its link, confirmEmailChange in
\* the other order; a throw or a crash may leave the rest undone.
Finish(c) ==
  LET k == call[c] IN
  /\ k.pc = "saved"
  /\ \E signs, drops \in BOOLEAN :
       /\ k.op = "resetPassword" /\ drops => signs
       /\ k.op = "confirmEmail" /\ signs => drops
       /\ claims' = IF signs /\ k.claim # None THEN claims \cup {k.claim}
                    ELSE claims
       /\ links' = IF drops THEN links \ {k.link} ELSE links
  /\ Cardinality(claims') <= MaxTokens
  /\ call' = [call EXCEPT ![c] = IdleCall]
  /\ UNCHANGED <<row, founder, held, contested>>

\* A guard refuses, an awaited call throws, or the process dies.
Abandon(c) == call[c].pc # "idle" /\ Becomes(c, IdleCall)

-----------------------------------------------------------------------------
LoadNext(c) ==
  \/ \E u \in Users : LoadLogin(c, u)
  \/ \E u \in Users : LoadRemove(c, u)
  \/ \E u \in Users, r \in Roles : LoadUpdateRole(c, u, r)
  \/ LoadUpdate(c)
  \/ \E u \in Users : LoadChangePassword(c, u)
  \/ LoadVerifyEmail(c)
  \/ \E u \in Users : LoadResetPassword(c, u)
  \/ LoadConfirmEmail(c)
  \/ LoadAccept(c)

\* Steps that only read, or give up.
ReadNext(c) ==
  \/ \E cl \in claims : Authenticate(c, cl)
  \/ \E l \in links : OpenLink(c, l)
  \/ \E e \in Emails, o \in Orgs, r \in InvitedRoles :
       \/ \E u \in Users : CheckAcceptTaken(c, u, e, o, r)
       \/ CheckAcceptFree(c, e, o, r)
  \/ LoadNext(c) \/ Select(c) \/ Abandon(c)

CallNext(c) ==
  \/ ReadNext(c)
  \/ \E e \in Emails : ChangeEmail(c, e)
  \/ \E u \in Users : InsertAccept(c, u)
  \/ Update(c) \/ Finish(c)

Next ==
  \/ \E u \in Users, o \in Orgs, e \in Emails : Register(u, o, e)
  \/ \E u \in Users : ResendVerifyEmail(u) \/ ForgotPassword(u)
  \/ \E l \in links : LinkExpires(l)
  \/ \E cl \in claims : TokenExpires(cl)
  \/ \E c \in Calls : CallNext(c)

Spec == Init /\ [][Next]_vars

-----------------------------------------------------------------------------
(* Properties                                                              *)

\* A call has what its next steps read.
Shape(k) ==
  /\ k.pc = "authed" => k.claim # None
  /\ k.pc = "opened" => k.link # None
  /\ k.pc \in {"checked", "inserting"} => k.op = "accept" /\ k.obj # None
  /\ k.pc \in {"checked", "loaded", "selected"} => k.user \in members
  /\ k.pc \in {"loaded", "selected"} =>
       /\ k.obj # None
       /\ k.op = "changePassword" => k.claim # None
       /\ k.op = "resetPassword" => k.link # None /\ k.link.kind = "reset"
       /\ k.op = "confirmEmail" => k.link # None

\* Every variable has its type, and every call its shape.
TypeOK ==
  /\ row \in [Users -> RowType \cup {None}]
  /\ founder \in [Orgs -> Users \cup {None}]
  /\ links \subseteq Link
  /\ claims \subseteq Claim
  /\ call \in [Calls -> CallType]
  /\ \A c \in Calls : Shape(call[c])
  /\ held \in [Users -> SUBSET Emails]
  /\ contested \subseteq Users

\* No organisation loses its founding OWNER: no interleaving of removals, role
\* changes, acceptances and stale saves demotes, deactivates or moves them.
FounderStays ==
  \A o \in Orgs : founder[o] # None =>
    LET r == row[founder[o]] IN
    founder[o] \in members /\ r.role = "OWNER" /\ r.active /\ r.org = o

\* An OWNER has, or had, the address e; no save raced an acceptance on the row.
OwnerHeld(e) ==
  \E v \in members :
    /\ e \in held[v]
    /\ v \in contested \/ (row[v].role = "OWNER" /\ row[v].active)

\* A token that claims OWNER names an address its user has held, and an active
\* OWNER has held it too: the claim, which updateRole and remove trust without
\* looking at the row, is never made out of nothing, though resetPassword and
\* changePassword sign the id of one row with the role of another when the
\* address has changed hands.
OwnerClaimsHold ==
  \A cl \in claims : cl.role = "OWNER" =>
    cl.email \in held[cl.user] /\ OwnerHeld(cl.email)

=============================================================================
