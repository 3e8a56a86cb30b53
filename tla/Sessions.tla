------------------------------ MODULE Sessions ------------------------------
(***************************************************************************)
(* The session of one account: login, refresh, logout, the password calls  *)
(* that issue tokens (auth.service.ts), the check of access tokens         *)
(* (jwt.strategy.ts) and what removing the account does to its session.    *)
(*                                                                         *)
(* The account has one session at most: auth:refresh:<userId> holds the    *)
(* hash of the current refresh token.  A token pair is signed over the     *)
(* user's id, role and address and the second of issue, and over nothing   *)
(* random: a profile stands for one role with one address, and two pairs   *)
(* of one second and one profile are equal.  The account is verified       *)
(* throughout.                                                             *)
(*                                                                         *)
(* Addresses change hands, and two calls look the account up by address    *)
(* and sign for an id: a reset entry of the account that names an address  *)
(* another user has now issues a pair for the account without asking       *)
(* whether it is active, and so does changePassword when the token of      *)
(* another user claims the address that the account has now.               *)
(***************************************************************************)
EXTENDS Integers, FiniteSets

CONSTANTS
  Calls,       \* concurrent requests
  Profiles,    \* the roles, each with an address the account may have
  MaxNow,      \* bound on the clock, in units of a second
  AccessLife,  \* JWT_EXPIRES_IN
  RefreshLife, \* JWT_REFRESH_EXPIRY
  None

Time  == 0..MaxNow
Token == [iat : Time, profile : Profiles]

ASSUME ConstantsAssumption ==
  /\ Profiles # {} /\ MaxNow \in Nat
  /\ AccessLife \in Nat \ {0} /\ RefreshLife \in Nat \ {0}
  /\ None \notin Token

VARIABLES
  now,
  active,     \* users.is_active
  profile,    \* users.role and users.email
  key,        \* auth:refresh:<userId>, None when absent
  held,       \* token pairs an answer has carried to the client
  blacklist,  \* auth:blacklist: the second each entry expires, -1 when absent
  call,       \* [pc, token, late]
  ended,      \* history: "no", or how the session was last ended
  astray,     \* what names an address that has changed hands: "entry", "claim"
  loggedOut   \* history: access tokens whose logout answered 200

vars == <<now, active, profile, key, held, blacklist, call, ended, astray,
          loggedOut>>

CallPc == {"idle",
           "issue",                          \* login and the like
           "confirm",                        \* confirmEmailChange
           "looked", "matched", "reissue",   \* refresh
           "unlisted", "authed",             \* JwtStrategy.validate
           "dropped",                        \* logout
           "removed"}                        \* remove
CallType == [pc : CallPc, token : Token, late : BOOLEAN]
AnyToken == [iat |-> 0, profile |-> CHOOSE r \in Profiles : TRUE]
IdleCall == [pc |-> "idle", token |-> AnyToken, late |-> FALSE]

\* A live reset entry of the account for an address that is another user's by
\* now; a live token of another user that claims the account's address.
Ways == {"entry", "claim"}

Init ==
  /\ now = 0
  /\ active = TRUE /\ profile \in Profiles
  /\ key = None
  /\ held = {}
  /\ blacklist = [t \in Token |-> -1]
  /\ call = [c \in Calls |-> IdleCall]
  /\ ended = "no" /\ loggedOut = {}
  /\ astray \in SUBSET {"claim"}    \* its address may have been another's

-----------------------------------------------------------------------------
Goto(c, pc) == call' = [call EXCEPT ![c].pc = pc]
Finish(c)   == call' = [call EXCEPT ![c] = IdleCall]

\* Calls that will write the session key without comparing it again.
Pending == {c \in Calls : call[c].pc \in {"matched", "issue", "reissue"}}

\* Dropping the key ends the session; whether for good depends on Pending.
EndSession ==
  /\ key' = None
  /\ ended' = IF Pending = {} THEN "clean" ELSE "loose"

\* A flow whose proof was accepted goes on to issue a pair that claims r.
StartIssue(c, r) ==
  /\ call' = [call EXCEPT ![c] =
       [IdleCall EXCEPT !.pc = "issue", !.token = [iat |-> 0, profile |-> r]]]
  /\ ended' = "no"
  /\ UNCHANGED <<now, key, held, blacklist, loggedOut>>

\* login reads the row, and the role with it; so does resetPassword while the
\* address of its entry is the account's.
Login(c) ==
  /\ call[c].pc = "idle" /\ active
  /\ StartIssue(c, profile)
  /\ UNCHANGED <<active, profile, astray>>

\* resetPassword of an entry whose address is another user's, and changePassword
\* by another user whose token claims the account's address: the pair is the
\* account's, with the role of the row that was found or of that token, and the
\* account's own is_active is not asked for.
IssueElsewhere(c, p) ==
  /\ call[c].pc = "idle" /\ astray # {}
  /\ StartIssue(c, p)
  /\ UNCHANGED <<active, profile, astray>>

\* confirmEmailChange: the entry is read and the account must be active ...
ConfirmCheck(c) ==
  /\ call[c].pc = "idle" /\ active
  /\ call' = [call EXCEPT ![c] = [IdleCall EXCEPT
       !.pc = "confirm", !.token = [iat |-> 0, profile |-> profile]]]
  /\ UNCHANGED <<now, active, profile, key, held, blacklist, ended, loggedOut,
                 astray>>

\* ... the new address is saved, and the entry deleted.  The pair will claim it
\* with the role that was read: the row's, unless it has changed meanwhile.  The
\* reset entries sent to the old address live on, and the new one may still be
\* claimed by tokens of the user who had it.
ConfirmSave(c, p) ==
  /\ call[c].pc = "confirm"
  /\ profile' = p
  /\ \E q \in Profiles :
       /\ profile = call[c].token.profile => q = p
       /\ StartIssue(c, q)
  /\ \E w \in SUBSET Ways : astray' = astray \cup w
  /\ UNCHANGED active

\* acceptInvitation reactivates a removed account and logs it in.
Reinvite(c, r) ==
  /\ call[c].pc = "idle" /\ ~active
  /\ active' = TRUE /\ profile' = r
  /\ StartIssue(c, r)
  /\ UNCHANGED astray

\* generateToken signs at the current second, and Redis stores the hash.
SignedAtExpiry(r) == [iat |-> now + RefreshLife, profile |-> r]
Signed(r) == [iat |-> now, profile |-> r]
Issue(c) ==
  /\ call[c].pc \in {"issue", "reissue"}
  /\ LET t == Signed(call[c].token.profile)
     IN  key' = t /\ held' = held \cup {t}
  /\ Finish(c)
  /\ UNCHANGED <<now, active, profile, blacklist, ended, loggedOut, astray>>

-----------------------------------------------------------------------------
(* AuthService.refresh                                                     *)

\* The signature is verified and the account read.
RefreshValid(t) == now < t.iat + RefreshLife
MayRefreshRemoved(t) == RefreshValid(t)
MayRefresh(t) == RefreshValid(t) /\ active

RefreshLook(c, t) ==
  /\ call[c].pc = "idle"
  /\ t \in held /\ MayRefresh(t)
  /\ call' = [call EXCEPT ![c] = [IdleCall EXCEPT !.pc = "looked", !.token = t]]
  /\ UNCHANGED <<now, active, profile, key, held, blacklist, ended, loggedOut,
                 astray>>

\* The key is read and compared.
KeyUnchecked(c) == TRUE
KeyMatches(c) == key = call[c].token

RefreshMatch(c) ==
  /\ call[c].pc = "looked"
  /\ KeyMatches(c)
  /\ Goto(c, "matched")
  /\ UNCHANGED <<now, active, profile, key, held, blacklist, ended, loggedOut,
                 astray>>

\* The key is deleted before the new pair, with the old pair's claims, is issued.
RefreshDrop(c) ==
  /\ call[c].pc = "matched"
  /\ key' = None
  /\ Goto(c, "reissue")
  /\ UNCHANGED <<now, active, profile, held, blacklist, ended, loggedOut,
                 astray>>

-----------------------------------------------------------------------------
(* JwtStrategy.validate, and the routes behind it                          *)

AccessValid(t) == now < t.iat + AccessLife

\* The signature and expiry hold and the blacklist does not have the token.
Validate(c, t) ==
  /\ call[c].pc = "idle"
  /\ t \in held /\ AccessValid(t)
  /\ blacklist[t] = -1
  /\ call' = [call EXCEPT ![c] =
       [pc |-> "unlisted", token |-> t, late |-> t \in loggedOut]]
  /\ UNCHANGED <<now, active, profile, key, held, blacklist, ended, loggedOut,
                 astray>>

\* The account is read again and must be active.
Admit(c) ==
  /\ call[c].pc = "unlisted" /\ active
  /\ Goto(c, "authed")
  /\ UNCHANGED <<now, active, profile, key, held, blacklist, ended, loggedOut,
                 astray>>

\* Any other route answers.
Serve(c) ==
  /\ call[c].pc = "authed"
  /\ Finish(c)
  /\ UNCHANGED <<now, active, profile, key, held, blacklist, ended, loggedOut,
                 astray>>

\* changePassword: the old password is verified and the new hash saved, then a
\* pair is issued that claims the role of the token, not of the row.  (When the
\* token's address is another user's by now, this account's key is not written.)
ChangePassword(c) ==
  /\ call[c].pc = "authed"
  /\ Goto(c, "issue")
  /\ ended' = "no"
  /\ UNCHANGED <<now, active, profile, key, held, blacklist, loggedOut, astray>>

LogoutDrop(c) ==
  /\ call[c].pc = "authed"
  /\ EndSession
  /\ Goto(c, "dropped")
  /\ UNCHANGED <<now, active, profile, held, blacklist, loggedOut, astray>>

\* The second at which the blacklist entry expires: now plus its TTL.
ListedShort(t) == t.iat + AccessLife - 1
ListedUntil(t) == t.iat + AccessLife

\* The access token is listed for what is left of its life, if anything is.
LogoutList(c) ==
  /\ call[c].pc = "dropped"
  /\ LET t == call[c].token
     IN  /\ blacklist' = IF AccessValid(t)
                         THEN [blacklist EXCEPT ![t] = ListedUntil(t)] ELSE blacklist
         /\ loggedOut' = loggedOut \cup {t}
  /\ Finish(c)
  /\ UNCHANGED <<now, active, profile, key, held, ended, astray>>

-----------------------------------------------------------------------------
(* What others do to the account, and time                                 *)

\* UserService.remove saves the row, then drops the session.
RemoveSave(c) ==
  /\ call[c].pc = "idle" /\ active
  /\ active' = FALSE
  /\ Goto(c, "removed")
  /\ UNCHANGED <<now, profile, key, held, blacklist, ended, loggedOut, astray>>

RemoveDrop(c) ==
  /\ call[c].pc = "removed"
  /\ EndSession
  /\ Finish(c)
  /\ UNCHANGED <<now, active, profile, held, blacklist, loggedOut, astray>>

\* UserService.updateRole saves the row and nothing else.
SetProfile(r) ==
  /\ active /\ profile # r
  /\ profile' = r
  /\ UNCHANGED <<now, active, key, held, blacklist, call, ended, loggedOut,
                 astray>>

\* A guard refuses, an awaited call throws, or the process dies.
Abandon(c) ==
  /\ call[c].pc # "idle"
  /\ Finish(c)
  /\ UNCHANGED <<now, active, profile, key, held, blacklist, ended, loggedOut,
                 astray>>

\* Redis expires the session key.
KeyExpires ==
  /\ key # None
  /\ key' = None
  /\ UNCHANGED <<now, active, profile, held, blacklist, call, ended, loggedOut,
                 astray>>

ListingExpires(t) ==
  /\ blacklist[t] # -1 /\ now >= blacklist[t]
  /\ blacklist' = [blacklist EXCEPT ![t] = -1]
  /\ UNCHANGED <<now, active, profile, key, held, call, ended, loggedOut,
                 astray>>

\* The entry is redeemed or expires (TTL_EXPIRATION); the other user's token is
\* replaced, or runs out.
Forget(w) ==
  /\ w \in astray
  /\ astray' = astray \ {w}
  /\ UNCHANGED <<now, active, profile, key, held, blacklist, call, ended,
                 loggedOut>>

Tick ==
  /\ now < MaxNow
  /\ now' = now + 1
  /\ UNCHANGED <<active, profile, key, held, blacklist, call, ended, loggedOut,
                 astray>>

-----------------------------------------------------------------------------
CallNext(c) ==
  \/ Login(c) \/ ConfirmCheck(c)
  \/ (\E p \in Profiles : IssueElsewhere(c, p) \/ ConfirmSave(c, p))
  \/ (\E r \in Profiles : Reinvite(c, r)) \/ Issue(c)
  \/ (\E t \in Token : RefreshLook(c, t)) \/ RefreshMatch(c) \/ RefreshDrop(c)
  \/ (\E t \in Token : Validate(c, t)) \/ Admit(c) \/ Serve(c)
  \/ ChangePassword(c) \/ LogoutDrop(c) \/ LogoutList(c)
  \/ RemoveSave(c) \/ RemoveDrop(c) \/ Abandon(c)

Next ==
  \/ \E c \in Calls : CallNext(c)
  \/ \E r \in Profiles : SetProfile(r)
  \/ \E t \in Token : ListingExpires(t)
  \/ \E w \in Ways : Forget(w)
  \/ KeyExpires \/ Tick

Spec == Init /\ [][Next]_vars

\* Redis expires the key and the reset entries: every write of one has a TTL.  A
\* refresh renews a stale claim, so nothing makes that one end.
FairSpec == Spec /\ WF_vars(KeyExpires) /\ WF_vars(Forget("entry"))

-----------------------------------------------------------------------------
(* Properties                                                              *)

\* Every variable has its type.
TypeOK ==
  /\ now \in Time
  /\ active \in BOOLEAN /\ profile \in Profiles
  /\ key \in Token \cup {None}
  /\ held \subseteq Token /\ loggedOut \subseteq Token
  /\ blacklist \in [Token -> Int]
  /\ call \in [Calls -> CallType]
  /\ ended \in {"no", "clean", "loose"}
  /\ astray \subseteq Ways

\* A session that logout or remove ended while nobody was between the check of
\* the key and its replacement stays ended until the user proves a password or
\* an invitation, or a link of the mailbox: no refresh token of it can be redeemed.
ClosedSessionStays == ended = "clean" => key = None

\* An access token whose logout was answered is not admitted again while its
\* signature is valid: its blacklist entry lives as long as the token.
LoggedOutRefused == \A c \in Calls : ~call[c].late

\* After an account is removed for good its session key disappears for good,
\* although calls that were under way, and reset entries for an address that has
\* changed hands, may write it again.  Excluded: another user's token claims the
\* account's address, with which changePassword writes the key of the account.
RemovalEndsSessions ==
  <>[](~active /\ "claim" \notin astray) => <>[](key = None)

=============================================================================
