----------------------------- MODULE AccountBook -----------------------------
(***************************************************************************)
(* What registration promises, whatever the calls do at once and whatever  *)
(* fails: an organization never stands without its OWNER, an address is    *)
(* the one of at most one account, and the jobs that tell the owner and    *)
(* Stripe about an organization come after it ("queued jobs are picked up  *)
(* by workers immediately and must not race the org/user rows").           *)
(***************************************************************************)
CONSTANTS
  Owners,     \* accounts that open with an organization of their own
  Members,    \* the other accounts
  Addresses,
  NoAddress   \* the address of an account that is not open

VARIABLES
  organizations, \* the owners whose organization exists
  address,       \* the address of each account
  links,         \* owners for whom a link to verify the address was stored
  mailed,        \* owners to whom that link was mailed
  subscribed     \* owners whose organization Stripe shall be told about

vars == <<organizations, address, links, mailed, subscribed>>

Accounts == Owners \cup Members
Unheld(e) == \A a \in Accounts : address[a] # e

Init ==
  /\ organizations = {}
  /\ address = [a \in Accounts |-> NoAddress]
  /\ links = {} /\ mailed = {} /\ subscribed = {}

\* The link may be stored for an account that then never opens.
StoreLink(a) ==
  /\ links' = links \cup {a}
  /\ UNCHANGED <<organizations, address, mailed, subscribed>>

Open(a, e) ==
  /\ a \in links \ organizations
  /\ Unheld(e)
  /\ organizations' = organizations \cup {a}
  /\ address' = [address EXCEPT ![a] = e]
  /\ UNCHANGED <<links, mailed, subscribed>>

Mail(a) ==
  /\ a \in organizations
  /\ mailed' = mailed \cup {a}
  /\ UNCHANGED <<organizations, address, links, subscribed>>

Subscribe(a) ==
  /\ a \in organizations
  /\ subscribed' = subscribed \cup {a}
  /\ UNCHANGED <<organizations, address, links, mailed>>

\* A member joins, or an account changes its address.
Move(a, e) ==
  /\ a \in Members \cup organizations
  /\ Unheld(e)
  /\ address' = [address EXCEPT ![a] = e]
  /\ UNCHANGED <<organizations, links, mailed, subscribed>>

Next ==
  \/ \E a \in Owners : StoreLink(a) \/ Mail(a) \/ Subscribe(a)
  \/ \E a \in Owners, e \in Addresses : Open(a, e)
  \/ \E a \in Accounts, e \in Addresses : Move(a, e)

Spec == Init /\ [][Next]_vars
=============================================================================
