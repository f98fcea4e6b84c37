---------------------------- MODULE SharedSecret ----------------------------
(***************************************************************************)
(* What a credential vault promises: a secret, and the keys that open it,  *)
(* changed one atomic operation at a time.  A secret is replaced by one of *)
(* the next age, members are admitted to the secret of the moment, and to  *)
(* expel members leaves the secret due for renewal until it is renewed.    *)
(* One member at least opens the vault offline.                            *)
(***************************************************************************)
EXTENDS Integers

CONSTANTS
  Keys, Offline,  \* who may be a member, and who of them is never expelled
  Secrets

VARIABLES
  age,       \* how often the secret was replaced: 0 before there is one
  secret,
  members,   \* the keys the secret is wrapped to
  due        \* somebody who is no longer a member knows the secret

Init == age = 0 /\ members = {} /\ due = FALSE

Admitted(ms) == ms \subseteq Keys /\ ms \cap Offline # {}

\* The first secret, or the next one: its members are chosen with it.
Renew ==
  /\ age' = age + 1
  /\ secret' \in Secrets
  /\ age > 0 => secret' # secret
  /\ Admitted(members')
  /\ due' = FALSE

Admit ==
  /\ age > 0
  /\ members \subseteq members' /\ members' \subseteq Keys
  /\ UNCHANGED <<age, secret, due>>

Expel ==
  /\ age > 0
  /\ members' \subseteq members
  /\ members \cap Offline \subseteq members'
  /\ due' = TRUE
  /\ UNCHANGED <<age, secret>>

Next == Renew \/ Admit \/ Expel

Spec == Init /\ [][Next]_<<age, secret, members, due>>
=============================================================================
