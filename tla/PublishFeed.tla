----------------------------- MODULE PublishFeed -----------------------------
(***************************************************************************)
(* What publishing promises: requests on a branch queue up, and each either*)
(* lands, whole, at one instant and in the order of its arrival, or leaves *)
(* no row.  What a landing asserts holds at that instant, whatever happened*)
(* while the request was checked.  Rows go only by being withdrawn, and    *)
(* change only their percentage or their baseline mark.                    *)
(*                                                                         *)
(* Rows are records with id, branch, target, at, pct, embedded and         *)
(* precomputed; requests are sets of records with id and target.           *)
(***************************************************************************)
EXTENDS Naturals, Sequences

CONSTANTS Branches

VARIABLES
  feed,      \* the rows published
  pending    \* per branch: the requests that have not landed

Init == feed = {} /\ pending = [b \in Branches |-> <<>>]

Tuple(v) == {u \in feed : u.branch = v.branch /\ u.target = v.target}

Submit(b) ==
  /\ Len(pending'[b]) = Len(pending[b]) + 1
  /\ pending' = [pending EXCEPT ![b] = Append(@, pending'[b][Len(@) + 1])]
  /\ feed' = feed

\* One row for each update, new to the feed; a signed one is the newest of its
\* tuple, a baseline the only one.
Land(b) ==
  LET new == feed' \ feed IN
  /\ pending[b] # <<>>
  /\ pending' = [pending EXCEPT ![b] = Tail(@)]
  /\ feed \subseteq feed'
  /\ \A v \in new :
       /\ v.branch = b
       /\ \A u \in feed : u.id # v.id
       /\ v.precomputed /\ ~v.embedded => \A u \in Tuple(v) : u.at < v.at
       /\ v.embedded => \A u \in Tuple(v) : ~u.embedded
  /\ {<<v.id, v.target>> : v \in new} = {<<i.id, i.target>> : i \in Head(pending[b])}

\* Requests are answered without a row: the one whose turn it is, or all.
Abandon(b) ==
  /\ pending[b] # <<>>
  /\ \E left \in {<<>>, Tail(pending[b])} : pending' = [pending EXCEPT ![b] = left]
  /\ feed' = feed

\* Mark and percentage apart, a row stays as it landed.
Lasting(u) == <<u.id, u.branch, u.target, u.at, u.precomputed>>

\* Rows are withdrawn, or edited in place; no row becomes a baseline.
Revise ==
  /\ {Lasting(u) : u \in feed'} \subseteq {Lasting(u) : u \in feed}
  /\ \A v \in feed' : v.embedded => \E u \in feed : u.embedded /\ Lasting(u) = Lasting(v)
  /\ pending' = pending

Next == Revise \/ \E b \in Branches : Submit(b) \/ Land(b) \/ Abandon(b)

Spec == Init /\ [][Next]_<<feed, pending>>
==============================================================================
