-------------------------------- MODULE MCRelease --------------------------------
(***************************************************************************)
(* ManifestCache in two scenes, each a subset of its behaviours small enough *)
(* to enumerate: "routing" has two writers, two branches and a channel that  *)
(* is deleted and created again, but one update, fully rolled out or         *)
(* reverted; "rollouts" has three updates in every rollout state and devices *)
(* that report failures and expect signatures, but one branch and one writer *)
(* at a time.                                                                *)
(***************************************************************************)
EXTENDS MCManifestCache

CONSTANT main   \* the branch of the second scene

VARIABLE scene

IsSigned(q) == IF q.pc = "answered" THEN q.signed ELSE q.key.signed

InRouting ==
  /\ \A w \in Writers : writer[w] # Idle => writer[w].id = 1 /\ writer[w].pct # 50
  /\ \A r \in Requests : request[r] # Idle =>
       /\ ~IsSigned(request[r])
       /\ request[r].pc # "store" => request[r].failed = {}

InRollouts ==
  /\ Cardinality({w \in Writers : writer[w] # Idle}) <= 1
  /\ \A w \in Writers : writer[w] # Idle => writer[w].branch = main
  /\ \A c \in Channels : /\ channel[c].branch = main
                         /\ channel[c].mapping = {}
                         /\ channel[c].version <= 1
                         /\ generation[c] = 0
  /\ \A r \in Requests : request[r] # Idle => IsSigned(request[r])

InScene == (scene = "routing" /\ InRouting) \/ (scene = "rollouts" /\ InRollouts)

ReleaseInit == Init /\ scene \in {"routing", "rollouts"} /\ InScene

ReleaseNext == Next /\ scene' = scene /\ InScene'

ReleaseSpec == ReleaseInit /\ [][ReleaseNext]_<<vars, scene>>
===============================================================================
