---------------------------- MODULE ChannelRouting ----------------------------
(* Channels, branches and gradual branch rollouts.                            *)
(*                                                                            *)
(* A channel routes each device to a branch: to its own branch, or, while a   *)
(* rollout runs, through a branch mapping (domain/branch-mapping.ts).  The    *)
(* management handlers (handlers/channels.ts, handlers/branches.ts) read the  *)
(* channel in one D1 query, decide on what they read, and write it in         *)
(* another: requests interleave between the two.                              *)
(*                                                                            *)
(* A node of the mapping is the conjunction of an optional test of the        *)
(* runtime version and an optional hash_lt on the rollout token: the forms    *)
(* buildBranchMapping and the legacy string encoding write.  Operands and     *)
(* tokens count in parts of Full.  Pause, resume and the cache version change *)
(* no route and are left to ManifestCache.                                    *)
EXTENDS Integers, FiniteSets, Sequences

CONSTANTS
  Branches,      \* branch ids, existing and still to be created
  Channels,      \* channel ids
  Requests,      \* concurrent management requests
  Clients,       \* devices that send an EAS client id
  Runtimes,      \* runtime versions
  Salts,         \* what crypto.randomUUID may return for a rollout
  Full,          \* the operand of a rollout to everyone
  Operands,      \* percentages a request may ask for
  Fraction,      \* sha256Fraction: the token of a client under a salt
  StoredRows,    \* rows written before, legacy logic included
  NoTest, NeverMatch, NoMapping, NoClient, NoBranch, NoRow, Unborn, Deleted, Idle

ASSUME RoutingAssumption ==
  /\ Full \in Nat \ {0}
  /\ Operands \subseteq 1..Full
  /\ Fraction \in [Salts -> [Clients -> 0..(Full - 1)]]
  /\ NeverMatch \notin [runtime : Runtimes \cup {NoTest}, operand : (0..Full) \cup {NoTest}]
  /\ NoTest \notin Runtimes \cup (0..Full)
  /\ NoClient \notin Clients
  /\ NoBranch \notin Branches

Nodes == [runtime : Runtimes \cup {NoTest}, operand : (0..Full) \cup {NoTest}]
Always == [runtime |-> NoTest, operand |-> NoTest]
Entries == [branch : Branches, node : Nodes \cup {NeverMatch}]
Mappings == [salt : Salts, data : Seq(Entries)]
Rows == [branch : Branches, mapping : Mappings \cup {NoMapping}]
Contexts == [client : Clients \cup {NoClient}, runtime : Runtimes]

(* The last entry, which everybody else is sent to, is the channel's own       *)
(* branch, as in every mapping the code writes.                               *)
FallsBack(row) ==
  row.mapping # NoMapping /\ row.mapping.data # <<>> =>
    row.mapping.data[Len(row.mapping.data)].branch = row.branch

ASSUME RowsAssumption ==
  /\ NoMapping \notin Mappings
  /\ {Unborn, Deleted, NoRow} \cap Rows = {}
  /\ StoredRows \subseteq Rows
  /\ \A row \in StoredRows : FallsBack(row)

VARIABLES
  branches,  \* the branches table
  deleted,   \* branch ids that were deleted
  channel,   \* the channels table
  request,   \* the request each handler is working on
  torn,      \* history: the running rollout was written over a change not seen
  orphans    \* history: branches deleted beside a rollout that was starting

channelVars == <<branches, deleted, channel, request, torn, orphans>>

-----------------------------------------------------------------------------
(* The mapping: who is sent where.                                            *)

EvaluateNode(node, salt, ctx) ==
  /\ node # NeverMatch
  /\ node.runtime \in {NoTest, ctx.runtime}
  /\ \/ node.operand = NoTest
     \/ ctx.client # NoClient /\ Fraction[salt][ctx.client] < node.operand

Matching(mapping, ctx) ==
  {i \in DOMAIN mapping.data : EvaluateNode(mapping.data[i].node, mapping.salt, ctx)}

(* The first entry that matches, else the last one whatever its logic.        *)
EvaluateBranchMapping(mapping, ctx) ==
  LET matching == Matching(mapping, ctx)
  IN  CASE mapping.data = <<>> -> NoBranch
        [] matching # {} ->
             mapping.data[CHOOSE i \in matching : \A j \in matching : i <= j].branch
        [] OTHER -> mapping.data[Len(mapping.data)].branch

ResolveBranchId(row, ctx) ==
  LET routed == IF row.mapping = NoMapping THEN NoBranch
                ELSE EvaluateBranchMapping(row.mapping, ctx)
  IN  IF routed = NoBranch THEN row.branch ELSE routed

(* Mutant: the fallback counts only when its logic can match.                 *)
ExtractReachableNormalized(mapping) ==
  {mapping.data[i].branch : i \in {j \in DOMAIN mapping.data :
                                     mapping.data[j].node # NeverMatch}}

(* What the reaper keeps: every entry that can match, and always the last.    *)
ExtractReachable(mapping) ==
  {mapping.data[i].branch : i \in {j \in DOMAIN mapping.data :
                                     \/ mapping.data[j].node # NeverMatch
                                     \/ j = Len(mapping.data)}}

ReachableBranchIds(row) ==
  {row.branch} \cup (IF row.mapping = NoMapping THEN {} ELSE ExtractReachable(row.mapping))

(* What invalidation and the deletion of a branch look at: every entry.       *)
ReferencedBranchIds(row) ==
  {row.branch} \cup (IF row.mapping = NoMapping THEN {}
                     ELSE {row.mapping.data[i].branch : i \in DOMAIN row.mapping.data})

BuildBranchMapping(new, old, operand, runtime, salt) ==
  [salt |-> salt,
   data |-> <<[branch |-> new, node |-> [runtime |-> runtime, operand |-> operand]],
              [branch |-> old, node |-> Always]>>]

(* Mutant: every edit writes a bare node.                                     *)
WithBareOperand(node, operand) == [runtime |-> NoTest, operand |-> operand]

(* Mutant: the percentage is not scaled to the operand.                       *)
WithUnscaledOperand(node, operand) == [runtime |-> NoTest, operand |-> 100 * operand]

(* A node without a token test is replaced by a bare one.                     *)
WithOperand(node, operand) ==
  IF node # NeverMatch /\ node.operand # NoTest
  THEN [node EXCEPT !.operand = operand]
  ELSE [runtime |-> NoTest, operand |-> operand]

UpdatePercentage(mapping, operand) ==
  IF mapping.data = <<>> THEN mapping
  ELSE [mapping EXCEPT !.data[1].node = WithOperand(@, operand)]

-----------------------------------------------------------------------------
(* A request names a channel, a branch and the parameters of its operation,   *)
(* and holds the row it read.                                                 *)

Ops == {"create", "relink", "rollout", "percentage", "complete", "revert",
        "delete", "deleteBranch"}

Slots ==
  [op : Ops, channel : Channels \cup {NoRow}, branch : Branches \cup {NoBranch},
   operand : Operands \cup {NoTest}, runtime : Runtimes \cup {NoTest},
   seen : Rows \cup {NoRow}, found : BOOLEAN]

ASSUME SlotsAssumption == Idle \notin Slots

Exists(c) == channel[c] \notin {Unborn, Deleted}

Take(r, slot) ==
  /\ request[r] = Idle
  /\ request' = [request EXCEPT ![r] = slot]

Done(r) == request' = [request EXCEPT ![r] = Idle]

Holding(r, ops) == request[r] # Idle /\ request[r].op \in ops

Asked(op, c, b) ==
  [op |-> op, channel |-> c, branch |-> b, operand |-> NoTest, runtime |-> NoTest,
   seen |-> channel[c], found |-> FALSE]

ChannelInit ==
  /\ branches \in {bs \in SUBSET Branches : bs # {}}
  /\ deleted = {}
  /\ channel \in [Channels -> {row \in StoredRows : ReferencedBranchIds(row) \subseteq branches}
                              \cup {Unborn}]
  /\ request = [r \in Requests |-> Idle]
  /\ torn = [c \in Channels |-> FALSE]
  /\ orphans = {}

(* One UPDATE of one row: nothing happens when the row is gone, and the       *)
(* foreign key of branch_id refuses a branch that is gone.                    *)
Write(r, row) ==
  LET c == request[r].channel
      written == Exists(c) /\ row.branch \in branches
  IN  /\ Done(r)
      /\ channel' = IF written THEN [channel EXCEPT ![c] = row] ELSE channel
      /\ torn' = IF written
                 THEN [torn EXCEPT ![c] = /\ row.mapping # NoMapping
                                          /\ @ \/ request[r].seen # channel[c]]
                 ELSE torn
      /\ UNCHANGED <<branches, deleted, orphans>>

Idles == UNCHANGED <<branches, deleted, channel, torn, orphans>>

-----------------------------------------------------------------------------
(* The handlers: findById and the checks on what it returned.                 *)

ReadForCreate(r) ==
  \E c \in Channels, b \in Branches :
    /\ channel[c] = Unborn
    /\ Take(r, [Asked("create", c, b) EXCEPT !.seen = NoRow])
    /\ Idles

(* Mutant: a channel is relinked while a rollout runs.                        *)
ReadForRelinkAlways(r) ==
  \E c \in Channels, b \in Branches :
    Exists(c) /\ Take(r, Asked("relink", c, b)) /\ Idles

ReadForRelink(r) ==
  \E c \in Channels, b \in Branches :
    /\ Exists(c)
    /\ channel[c].mapping = NoMapping
    /\ Take(r, Asked("relink", c, b))
    /\ Idles

ReadForRollout(r) ==
  \E c \in Channels, b \in Branches, p \in Operands, v \in Runtimes \cup {NoTest} :
    /\ Exists(c)
    /\ channel[c].mapping = NoMapping
    /\ b # channel[c].branch
    /\ Take(r, [Asked("rollout", c, b) EXCEPT !.operand = p, !.runtime = v])
    /\ Idles

ReadForPercentage(r) ==
  \E c \in Channels, p \in Operands :
    /\ Exists(c)
    /\ channel[c].mapping # NoMapping
    /\ Take(r, [Asked("percentage", c, NoBranch) EXCEPT !.operand = p])
    /\ Idles

ReadForComplete(r) ==
  \E c \in Channels :
    /\ Exists(c)
    /\ channel[c].mapping # NoMapping
    /\ channel[c].mapping.data # <<>>
    /\ Take(r, Asked("complete", c, NoBranch))
    /\ Idles

ReadForRevert(r) ==
  \E c \in Channels :
    /\ Exists(c)
    /\ channel[c].mapping # NoMapping
    /\ Take(r, Asked("revert", c, NoBranch))
    /\ Idles

ReadForDelete(r) ==
  \E c \in Channels : Exists(c) /\ Take(r, Asked("delete", c, NoBranch)) /\ Idles

(* branchRepo.findById of the branch the request names.                       *)
FindBranch(r) ==
  /\ Holding(r, {"create", "relink", "rollout"})
  /\ ~request[r].found
  /\ request' = [request EXCEPT ![r] = IF request[r].branch \in branches
                                       THEN [request[r] EXCEPT !.found = TRUE]
                                       ELSE Idle]
  /\ Idles

(* Their writes.                                                              *)

InsertChannel(r) ==
  LET c == request[r].channel
      b == request[r].branch
  IN  /\ Holding(r, {"create"})
      /\ request[r].found
      /\ Done(r)
      /\ channel' = IF channel[c] = Unborn /\ b \in branches
                    THEN [channel EXCEPT ![c] = [branch |-> b, mapping |-> NoMapping]]
                    ELSE channel
      /\ UNCHANGED <<branches, deleted, torn, orphans>>

UpdateBranchId(r) ==
  /\ Holding(r, {"relink"})
  /\ request[r].found
  /\ \/ /\ Exists(request[r].channel)
        /\ Write(r, [channel[request[r].channel] EXCEPT !.branch = request[r].branch])
     \/ ~Exists(request[r].channel) /\ Done(r) /\ Idles

SetMapping(r, mapping) ==
  \/ /\ Exists(request[r].channel)
     /\ Write(r, [channel[request[r].channel] EXCEPT !.mapping = mapping])
  \/ ~Exists(request[r].channel) /\ Done(r) /\ Idles

StartRollout(r) ==
  LET q == request[r]
  IN  /\ Holding(r, {"rollout"})
      /\ q.found
      /\ \E salt \in Salts :
           SetMapping(r, BuildBranchMapping(q.branch, q.seen.branch, q.operand, q.runtime, salt))

SetPercentage(r) ==
  /\ Holding(r, {"percentage"})
  /\ SetMapping(r, UpdatePercentage(request[r].seen.mapping, request[r].operand))

CompleteRollout(r) ==
  /\ Holding(r, {"complete"})
  /\ Write(r, [branch |-> request[r].seen.mapping.data[1].branch, mapping |-> NoMapping])

RevertRollout(r) ==
  /\ Holding(r, {"revert"})
  /\ SetMapping(r, NoMapping)

DeleteChannel(r) ==
  /\ Holding(r, {"delete"})
  /\ Done(r)
  /\ channel' = [channel EXCEPT ![request[r].channel] = Deleted]
  /\ torn' = [torn EXCEPT ![request[r].channel] = FALSE]
  /\ UNCHANGED <<branches, deleted, orphans>>

-----------------------------------------------------------------------------
(* Branches.                                                                  *)

CreateBranch ==
  /\ \E b \in Branches \ (branches \cup deleted) : branches' = branches \cup {b}
  /\ UNCHANGED <<deleted, channel, request, torn, orphans>>

Routed(b) == \E c \in Channels : Exists(c) /\ b \in ReferencedBranchIds(channel[c])

(* Mutant: the count forgets the branch mappings.                             *)
LinkedOnly(b) == \E c \in Channels : Exists(c) /\ channel[c].branch = b

(* The predicate of branchRepo.delete.                                        *)
Referenced(b) ==
  \E c \in Channels :
    /\ Exists(c)
    /\ \/ channel[c].branch = b
       \/ /\ channel[c].mapping # NoMapping
          /\ \E i \in DOMAIN channel[c].mapping.data : channel[c].mapping.data[i].branch = b

(* The count of the channels that reference the branch, which must be 0.      *)
(* found is a history: that nothing was routed to the branch then.            *)
CountReferences(r) ==
  \E b \in branches :
    /\ ~Referenced(b)
    /\ Take(r, [op |-> "deleteBranch", channel |-> NoRow, branch |-> b, operand |-> NoTest,
                runtime |-> NoTest, seen |-> NoRow, found |-> ~Routed(b)])
    /\ Idles

(* The batch: the foreign key of channels.branch_id makes it fail whole.      *)
DeleteBranch(r) ==
  LET b == request[r].branch
      starting == \/ request[r].found /\ Routed(b)
                  \/ \E q \in Requests : /\ Holding(q, {"rollout"})
                                         /\ request[q].found
                                         /\ request[q].branch = b
  IN  /\ Holding(r, {"deleteBranch"})
      /\ Done(r)
      /\ \/ /\ \E c \in Channels : Exists(c) /\ channel[c].branch = b
            /\ UNCHANGED <<branches, deleted, orphans>>
         \/ /\ \A c \in Channels : Exists(c) => channel[c].branch # b
            /\ branches' = branches \ {b}
            /\ deleted' = deleted \cup {b}
            /\ orphans' = IF starting THEN orphans \cup {b} ELSE orphans
      /\ UNCHANGED <<channel, torn>>

ChannelNext ==
  \/ CreateBranch
  \/ \E r \in Requests :
       \/ ReadForCreate(r) \/ ReadForRelink(r) \/ ReadForRollout(r)
       \/ ReadForPercentage(r) \/ ReadForComplete(r) \/ ReadForRevert(r)
       \/ ReadForDelete(r) \/ FindBranch(r)
       \/ InsertChannel(r) \/ UpdateBranchId(r) \/ StartRollout(r)
       \/ SetPercentage(r) \/ CompleteRollout(r) \/ RevertRollout(r)
       \/ DeleteChannel(r) \/ CountReferences(r) \/ DeleteBranch(r)

ChannelSpec == ChannelInit /\ [][ChannelNext]_channelVars

-----------------------------------------------------------------------------
(* Every variable has its type.                                               *)
ChannelTypeOK ==
  /\ branches \subseteq Branches
  /\ deleted \subseteq Branches
  /\ channel \in [Channels -> Rows \cup {Unborn, Deleted}]
  /\ request \in [Requests -> Slots \cup {Idle}]
  /\ torn \in [Channels -> BOOLEAN]
  /\ orphans \subseteq Branches

(* Whatever a device sends, the branch it is routed to is one the reaper      *)
(* keeps the updates of and one whose changes invalidate the channel's cached *)
(* manifests, for every mapping a channel can hold: rows with logic that      *)
(* never matches included (extractReachableBranchIds, listReachable-          *)
(* BranchIdsByProject, bumpChannelCacheVersionByBranchReference).             *)
RoutesAreKnown ==
  \A c \in Channels : Exists(c) =>
    \A ctx \in Contexts :
      ResolveBranchId(channel[c], ctx)
        \in ReachableBranchIds(channel[c]) \cap ReferencedBranchIds(channel[c])

(* While a rollout runs, devices it has not reached get the channel's own     *)
(* branch, so reverting it changes nothing for them: unless a request wrote   *)
(* the channel over a change it had not seen.                                 *)
RolloutHangsTogether ==
  \A c \in Channels : Exists(c) /\ ~torn[c] => FallsBack(channel[c])

(* A channel routes to branches that exist: the foreign key sees branch_id    *)
(* only, the count of branchRepo.delete must see the mapping.  Excused are a  *)
(* branch deleted while a rollout to it was starting, and a rollout written   *)
(* over a change not seen.                                                    *)
RoutedBranchesExist ==
  \A c \in Channels : Exists(c) =>
    /\ channel[c].branch \in branches
    /\ ~torn[c] => ReferencedBranchIds(channel[c]) \subseteq branches \cup orphans

(* Changing the percentage of a rollout moves the devices between the two     *)
(* operands and nobody else: a device keeps its token, a rollout narrowed to  *)
(* a runtime version stays so, and a raise takes no device off the new branch.*)
PercentageMovesOnlyItsDevices ==
  [][\A r \in Requests, c \in Channels :
       /\ SetPercentage(r)
       /\ request[r].channel = c
       /\ request[r].seen = channel[c]
       /\ channel[c].mapping.data # <<>>
       =>
       LET node == channel[c].mapping.data[1].node
       IN  node # NeverMatch /\ node.operand # NoTest =>
             \A ctx \in Contexts :
               ResolveBranchId(channel'[c], ctx) # ResolveBranchId(channel[c], ctx) =>
                 /\ node.runtime \in {NoTest, ctx.runtime}
                 /\ ctx.client # NoClient
                 /\ LET token == Fraction[channel[c].mapping.salt][ctx.client]
                    IN  (token < node.operand) # (token < request[r].operand)]_channelVars
=============================================================================
