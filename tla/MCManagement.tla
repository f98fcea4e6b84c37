----------------------------- MODULE MCManagement -----------------------------
(***************************************************************************)
(* Model checking of management components that share no state: channels    *)
(* and branches, environment variables, submissions.  Each behaviour is one *)
(* of one component; `part' says which, and the others stay where they      *)
(* start.                                                                   *)
(***************************************************************************)
EXTENDS ChannelRouting, EnvVars, Submissions, TLC

CONSTANTS b1, b2, b3, k1, k2, s1, s2, v1, v2

VARIABLE part

managementVars == <<channelVars, envVars, submissionVars, part>>

\* Each salt orders the two clients in its own way.
MCFraction == [s \in Salts |-> IF s = s1 THEN k1 :> 0 @@ k2 :> 1 ELSE k1 :> 1 @@ k2 :> 0]

\* The rows a channel may start from: no rollout; an empty one; rollouts to
\* nobody and to everybody on v1; one whose logic never matches in the first,
\* the last or every entry; one that tests the runtime version only.
NoRollout == [branch |-> b1, mapping |-> NoMapping]

MCStoredRows ==
  LET row(data) == [branch |-> b1, mapping |-> [salt |-> s1, data |-> data]]
      entry(b, node) == [branch |-> b, node |-> node]
      test(v, p) == [runtime |-> v, operand |-> p]
  IN  {NoRollout,
       row(<<>>),
       row(<<entry(b2, test(NoTest, 0)), entry(b1, Always)>>),
       row(<<entry(b2, test(v1, Full)), entry(b1, Always)>>),
       row(<<entry(b2, NeverMatch), entry(b1, Always)>>),
       row(<<entry(b2, test(NoTest, 1)), entry(b1, NeverMatch)>>),
       row(<<entry(b2, NeverMatch), entry(b1, NeverMatch)>>),
       row(<<entry(b2, test(v1, NoTest)), entry(b1, Always)>>)}

ManagementInit ==
  /\ part \in {"channels", "env", "submissions"}
  /\ ChannelInit /\ EnvInit /\ SubmissionInit
  /\ part # "channels" => branches = Branches /\ \A c \in Channels : channel[c] = NoRollout

ManagementNext ==
  \/ part = "channels" /\ ChannelNext /\ UNCHANGED <<part, envVars, submissionVars>>
  \/ part = "env" /\ EnvNext /\ UNCHANGED <<part, channelVars, submissionVars>>
  \/ part = "submissions" /\ SubmissionNext /\ UNCHANGED <<part, channelVars, envVars>>

ManagementSpec == ManagementInit /\ [][ManagementNext]_managementVars

\* The requests of the two components, and the submissions, are named by the
\* same two model values, so that one small group of permutations serves all.
Symmetric == Permutations(Requests)

\* Every component keeps to its types.
ComponentsTyped == ChannelTypeOK /\ EnvTypeOK /\ SubmissionTypeOK
=============================================================================
