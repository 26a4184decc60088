------------------------------ MODULE MCPacket ------------------------------
(* Values for the constants of Packet.                                     *)
EXTENDS Packet

CONSTANTS global, here, there

Entry(status, confidence, sources, authority, discovery, tokens) ==
  [kind |-> "memory_entry", status |-> status, claim |-> "recommendation",
   confidence |-> confidence, sources |-> sources, authority |-> authority, home |-> authority,
   discovery |-> discovery, relation |-> "", depth |-> 0, tokens |-> tokens]

Node(claim, authority, home, discovery, relation, depth, tokens) ==
  [kind |-> "topic_node", status |-> "active", claim |-> claim, confidence |-> "source_backed",
   sources |-> <<>>, authority |-> authority, home |-> home, discovery |-> discovery,
   relation |-> relation, depth |-> depth, tokens |-> tokens]

FewRows ==
  {Entry("active", "verified", <<"verified", "unverified", "stale">>, here, "explicit_only", 2),
   Entry("active", "inferred", <<>>, there, "linked_projects", 1),
   Entry("active", "inferred", <<>>, there, "explicit_only", 1),
   Entry("disputed", "unverified", <<"broken">>, global, "explicit_only", 1),
   Entry("superseded", "verified", <<"verified">>, here, "explicit_only", 1)}
  \cup {Node("policy", global, here, "explicit_only", "", 0, t) : t \in {1, 2}}
  \cup {Node("observation", there, here, "same_project", "", 0, 1)}
  \cup {Node("observation", there, here, "same_project", relation, depth, 1) :
          relation \in {"prerequisite", "historical_context"}, depth \in {1, 2}}
  \cup {Node("policy", global, here, "explicit_only", "prerequisite", 1, 2)}

TwoScopes == {global, here}
AllScopes == {global, here, there}
TwoProjects == {here, there}

\* No budget asked for is the view's hint, or the default when there is none.
SomeRequests ==
  {[scope |-> scope, limit |-> limit, asked |-> asked, hint |-> 26, policy |-> policy] :
     scope \in TwoScopes, limit \in {-1, 0, 2, 3}, asked \in {0, 25, 27}, policy \in Policies}
  \cup {[scope |-> here, limit |-> 10, asked |-> asked, hint |-> 0, policy |-> "score_desc"] :
          asked \in {-1, 0, 24}}

=============================================================================
