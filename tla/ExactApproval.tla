---------------------------- MODULE ExactApproval ----------------------------
(***************************************************************************)
(* What an effect request of a provider may go through, whoever handles it: *)
(* a durable grant (automatic, or the owner's decision) is made at most     *)
(* once, the provider is answered at most once, it is told to go ahead only *)
(* under a grant that allows it, and a grant is never made after the answer.*)
(***************************************************************************)
CONSTANT Requests

VARIABLES
  grant,      \* none, auto, allowed, denied
  decision    \* open, allow, deny

approvalVars == <<grant, decision>>

ApprovalInit ==
  /\ grant = [r \in Requests |-> "none"]
  /\ decision = [r \in Requests |-> "open"]

Grant(r, g) ==
  /\ grant[r] = "none" /\ decision[r] = "open"
  /\ grant' = [grant EXCEPT ![r] = g]
  /\ UNCHANGED decision

Answer(r) ==
  /\ decision[r] = "open"
  /\ \E d \in {"allow", "deny"} :
       /\ d = "allow" => grant[r] \in {"auto", "allowed"}
       /\ decision' = [decision EXCEPT ![r] = d]
  /\ UNCHANGED grant

\* A grant and its answer may be one step of the implementation.
GrantAndAnswer(r) ==
  \E g \in {"auto", "allowed", "denied"} :
    /\ grant[r] = "none" /\ decision[r] = "open"
    /\ grant' = [grant EXCEPT ![r] = g]
    /\ decision' = [decision EXCEPT ![r] = IF g = "denied" THEN "deny" ELSE "allow"]

ApprovalNext ==
  \E r \in Requests :
    \/ \E g \in {"auto", "allowed", "denied"} : Grant(r, g)
    \/ Answer(r)
    \/ GrantAndAnswer(r)

ApprovalSpec == ApprovalInit /\ [][ApprovalNext]_approvalVars
=============================================================================
