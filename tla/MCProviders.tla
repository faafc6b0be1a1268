---------------------------- MODULE MCProviders ----------------------------
(***************************************************************************)
(* What stands between the engine and a provider process, side by side: the *)
(* approvals of an interactive turn, the adapter of the app server, and the *)
(* supervisor of its process.  They share no state, so a behaviour takes    *)
(* steps of one of them only (part) and the run explores their union.       *)
(***************************************************************************)
EXTENDS AcpKernel, Sidecar, AppServer

VARIABLE part

\* AcpKernel with one Buzz session whose turn asks for two effects, with every fault.
ASSUME KernelConstants

\* AppServer with two turns, so that what one left behind meets the next.
ASSUME AppConstants

\* One turn of two messages, with an approval and a second compaction.
Messages == INSTANCE AppServer WITH
  MaxTurns <- 1, MaxDeltas <- 2, MaxMessages <- 2, MaxRequests <- 1, MaxCalls <- 2, MaxQueued <- 1

\* Sidecar with two requests that may be dropped, a request of the child, and its exit.
ASSUME SidecarConstants /\ ~ReuseIds

\* A child that asks, writes more than is read, writes garbage or exits; one of
\* the two requests is made.
Pipe == INSTANCE Sidecar WITH Mishaps <- {"exit", "overrun", "garbage", "invalid"}

Init ==
  /\ part \in {"kernel", "messages", "turns", "sidecar", "pipe"}
  /\ KernelInit /\ AppInit
  /\ SidecarInit /\ key = [r1 |-> "k1", r2 |-> "k2"]

Next ==
  \/ part = "kernel" /\ KernelNext /\ UNCHANGED <<part, appVars, sidecarVars>>
  \/ part = "messages" /\ Messages!AppNext /\ UNCHANGED <<part, kernelVars, sidecarVars>>
  \/ part = "turns" /\ AppNext /\ UNCHANGED <<part, kernelVars, sidecarVars>>
  \/ part = "sidecar" /\ SidecarNext /\ UNCHANGED <<part, kernelVars, appVars>>
  \/ /\ part = "pipe" /\ Pipe!SidecarNext /\ pc'["r2"] = "idle"
     /\ UNCHANGED <<part, kernelVars, appVars>>

Spec == Init /\ [][Next]_<<part, kernelVars, appVars, sidecarVars>>

=============================================================================
