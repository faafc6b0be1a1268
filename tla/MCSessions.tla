----------------------------- MODULE MCSessions -----------------------------
(***************************************************************************)
(* The records that decide who may do what in a session, side by side: the  *)
(* turns the kernel routes, the owner's messages and commands, the receipts *)
(* of task controls, and what a client is told of its task.  They share no  *)
(* state, so a behaviour takes steps of one of them only (part) and the run *)
(* explores their union.                                                    *)
(***************************************************************************)
EXTENDS AcpKernel, ControlReceipts, OwnerBinding, ServiceAcp

VARIABLE part

\* AcpKernel with two sessions and one request: a turn waits for its approval
\* while the other session reads the port and fills the routed events.
ASSUME KernelConstants

\* ControlReceipts with a key of each kind, two of resumption: steering and one
\* resumption go to an ACP server, the rest to the owner.
ASSUME KeysAreDistinct

\* OwnerBinding with two channels, two messages, a code and an owner who is
\* replaced once, while the service carries out commands of both owners: a
\* session is started in one channel and then asked for in the other.
ASSUME BindingConstants

Command(k, s, a, c, e) ==
  [kind |-> k, session |-> s, actor |-> a, channel |-> c, event |-> e]

MCCommands ==
  {Command("start", "s1", "alice", "c1", "e1"), Command("start", "s1", "bob", "c2", "e2"),
   Command("configure", "s2", "bob", "c1", "e2"), Command("steer", "s1", "alice", "c1", "e2")}

\* ServiceAcp with two tasks and two prompts whose streams may fail, while the
\* tasks are paused, resumed and cancelled, the session is reconfigured and the
\* client connects again.
ASSUME AdapterConstants

Init ==
  /\ part \in {"kernel", "binding", "receipts", "adapter"}
  /\ KernelInit /\ BindingInit /\ ReceiptInit /\ AdapterInit

Next ==
  \/ part = "kernel" /\ KernelNext /\ UNCHANGED <<part, bindingVars, receiptVars, adapterVars>>
  \/ part = "binding" /\ BindingNext /\ UNCHANGED <<part, kernelVars, receiptVars, adapterVars>>
  \/ part = "receipts" /\ ReceiptNext /\ UNCHANGED <<part, kernelVars, bindingVars, adapterVars>>
  \/ part = "adapter" /\ AdapterNext /\ UNCHANGED <<part, kernelVars, bindingVars, receiptVars>>

Spec == Init /\ [][Next]_<<part, kernelVars, bindingVars, receiptVars, adapterVars>>

=============================================================================
