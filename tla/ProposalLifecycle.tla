------------------------- MODULE ProposalLifecycle -------------------------
(***************************************************************************)
(* What the chain promises about proposals, whatever pallet does it: a     *)
(* proposal is decided once, waits for its signature as often as it was    *)
(* let in, and each time it is signed or dropped, never both and never     *)
(* twice; and bridges are built from signed anchor updates only.           *)
(***************************************************************************)
EXTENDS Integers

CONSTANTS
  Proposal,
  Voted,            \* proposals that the proposers vote on
  Link              \* anchor update -> the resources that it links

VARIABLES
  verdict,          \* voted proposal -> "open", "approved" or "rejected"
  waiting,          \* proposal -> how often it waits for a signature
  signed,           \* proposal -> how often it was signed
  dropped,          \* proposal -> how often it was dropped
  bridged           \* links that bridges were built from

vars == <<verdict, waiting, signed, dropped, bridged>>

Init ==
  /\ verdict = [p \in Voted |-> "open"]
  /\ waiting = [p \in Proposal |-> 0]
  /\ signed = [p \in Proposal |-> 0]
  /\ dropped = [p \in Proposal |-> 0]
  /\ bridged = {}

\* A proposal that the vote did not decide yet is approved and let in,
Approve(p) ==
  /\ verdict[p] = "open"
  /\ verdict' = [verdict EXCEPT ![p] = "approved"]
  /\ waiting' = [waiting EXCEPT ![p] = @ + 1]
  /\ UNCHANGED <<signed, dropped, bridged>>

\* or rejected.
Reject(p) ==
  /\ verdict[p] = "open"
  /\ verdict' = [verdict EXCEPT ![p] = "rejected"]
  /\ UNCHANGED <<waiting, signed, dropped, bridged>>

\* Root and the metadata pallet let proposals in without a vote.
LetIn(p) ==
  /\ waiting' = [waiting EXCEPT ![p] = @ + 1]
  /\ UNCHANGED <<verdict, signed, dropped, bridged>>

\* The proposals of some batches go, each as often as it is in them: those in
\* one batch to the signed ones, the others for good.
Gone(p) == 0 .. waiting[p]

Leave ==
  /\ \A p \in Proposal :
       /\ waiting'[p] \in Gone(p)
       /\ signed'[p] - signed[p] \in Gone(p)
       /\ dropped'[p] - dropped[p] \in Gone(p)
       /\ waiting'[p] + signed'[p] + dropped'[p]
            = waiting[p] + signed[p] + dropped[p]
  /\ UNCHANGED <<verdict, bridged>>

\* The registry builds on an update that was signed.
Build(p) ==
  /\ signed[p] > 0
  /\ bridged' = bridged \cup {Link[p]}
  /\ UNCHANGED <<verdict, waiting, signed, dropped>>

Next ==
  \/ \E p \in Voted : Approve(p) \/ Reject(p)
  \/ \E p \in Proposal : LetIn(p)
  \/ Leave
  \/ \E p \in DOMAIN Link : Build(p)

Spec == Init /\ [][Next]_vars
=============================================================================
