------------------------------ MODULE KeyEpochs ------------------------------
(***************************************************************************)
(* What the rotating signing-key store promises (spec 4.3, 8.5), stated   *)
(* without keys: time is cut into epochs by rotations; a token carries    *)
(* the epoch it was minted in and verifies exactly while that epoch is    *)
(* the current or the previous one.                                        *)
(***************************************************************************)
EXTENDS Naturals

CONSTANTS MaxRotations   \* bound: rotations in a behaviour

VARIABLES
  epoch,     \* rotations so far
  issued,    \* epochs in which a token was minted
  verdict    \* the last verification [epoch, ok]; [0, FALSE] before any

vars == <<epoch, issued, verdict>>

Init ==
  /\ epoch = 0
  /\ issued = {}
  /\ verdict = [epoch |-> 0, ok |-> FALSE]

Mint ==
  /\ issued' = issued \cup {epoch}
  /\ UNCHANGED <<epoch, verdict>>

Rotate ==
  /\ epoch < MaxRotations
  /\ epoch' = epoch + 1
  /\ UNCHANGED <<issued, verdict>>

\* A token of epoch e verifies iff at most one rotation happened since.
Verify(e) ==
  /\ verdict' = [epoch |-> e, ok |-> e + 1 >= epoch]
  /\ UNCHANGED <<epoch, issued>>

Next == Mint \/ Rotate \/ \E e \in issued : Verify(e)

Spec == Init /\ [][Next]_vars
=============================================================================
