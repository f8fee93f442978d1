---------------------- MODULE TransactionStatusProofs ----------------------
(***************************************************************************)
(* Proofs, for every MaxConfirmations, that the commitment results of     *)
(* TransactionStatus are well typed, nested and never revoked.            *)
(*                                                                         *)
(* The inductive invariant Inv says that the client's results are the two *)
(* functions of the latest answer, and that the answer is well formed: a  *)
(* Finalized status is rooted, and a rooted status is Finalized or comes  *)
(* from an older node.  Nesting and stability follow from it.             *)
(***************************************************************************)
EXTENDS TransactionStatus, TLAPS

USE ConstantsAssumption

(* The latest answer is well formed and the results are computed from it. *)
WellFormed(st) ==
    /\ st \in Status
    /\ st.confirmation_status = "Finalized" => st.confirmations = None
    /\ st.confirmations = None => st.confirmation_status \in {None, "Finalized"}

Inv ==
    /\ WellFormed(status)
    /\ satisfied = [c \in Commitments |-> satisfies_commitment(status, c)]
    /\ reported = confirmation_status(status)

(* confirmation_status() of a well-typed status is one of the three      *)
(* statuses: the older-software fallback covers every count.              *)
LEMMA ConfirmationStatusType ==
    ASSUME NEW st \in Status
    PROVE  confirmation_status(st) \in ConfirmationStatuses
BY DEF Status, confirmation_status, ConfirmationStatuses

(* On a well-formed status, finalized implies confirmed.                 *)
LEMMA NestedOnWellFormed ==
    ASSUME NEW st, WellFormed(st), satisfies_commitment(st, "finalized")
    PROVE  satisfies_commitment(st, "confirmed")
BY DEF WellFormed, satisfies_commitment

(* A step of the node never takes away a commitment an answer satisfied. *)
LEMMA StepKeepsSatisfied ==
    ASSUME Inv, Next, NEW c \in Commitments, satisfies_commitment(status, c)
    PROVE  satisfies_commitment(status', c)
<1> USE DEF Inv, WellFormed, Status, satisfies_commitment, Commitments,
           ConfirmationStatuses
<1>1. CASE AddConfirmation
  BY <1>1 DEF AddConfirmation, Answer
<1>2. CASE OptimisticallyConfirm
  BY <1>2 DEF OptimisticallyConfirm, Answer
<1>3. CASE Root
  BY <1>3 DEF Root, Answer
<1>4. QED
  BY <1>1, <1>2, <1>3 DEF Next

(* Init establishes Inv. *)
LEMMA InvInit == Init => Inv
BY DEF Init, Inv, WellFormed, Status, ConfirmationStatuses

(* Every step preserves Inv. *)
LEMMA InvNext == Inv /\ [Next]_vars => Inv'
<1> SUFFICES ASSUME Inv, [Next]_vars PROVE Inv'
  OBVIOUS
<1> USE DEF Inv, WellFormed, Status, ConfirmationStatuses
<1>1. CASE AddConfirmation
  BY <1>1 DEF AddConfirmation, Answer
<1>2. CASE OptimisticallyConfirm
  BY <1>2 DEF OptimisticallyConfirm, Answer
<1>3. CASE Root
  BY <1>3 DEF Root, Answer
<1>4. CASE UNCHANGED vars
  BY <1>4 DEF vars
<1>5. QED
  BY <1>1, <1>2, <1>3, <1>4 DEF Next

(* Inv implies the type invariant. *)
LEMMA InvTypeOK == Inv => TypeOK
<1> SUFFICES ASSUME Inv PROVE TypeOK
  OBVIOUS
<1>1. reported \in ConfirmationStatuses
  BY ConfirmationStatusType DEF Inv, WellFormed
<1>2. satisfied \in [Commitments -> BOOLEAN]
  BY DEF Inv, satisfies_commitment
<1>3. QED
  BY <1>1, <1>2 DEF TypeOK, Inv, WellFormed

(* The client's results always have their types: confirmation_status()    *)
(* is total on the statuses a node reports.                               *)
THEOREM TypeCorrect == Spec => []TypeOK
BY InvInit, InvNext, InvTypeOK, PTL DEF Spec

(* satisfies_commitment is nested across commitment levels on every      *)
(* answer a current or an older node gives, whatever MaxConfirmations is. *)
THEOREM LevelsNestedInvariant == Spec => []CommitmentLevelsNested
<1>1. Inv => CommitmentLevelsNested
  <2> SUFFICES ASSUME Inv, NEW c \in Commitments, NEW d \in Commitments,
                      Rank(d) <= Rank(c), satisfied[c]
               PROVE  satisfied[d]
    BY DEF CommitmentLevelsNested
  <2>1. satisfies_commitment(status, c)
    BY DEF Inv
  <2>2. CASE d = "processed"
    BY <2>2 DEF Inv, satisfies_commitment, Commitments
  <2>3. CASE d = "confirmed"
    <3>1. c \in {"confirmed", "finalized"}
      BY <2>3 DEF Rank, Commitments
    <3>2. satisfies_commitment(status, "confirmed")
      BY <3>1, <2>1, NestedOnWellFormed DEF Inv
    <3>3. QED
      BY <3>2, <2>3 DEF Inv, Commitments
  <2>4. CASE d = "finalized"
    <3>1. c = "finalized"
      BY <2>4 DEF Rank, Commitments
    <3>2. QED
      BY <3>1, <2>1, <2>4 DEF Inv, Commitments
  <2>5. QED
    BY <2>2, <2>3, <2>4 DEF Commitments
<1>2. QED
  BY <1>1, InvInit, InvNext, PTL DEF Spec

(* A commitment the client has seen satisfied stays satisfied in every    *)
(* later answer.                                                          *)
THEOREM SatisfactionStableTheorem == Spec => SatisfactionStable
<1>1. Inv /\ [Next]_vars =>
          [\A c \in Commitments : satisfied[c] => satisfied'[c]]_vars
  <2> SUFFICES ASSUME Inv, [Next]_vars, NEW c \in Commitments, satisfied[c]
               PROVE  satisfied'[c]
    BY DEF vars
  <2>1. Inv'
    BY InvNext
  <2>2. CASE Next
    BY <2>2, <2>1, StepKeepsSatisfied DEF Inv
  <2>3. CASE UNCHANGED vars
    BY <2>3 DEF vars
  <2>4. QED
    BY <2>2, <2>3
<1>2. QED
  BY <1>1, InvInit, InvNext, PTL DEF Spec, SatisfactionStable
=============================================================================
