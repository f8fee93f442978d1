------------------------- MODULE TransactionStatus -------------------------
(***************************************************************************)
(* The commitment logic of TransactionStatus (the signature-status record *)
(* an RPC node returns), from                                             *)
(* src/forks/solana-transaction-status-client-types-wasm/src/lib.rs.      *)
(*                                                                         *)
(* The code is two pure functions of one status record:                   *)
(* satisfies_commitment(commitment) and confirmation_status().  Both have *)
(* a fallback for nodes on older software, which leave                    *)
(* confirmation_status unset and report only a confirmation count.  The   *)
(* state machine is the node's answer for one transaction as the chain    *)
(* grows (environment, not code of this repository); after every answer   *)
(* the client evaluates both functions on it, and the properties relate   *)
(* those results to each other and to the previous answer.                *)
(***************************************************************************)
EXTENDS Naturals

CONSTANTS
    MaxConfirmations,  \* confirmation count at which a slot is rooted
    None               \* Option::None

(* TransactionConfirmationStatus (lib.rs 101-108). *)
ConfirmationStatuses == {"Processed", "Confirmed", "Finalized"}

(* The three CommitmentConfig levels the code tells apart. *)
Commitments == {"processed", "confirmed", "finalized"}

ASSUME ConstantsAssumption ==
    /\ MaxConfirmations \in Nat \ {0}
    /\ None \notin Nat \cup ConfirmationStatuses

(* TransactionStatus (lib.rs 590-600): slot, status and err play no part  *)
(* in either function and are left out.  confirmations = None means the   *)
(* slot is rooted.                                                         *)
Status == [confirmations: (0..MaxConfirmations) \cup {None},
           confirmation_status: ConfirmationStatuses \cup {None}]

(* Order of the confirmation levels, used to compare a reported status   *)
(* with a requested commitment.                                           *)
Rank(s) == CASE s \in {"Processed", "processed"} -> 0
             [] s \in {"Confirmed", "confirmed"} -> 1
             [] s \in {"Finalized", "finalized"} -> 2

(* Mutant: the older-software fallback forgets the rooted case.           *)
SatisfiesCommitmentNoRootFallback(st, c) ==
    CASE c = "finalized" -> st.confirmations = None
      [] c = "confirmed" ->
            IF st.confirmation_status # None
            THEN st.confirmation_status # "Processed"
            ELSE st.confirmations # None /\ st.confirmations > 1
      [] OTHER -> TRUE

(* Mutant: "confirmed" accepts only the Confirmed status itself.          *)
SatisfiesCommitmentOnlyConfirmed(st, c) ==
    CASE c = "finalized" -> st.confirmations = None
      [] c = "confirmed" ->
            IF st.confirmation_status # None
            THEN st.confirmation_status = "Confirmed"
            ELSE \/ st.confirmations # None /\ st.confirmations > 1
                 \/ st.confirmations = None
      [] OTHER -> TRUE

(* TransactionStatus::satisfies_commitment (lib.rs 603-620). *)
satisfies_commitment(st, c) ==
    CASE c = "finalized" -> st.confirmations = None
      [] c = "confirmed" ->
            IF st.confirmation_status # None
            THEN st.confirmation_status # "Processed"
            ELSE \/ st.confirmations # None /\ st.confirmations > 1
                 \/ st.confirmations = None
      [] OTHER -> TRUE

(* Mutant: the field is returned without the older-software fallback.   *)
ConfirmationStatusNoFallback(st) == st.confirmation_status

(* TransactionStatus::confirmation_status (lib.rs 622-636). *)
confirmation_status(st) ==
    IF st.confirmation_status # None THEN st.confirmation_status
    ELSE IF st.confirmations = None THEN "Finalized"
    ELSE IF st.confirmations > 0 THEN "Confirmed"
    ELSE "Processed"

VARIABLES
    status,     \* the node's latest answer for the transaction
    satisfied,  \* satisfies_commitment of that answer, per commitment
    reported    \* confirmation_status() of that answer

vars == <<status, satisfied, reported>>

(* The client receives answer st and evaluates both functions on it.     *)
Answer(st) ==
    /\ status' = st
    /\ satisfied' = [c \in Commitments |-> satisfies_commitment(st, c)]
    /\ reported' = confirmation_status(st)

(* A node's first answer: processed with no confirmations.  A current     *)
(* node sets confirmation_status, an older one leaves it None.            *)
Init ==
    \E cs \in {"Processed", None} :
        LET st == [confirmations |-> 0, confirmation_status |-> cs]
        IN  /\ status = st
            /\ satisfied = [c \in Commitments |-> satisfies_commitment(st, c)]
            /\ reported = confirmation_status(st)

(* A block is built on top: one more confirmation.  A current node may    *)
(* report the slot optimistically confirmed at the same time.             *)
AddConfirmation ==
    /\ status.confirmations # None
    /\ status.confirmations < MaxConfirmations
    /\ \E cs \in IF status.confirmation_status = "Processed"
                 THEN {"Processed", "Confirmed"}
                 ELSE {status.confirmation_status} :
          Answer([confirmations |-> status.confirmations + 1,
                  confirmation_status |-> cs])

(* A current node reports the slot optimistically confirmed by votes.    *)
OptimisticallyConfirm ==
    /\ status.confirmation_status = "Processed"
    /\ Answer([status EXCEPT !.confirmation_status = "Confirmed"])

(* The slot is rooted: confirmations becomes None, and a current node     *)
(* reports Finalized.  Rooting needs a supermajority, so a current node   *)
(* has reported Confirmed before.                                         *)
Root ==
    /\ status.confirmations = MaxConfirmations
    /\ status.confirmation_status # "Processed"
    /\ Answer([confirmations |-> None,
               confirmation_status |->
                   IF status.confirmation_status = None THEN None
                   ELSE "Finalized"])

Next == AddConfirmation \/ OptimisticallyConfirm \/ Root

Spec == Init /\ [][Next]_vars

-----------------------------------------------------------------------------
(* The latest answer is a well-formed status and the client's results     *)
(* have the types the two functions return.                               *)
TypeOK ==
    /\ status \in Status
    /\ satisfied \in [Commitments -> BOOLEAN]
    /\ reported \in ConfirmationStatuses

(* satisfies_commitment orders the commitments: whatever satisfies a     *)
(* stronger commitment also satisfies every weaker one, for answers of    *)
(* current and of older nodes alike (the older-software fallback must     *)
(* accept a rooted status as confirmed).                                  *)
CommitmentLevelsNested ==
    \A c, d \in Commitments :
        Rank(d) <= Rank(c) /\ satisfied[c] => satisfied[d]

(* Once satisfies_commitment holds for a commitment it keeps holding as   *)
(* the node's answer progresses: a client that saw its transaction        *)
(* confirmed never sees it unconfirmed again.                             *)
SatisfactionStable ==
    [][\A c \in Commitments : satisfied[c] => satisfied'[c]]_vars

(* confirmation_status() and satisfies_commitment agree: the reported    *)
(* status reaches a commitment exactly when the status satisfies it.  The *)
(* test at lib.rs 708-715 requires that one confirmation from an older    *)
(* node does not satisfy "confirmed".                                     *)
ReportedAgreesWithCommitment ==
    \A c \in Commitments : satisfied[c] <=> Rank(reported) >= Rank(c)
=============================================================================
