---------------------------- MODULE DecodeContract ----------------------------
(***************************************************************************)
(* What the client's decoding of RPC answers promises, with the node and  *)
(* the wire left out: a request is answered by the payload the node holds *)
(* or by None.  Some requests are guaranteed to come back (Lossless),     *)
(* some never (not Deliverable, a transaction that does not sanitize).    *)
(* RpcDecoding implements this specification.                             *)
(***************************************************************************)
CONSTANTS
    Requests,        \* what a client may ask for
    None,            \* Option::None
    Original(_),     \* the payload the node holds for a request
    Deliverable(_),  \* whether decode may hand that payload to the caller
    Lossless(_, _)   \* whether a build (zstd or not) must get it back

VARIABLES
    zstd_feature,  \* whether the client was built with the "zstd" feature
    phase,         \* "idle", "requested", "decoded"
    req,           \* the client's request
    result         \* what decode returned

vars == <<zstd_feature, phase, req, result>>

(* The results a request may end in. *)
Allowed(r, z) ==
    IF ~Deliverable(r) THEN {None}
    ELSE IF Lossless(r, z) THEN {Original(r)}
    ELSE {None, Original(r)}

Init ==
    /\ zstd_feature \in BOOLEAN
    /\ phase = "idle"
    /\ req = None
    /\ result = None

Request ==
    /\ phase \in {"idle", "decoded"}
    /\ \E r \in Requests : req' = r
    /\ phase' = "requested"
    /\ result' = None
    /\ UNCHANGED zstd_feature

Decode ==
    /\ phase = "requested"
    /\ \E x \in Allowed(req, zstd_feature) : result' = x
    /\ phase' = "decoded"
    /\ UNCHANGED <<zstd_feature, req>>

Next == Request \/ Decode

Spec == Init /\ [][Next]_vars
=============================================================================
