------------------------------ MODULE WireText ------------------------------
(***************************************************************************)
(* Byte strings as they travel in RPC JSON: a base58 or base64 string is   *)
(* abstracted to the alphabet it is written in and the bytes it stands    *)
(* for.  Decoding it with its own alphabet gives the bytes back; with the *)
(* other alphabet it fails or yields bytes that are not the original      *)
(* (Garbled): base58 digits are base64 digits, and a base64 string may    *)
(* avoid the characters base58 lacks.  A decoder is therefore the SET of  *)
(* results the code can produce.                                          *)
(***************************************************************************)
CONSTANTS
    Data,        \* the byte strings a node holds
    None,        \* Option::None
    Garbled      \* bytes that are not the ones that were encoded

Alphabets == {"base58", "base64"}

(* zstd-compressed bytes. *)
Zstd(d) == [zstd |-> d]

Bytes == Data \cup {Zstd(d) : d \in Data} \cup {Garbled}

(* None is no byte string, and garbage is none of the encoded payloads. *)
ASSUME WireTextAssumption == None \notin Bytes /\ Garbled \notin Data

(* bs58::encode(..).into_string() and BASE64_STANDARD.encode(..). *)
Text(a, b) == [alphabet |-> a, bytes |-> b]

(* bs58::decode(..).into_vec().ok() and BASE64_STANDARD.decode(..).ok(). *)
DecodeText(a, t) == IF t.alphabet = a THEN {t.bytes} ELSE {None, Garbled}

(* Option::and_then over a set of possible results. *)
AndThen(S, F(_)) == UNION {IF x = None THEN {None} ELSE F(x) : x \in S}
=============================================================================
