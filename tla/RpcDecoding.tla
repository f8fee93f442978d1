---------------------------- MODULE RpcDecoding ----------------------------
(***************************************************************************)
(* Decoding of the binary payloads an RPC node returns: account data      *)
(* (UiAccountData::decode, UiAccount::decode in                           *)
(* forks/solana-account-decoder-client-types-wasm/src/lib.rs) and         *)
(* transactions (EncodedTransaction::decode, into_binary_encoding in      *)
(* forks/solana-transaction-status-client-types-wasm/src/lib.rs).         *)
(*                                                                         *)
(* Strings on the wire are the abstract texts of WireText, and each      *)
(* decoder is the SET of results the code can produce.                    *)
(*                                                                         *)
(* One client asks a node for an account or a transaction in an encoding; *)
(* the node encodes it the way an RPC node does (environment), the client *)
(* decodes the answer with the code of this repository.                   *)
(***************************************************************************)
EXTENDS Naturals, WireText

CONSTANTS
    Sanitary,    \* the transactions among Data that pass sanitize()
    Info         \* lamports, owner, executable, rent_epoch of an account

ASSUME ConstantsAssumption ==
    Sanitary \subseteq Data /\ None \notin {"Base58", "Base64"}

(* zstd stream decoder: anything but a zstd frame is an error. *)
Decompress(b) == IF b \in {Zstd(d) : d \in Data} THEN {b.zstd} ELSE {None}

(* bincode::deserialize::<VersionedTransaction>(..).ok(): garbage may or   *)
(* may not parse.                                                          *)
Deserialize(b) == IF b \in Data THEN {b} ELSE {None, Garbled}

(* transaction.sanitize().is_ok(); unknown for a garbage transaction.     *)
SanitizeFilter(t) ==
    IF t \in Data THEN (IF t \in Sanitary THEN {t} ELSE {None}) ELSE {None, t}

-----------------------------------------------------------------------------
(* Accounts *)

(* UiAccountEncoding (account decoder lib.rs 75-84). *)
UiAccountEncodings == {"Binary", "Base58", "Base64", "JsonParsed", "Base64Zstd"}

(* UiAccountData (lib.rs 38-44): LegacyBinary(String), Json(ParsedAccount), *)
(* Binary(String, UiAccountEncoding).                                     *)
UiAccountData ==
    [kind: {"LegacyBinary"}, blob: [alphabet: Alphabets, bytes: Bytes]]
    \cup [kind: {"Json"}]
    \cup [kind: {"Binary"}, blob: [alphabet: Alphabets, bytes: Bytes],
          encoding: UiAccountEncodings]

(* UiAccount (lib.rs 21-36), with the fields decode copies kept as Info.  *)
UiAccount == [info: Info, data: UiAccountData]

(* Mutant: the Base64 arm decodes the blob as base58.                     *)
UiAccountData_decodeBase64AsBase58(d, zstd) ==
    CASE d.kind = "Json"         -> {None}
      [] d.kind = "LegacyBinary" -> DecodeText("base58", d.blob)
      [] d.kind = "Binary" /\ d.encoding = "Base58"   -> DecodeText("base58", d.blob)
      [] d.kind = "Binary" /\ d.encoding = "Base64"   -> DecodeText("base58", d.blob)
      [] d.kind = "Binary" /\ d.encoding = "Base64Zstd" /\ zstd ->
            AndThen(DecodeText("base64", d.blob), Decompress)
      [] OTHER -> {None}

(* UiAccountData::decode (lib.rs 46-73); zstd is the build's "zstd"      *)
(* feature.  Binary, JsonParsed, and Base64Zstd without the feature give  *)
(* None.                                                                  *)
UiAccountData_decode(d, zstd) ==
    CASE d.kind = "Json"         -> {None}
      [] d.kind = "LegacyBinary" -> DecodeText("base58", d.blob)
      [] d.kind = "Binary" /\ d.encoding = "Base58"   -> DecodeText("base58", d.blob)
      [] d.kind = "Binary" /\ d.encoding = "Base64"   -> DecodeText("base64", d.blob)
      [] d.kind = "Binary" /\ d.encoding = "Base64Zstd" /\ zstd ->
            AndThen(DecodeText("base64", d.blob), Decompress)
      [] OTHER -> {None}

(* Mutant: the `?` is dropped and an account is built whatever decode     *)
(* returned.                                                              *)
UiAccount_decodeNoEarlyReturn(a, zstd) ==
    {[info |-> a.info, data |-> x] : x \in UiAccountData_decode(a.data, zstd)}

(* UiAccount::decode (lib.rs 86-97): the `?` returns None when the data   *)
(* does not decode.                                                       *)
UiAccount_decode(a, zstd) ==
    {IF x = None THEN None ELSE [info |-> a.info, data |-> x] :
        x \in UiAccountData_decode(a.data, zstd)}

-----------------------------------------------------------------------------
(* Transactions *)

(* TransactionBinaryEncoding (status lib.rs 33-38) and                    *)
(* UiTransactionEncoding (40-48).                                         *)
TransactionBinaryEncodings == {"Base58", "Base64"}
UiTransactionEncodings == {"Binary", "Base64", "Base58", "Json", "JsonParsed"}

(* TransactionDetails (lib.rs 68-81); Full is the default.  Only Full and *)
(* Accounts carry a transaction.                                          *)
TransactionDetails == {"Full", "Accounts"}
DefaultTransactionDetails == "Full"

(* UiTransactionEncoding::into_binary_encoding (lib.rs 50-58). *)
into_binary_encoding(e) ==
    CASE e \in {"Binary", "Base58"} -> "Base58"
      [] e = "Base64"               -> "Base64"
      [] OTHER                      -> None

(* EncodedTransaction (lib.rs 179-187). *)
EncodedTransaction ==
    [kind: {"LegacyBinary"}, blob: [alphabet: Alphabets, bytes: Bytes]]
    \cup [kind: {"Json", "Accounts"}]
    \cup [kind: {"Binary"}, blob: [alphabet: Alphabets, bytes: Bytes],
          encoding: TransactionBinaryEncodings]

(* Alphabet of a TransactionBinaryEncoding. *)
AlphabetOf(enc) == IF enc = "Base58" THEN "base58" ELSE "base64"

(* Mutant: the sanitize() filter is left out.                            *)
EncodedTransaction_decodeUnfiltered(e) ==
    IF e.kind \in {"Json", "Accounts"} THEN {None}
    ELSE LET enc == IF e.kind = "LegacyBinary" THEN "Base58" ELSE e.encoding
         IN  AndThen(DecodeText(AlphabetOf(enc), e.blob), Deserialize)

(* Mutant: a LegacyBinary blob is read as base64.                         *)
EncodedTransaction_decodeLegacyAsBase64(e) ==
    IF e.kind \in {"Json", "Accounts"} THEN {None}
    ELSE LET enc == IF e.kind = "LegacyBinary" THEN "Base64" ELSE e.encoding
         IN  AndThen(AndThen(DecodeText(AlphabetOf(enc), e.blob), Deserialize),
                     SanitizeFilter)

(* EncodedTransaction::decode (lib.rs 189-214): Json and Accounts give    *)
(* None, LegacyBinary is base58; the transaction is kept only if it       *)
(* sanitizes.                                                             *)
EncodedTransaction_decode(e) ==
    IF e.kind \in {"Json", "Accounts"} THEN {None}
    ELSE LET enc == IF e.kind = "LegacyBinary" THEN "Base58" ELSE e.encoding
         IN  AndThen(AndThen(DecodeText(AlphabetOf(enc), e.blob), Deserialize),
                     SanitizeFilter)

-----------------------------------------------------------------------------
(* The exchange *)

Binary(t, enc) == [kind |-> "Binary", blob |-> t, encoding |-> enc]

(* How a node encodes account data d for a requested encoding            *)
(* (environment): base64+zstd falls back to plain base64 when compression *)
(* does not pay, jsonParsed falls back to base64 when no parser applies.  *)
EncodeAccount(d, enc) ==
    CASE enc = "Binary"     -> {[kind |-> "LegacyBinary", blob |-> Text("base58", d)]}
      [] enc = "Base58"     -> {Binary(Text("base58", d), "Base58")}
      [] enc = "Base64"     -> {Binary(Text("base64", d), "Base64")}
      [] enc = "Base64Zstd" -> {Binary(Text("base64", Zstd(d)), "Base64Zstd"),
                                Binary(Text("base64", d), "Base64")}
      [] enc = "JsonParsed" -> {[kind |-> "Json"], Binary(Text("base64", d), "Base64")}

(* How a node encodes transaction t (environment): Binary is the legacy   *)
(* base58 string, other encodings go through into_binary_encoding, and    *)
(* the json encodings and the Accounts details carry no bytes.            *)
EncodeTransaction(t, enc, details) ==
    IF details = "Accounts" THEN {[kind |-> "Accounts"]}
    ELSE IF enc = "Binary" THEN {[kind |-> "LegacyBinary", blob |-> Text("base58", t)]}
    ELSE IF into_binary_encoding(enc) # None
         THEN {Binary(Text(AlphabetOf(into_binary_encoding(enc)), t),
                      into_binary_encoding(enc))}
    ELSE {[kind |-> "Json"]}

Requests ==
    [kind: {"account"}, data: Data, info: Info, encoding: UiAccountEncodings]
    \cup [kind: {"transaction"}, data: Data, encoding: UiTransactionEncodings,
           details: TransactionDetails]

VARIABLES
    zstd_feature,  \* whether the client was built with the "zstd" feature
    phase,         \* "idle", "requested", "answered", "decoded"
    req,           \* the client's request
    answer,        \* the node's UiAccount or EncodedTransaction
    result         \* what decode returned

vars == <<zstd_feature, phase, req, answer, result>>

Init ==
    /\ zstd_feature \in BOOLEAN
    /\ phase = "idle"
    /\ req = None
    /\ answer = None
    /\ result = None

(* The client asks for an account or a transaction in some encoding.     *)
Request ==
    /\ phase \in {"idle", "decoded"}
    /\ \E r \in Requests : req' = r
    /\ phase' = "requested"
    /\ answer' = None
    /\ result' = None
    /\ UNCHANGED zstd_feature

(* The node answers (environment). *)
Respond ==
    /\ phase = "requested"
    /\ \/ /\ req.kind = "account"
          /\ \E d \in EncodeAccount(req.data, req.encoding) :
                answer' = [info |-> req.info, data |-> d]
       \/ /\ req.kind = "transaction"
          /\ \E e \in EncodeTransaction(req.data, req.encoding, req.details) :
                answer' = e
    /\ phase' = "answered"
    /\ UNCHANGED <<zstd_feature, req, result>>

(* The client decodes the answer with UiAccount::decode or              *)
(* EncodedTransaction::decode.                                           *)
DecodeAnswer ==
    /\ phase = "answered"
    /\ \/ /\ req.kind = "account"
          /\ \E x \in UiAccount_decode(answer, zstd_feature) : result' = x
       \/ /\ req.kind = "transaction"
          /\ \E x \in EncodedTransaction_decode(answer) : result' = x
    /\ phase' = "decoded"
    /\ UNCHANGED <<zstd_feature, req, answer>>

Next == Request \/ Respond \/ DecodeAnswer

Spec == Init /\ [][Next]_vars

-----------------------------------------------------------------------------
(* What the node encoded: the account with its data, or the transaction. *)
Original ==
    IF req.kind = "account" THEN [info |-> req.info, data |-> req.data]
    ELSE req.data

(* The decoded payload, or None, has the type decode returns. *)
TypeOK ==
    /\ zstd_feature \in BOOLEAN
    /\ phase \in {"idle", "requested", "answered", "decoded"}
    /\ phase # "idle" => req \in Requests
    /\ phase = "decoded" /\ req.kind = "account" =>
          result \in {None} \cup [info: Info, data: Bytes]
    /\ phase = "decoded" /\ req.kind = "transaction" =>
          result \in {None, Garbled} \cup Data

(* decode never misreads: whatever the node sent and whichever feature    *)
(* set the client was built with, the result is the payload the node      *)
(* encoded or None, never bytes read in the wrong alphabet or still       *)
(* compressed.                                                            *)
DecodeNeverMisreads ==
    phase = "decoded" => result \in {None, Original}

(* A request in a binary encoding the client's build can decode (a       *)
(* transaction with its full details).                                    *)
Lossless(r, z) ==
    \/ /\ r.kind = "account"
       /\ r.encoding \in {"Binary", "Base58", "Base64"}
                        \cup (IF z THEN {"Base64Zstd"} ELSE {})
    \/ /\ r.kind = "transaction"
       /\ r.encoding \in {"Binary", "Base58", "Base64"}
       /\ r.details = "Full"
       /\ r.data \in Sanitary

(* What decode may hand to the caller: any account, a sanitary transaction. *)
Deliverable(r) == r.kind = "account" \/ r.data \in Sanitary

(* The payload the node holds for request r. *)
Payload(r) ==
    IF r.kind = "account" THEN [info |-> r.info, data |-> r.data] ELSE r.data

(* Round trip: a request in a binary encoding the client's build can      *)
(* decode gives back exactly what the node holds (a transaction only when *)
(* it sanitizes).                                                         *)
BinaryRequestsRoundTrip ==
    phase = "decoded" /\ Lossless(req, zstd_feature) => result = Original

(* The node's answer is hidden; a request being answered is, to the       *)
(* client, still a request.                                               *)
Contract == INSTANCE DecodeContract
    WITH phase <- IF phase = "answered" THEN "requested" ELSE phase,
         Original <- Payload

(* The client's decoding implements DecodeContract: every answer, in any  *)
(* encoding and under either feature set, ends in the node's payload or   *)
(* None, in the payload for a lossless request, and never in a            *)
(* transaction that fails sanitize() (the test at status lib.rs 644-656). *)
ContractSpec == Contract!Spec
=============================================================================
