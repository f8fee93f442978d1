------------------------- MODULE RpcDecodingProofs -------------------------
(***************************************************************************)
(* Proofs, for all sets of payloads, sanitary transactions and account    *)
(* infos, that the client's decoding of RPC answers implements            *)
(* DecodeContract, and so never misreads and round-trips every lossless   *)
(* request.                                                               *)
(*                                                                         *)
(* The argument: whatever the node answers for a request, decode returns  *)
(* a result the contract allows (lemmas AccountDecodeAllowed and          *)
(* TransactionDecodeAllowed, one case per encoding).  The inductive       *)
(* invariant IInv records that an answer on the wire is one of the        *)
(* node's encodings of the request, and that a decoded result is allowed. *)
(***************************************************************************)
EXTENDS RpcDecoding, TLAPS

USE ConstantsAssumption, WireTextAssumption

(* The answers a node may give to request r. *)
Answers(r) ==
    IF r.kind = "account"
    THEN {[info |-> r.info, data |-> d] : d \in EncodeAccount(r.data, r.encoding)}
    ELSE EncodeTransaction(r.data, r.encoding, r.details)

Allowed(r, z) == Contract!Allowed(r, z)

IInv ==
    /\ zstd_feature \in BOOLEAN
    /\ phase \in {"idle", "requested", "answered", "decoded"}
    /\ phase = "idle" => req = None /\ result = None
    /\ phase # "idle" => req \in Requests
    /\ phase \in {"requested", "answered"} => result = None
    /\ phase = "answered" => answer \in Answers(req)
    /\ phase = "decoded" => result \in Allowed(req, zstd_feature)

(* The arms of UiAccountData::decode's match. *)
LEMMA AccountDataArms ==
    ASSUME NEW d, NEW z \in BOOLEAN
    PROVE  /\ d.kind = "Json" => UiAccountData_decode(d, z) = {None}
           /\ d.kind = "LegacyBinary" =>
                 UiAccountData_decode(d, z) = DecodeText("base58", d.blob)
           /\ d.kind = "Binary" /\ d.encoding = "Base58" =>
                 UiAccountData_decode(d, z) = DecodeText("base58", d.blob)
           /\ d.kind = "Binary" /\ d.encoding = "Base64" =>
                 UiAccountData_decode(d, z) = DecodeText("base64", d.blob)
           /\ d.kind = "Binary" /\ d.encoding = "Base64Zstd" /\ z =>
                 UiAccountData_decode(d, z) = AndThen(DecodeText("base64", d.blob), Decompress)
           /\ d.kind = "Binary" /\ d.encoding = "Base64Zstd" /\ ~z =>
                 UiAccountData_decode(d, z) = {None}
<1>1. d.kind = "Json" => UiAccountData_decode(d, z) = {None}
  BY Zenon DEF UiAccountData_decode
<1>2. d.kind = "LegacyBinary" => UiAccountData_decode(d, z) = DecodeText("base58", d.blob)
  BY Zenon DEF UiAccountData_decode
<1>3. d.kind = "Binary" /\ d.encoding = "Base58" =>
         UiAccountData_decode(d, z) = DecodeText("base58", d.blob)
  BY Zenon DEF UiAccountData_decode
<1>4. d.kind = "Binary" /\ d.encoding = "Base64" =>
         UiAccountData_decode(d, z) = DecodeText("base64", d.blob)
  BY Zenon DEF UiAccountData_decode
<1>5. d.kind = "Binary" /\ d.encoding = "Base64Zstd" /\ z =>
         UiAccountData_decode(d, z) = AndThen(DecodeText("base64", d.blob), Decompress)
  BY Zenon DEF UiAccountData_decode
<1>6. d.kind = "Binary" /\ d.encoding = "Base64Zstd" /\ ~z =>
         UiAccountData_decode(d, z) = {None}
  BY Zenon DEF UiAccountData_decode
<1>7. QED
  BY <1>1, <1>2, <1>3, <1>4, <1>5, <1>6

(* An account answer in any encoding decodes to the account or to None,   *)
(* and to the account when the encoding is lossless for the build.        *)
LEMMA AccountDecodeAllowed ==
    ASSUME NEW r \in Requests, r.kind = "account", NEW z \in BOOLEAN,
           NEW a \in Answers(r)
    PROVE  UiAccount_decode(a, z) \subseteq Allowed(r, z)
<1> DEFINE x == r.data
           acct == [info |-> r.info, data |-> x]
<1>1. x \in Data /\ x # None /\ r.encoding \in UiAccountEncodings
  BY DEF Requests, Bytes
<1>2. PICK d \in EncodeAccount(x, r.encoding) : a = [info |-> r.info, data |-> d]
  BY DEF Answers
<1>3. Allowed(r, z) = IF Lossless(r, z) THEN {acct} ELSE {None, acct}
  BY DEF Allowed, Contract!Allowed, Deliverable, Payload
<1>4. /\ UiAccountData_decode(d, z) \in {{x}, {None}}
      /\ Lossless(r, z) => UiAccountData_decode(d, z) = {x}
  <2>1. CASE r.encoding = "Binary"
    <3>1. d = [kind |-> "LegacyBinary", blob |-> Text("base58", x)]
      BY <1>2, <2>1 DEF EncodeAccount
    <3>2. QED
      BY <3>1, AccountDataArms DEF DecodeText, Text
  <2>2. CASE r.encoding = "Base58"
    <3>1. d = Binary(Text("base58", x), "Base58")
      BY <1>2, <2>2 DEF EncodeAccount
    <3>2. QED
      BY <3>1, AccountDataArms DEF DecodeText, Text, Binary
  <2>3. CASE r.encoding = "Base64"
    <3>1. d = Binary(Text("base64", x), "Base64")
      BY <1>2, <2>3 DEF EncodeAccount
    <3>2. QED
      BY <3>1, AccountDataArms DEF DecodeText, Text, Binary
  <2>4. CASE r.encoding = "JsonParsed"
    <3>1. d \in {[kind |-> "Json"], Binary(Text("base64", x), "Base64")}
      BY <1>2, <2>4 DEF EncodeAccount
    <3>2. ~Lossless(r, z)
      BY <2>4 DEF Lossless
    <3>3. CASE d = [kind |-> "Json"]
      BY <3>2, <3>3, AccountDataArms
    <3>4. CASE d = Binary(Text("base64", x), "Base64")
      BY <3>2, <3>4, AccountDataArms DEF DecodeText, Text, Binary
    <3>5. QED
      BY <3>1, <3>3, <3>4
  <2>5. CASE r.encoding = "Base64Zstd"
    <3>1. d \in {Binary(Text("base64", Zstd(x)), "Base64Zstd"),
                 Binary(Text("base64", x), "Base64")}
      BY <1>2, <2>5 DEF EncodeAccount
    <3>2. CASE d = Binary(Text("base64", Zstd(x)), "Base64Zstd") /\ z
      <4>1. d.kind = "Binary" /\ d.encoding = "Base64Zstd"
        BY <3>2 DEF Binary
      <4>2. UiAccountData_decode(d, z) = AndThen(DecodeText("base64", d.blob), Decompress)
        BY <3>2, <4>1, AccountDataArms
      <4>3. DecodeText("base64", d.blob) = {Zstd(x)}
        BY <3>2 DEF DecodeText, Text, Binary
      <4>4. Zstd(x) # None /\ Decompress(Zstd(x)) = {x}
        BY <1>1 DEF Decompress, Zstd, Bytes
      <4>5. AndThen({Zstd(x)}, Decompress) = {x}
        BY <4>4 DEF AndThen
      <4>6. QED
        BY <4>2, <4>3, <4>5
    <3>3. CASE d = Binary(Text("base64", Zstd(x)), "Base64Zstd") /\ ~z
      <4>1. ~Lossless(r, z)
        BY <2>5, <3>3 DEF Lossless
      <4>2. QED
        BY <3>3, <4>1, AccountDataArms DEF Text, Binary
    <3>4. CASE d = Binary(Text("base64", x), "Base64")
      BY <3>4, AccountDataArms DEF DecodeText, Text, Binary
    <3>5. QED
      BY <3>1, <3>2, <3>3, <3>4
  <2>6. QED
    BY <1>1, <2>1, <2>2, <2>3, <2>4, <2>5 DEF UiAccountEncodings
<1>6. UiAccount_decode(a, z) \in {{acct}, {None}}
  BY <1>1, <1>2, <1>4 DEF UiAccount_decode
<1>7. Lossless(r, z) => UiAccount_decode(a, z) = {acct}
  BY <1>1, <1>2, <1>4 DEF UiAccount_decode
<1>8. QED
  BY <1>3, <1>6, <1>7

(* A transaction's bytes decoded in the right alphabet: deserialize keeps *)
(* them and the sanitize filter lets through exactly the sanitary ones.   *)
LEMMA FilteredTransaction ==
    ASSUME NEW t \in Data
    PROVE  AndThen(AndThen({t}, Deserialize), SanitizeFilter)
              = IF t \in Sanitary THEN {t} ELSE {None}
<1>1. t # None
  BY DEF Bytes
<1>2. AndThen({t}, Deserialize) = {t}
  BY <1>1 DEF AndThen, Deserialize
<1>3. AndThen({t}, SanitizeFilter) = IF t \in Sanitary THEN {t} ELSE {None}
  BY <1>1 DEF AndThen, SanitizeFilter
<1>4. QED
  BY <1>2, <1>3

(* A transaction answer decodes to the transaction or to None; to the     *)
(* transaction when it is lossless, and never to an unsanitary one.       *)
LEMMA TransactionDecodeAllowed ==
    ASSUME NEW r \in Requests, r.kind = "transaction", NEW z \in BOOLEAN,
           NEW e \in Answers(r)
    PROVE  EncodedTransaction_decode(e) \subseteq Allowed(r, z)
<1> DEFINE t == r.data
           filtered == IF t \in Sanitary THEN {t} ELSE {None}
<1>1. /\ t \in Data
      /\ r.encoding \in UiTransactionEncodings
      /\ r.details \in TransactionDetails
  BY DEF Requests
<1>2. e \in EncodeTransaction(t, r.encoding, r.details)
  BY DEF Answers
<1>3. Allowed(r, z) = IF t \notin Sanitary THEN {None}
                      ELSE IF Lossless(r, z) THEN {t} ELSE {None, t}
  BY DEF Allowed, Contract!Allowed, Deliverable, Payload
<1>4. CASE r.details = "Accounts"
  <2>1. e = [kind |-> "Accounts"]
    BY <1>2, <1>4 DEF EncodeTransaction
  <2>2. EncodedTransaction_decode(e) = {None}
    BY <2>1 DEF EncodedTransaction_decode
  <2>3. ~Lossless(r, z)
    BY <1>4 DEF Lossless
  <2>4. QED
    BY <1>3, <2>2, <2>3
<1>5. CASE r.details = "Full" /\ r.encoding = "Binary"
  <2>1. e = [kind |-> "LegacyBinary", blob |-> Text("base58", t)]
    BY <1>2, <1>5 DEF EncodeTransaction
  <2>2. EncodedTransaction_decode(e) = AndThen(AndThen({t}, Deserialize), SanitizeFilter)
    BY <2>1 DEF EncodedTransaction_decode, AlphabetOf, DecodeText, Text
  <2>3. Lossless(r, z) <=> t \in Sanitary
    BY <1>5 DEF Lossless
  <2>4. QED
    BY <1>1, <1>3, <2>2, <2>3, FilteredTransaction
<1>6. CASE r.details = "Full" /\ r.encoding \in {"Base58", "Base64"}
  <2>1. e = Binary(Text(AlphabetOf(r.encoding), t), r.encoding)
    BY <1>2, <1>6, ConstantsAssumption DEF EncodeTransaction, into_binary_encoding
  <2>2. EncodedTransaction_decode(e) = AndThen(AndThen({t}, Deserialize), SanitizeFilter)
    BY <2>1, <1>6 DEF EncodedTransaction_decode, DecodeText, Text, Binary
  <2>3. Lossless(r, z) <=> t \in Sanitary
    BY <1>6 DEF Lossless
  <2>4. QED
    BY <1>1, <1>3, <2>2, <2>3, FilteredTransaction
<1>7. CASE r.details = "Full" /\ r.encoding \in {"Json", "JsonParsed"}
  <2>1. e = [kind |-> "Json"]
    BY <1>2, <1>7 DEF EncodeTransaction, into_binary_encoding
  <2>2. EncodedTransaction_decode(e) = {None}
    BY <2>1 DEF EncodedTransaction_decode
  <2>3. ~Lossless(r, z)
    BY <1>7 DEF Lossless
  <2>4. QED
    BY <1>3, <2>2, <2>3
<1>8. QED
  BY <1>1, <1>4, <1>5, <1>6, <1>7 DEF UiTransactionEncodings, TransactionDetails


(* Whatever was answered, decoding it gives an allowed result. *)
LEMMA DecodeAllowed ==
    ASSUME NEW r \in Requests, NEW z \in BOOLEAN, NEW a \in Answers(r)
    PROVE  /\ r.kind = "account" => UiAccount_decode(a, z) \subseteq Allowed(r, z)
           /\ r.kind = "transaction" =>
                 EncodedTransaction_decode(a) \subseteq Allowed(r, z)
BY AccountDecodeAllowed, TransactionDecodeAllowed

LEMMA IInvInit == Init => IInv
BY DEF Init, IInv

LEMMA IInvNext == IInv /\ [Next]_vars => IInv'
<1> SUFFICES ASSUME IInv, [Next]_vars PROVE IInv'
  OBVIOUS
<1>1. CASE Request
  BY <1>1 DEF Request, IInv
<1>2. CASE Respond
  <2>1. req \in Requests /\ req.kind \in {"account", "transaction"}
    BY <1>2 DEF IInv, Respond, Requests
  <2>2. answer' \in Answers(req)
    BY <1>2, <2>1 DEF Respond, Answers
  <2>3. QED
    BY <1>2, <2>2 DEF Respond, IInv
<1>3. CASE DecodeAnswer
  <2>1. req \in Requests /\ answer \in Answers(req) /\ zstd_feature \in BOOLEAN
    BY <1>3 DEF IInv, DecodeAnswer
  <2>2. result' \in Allowed(req, zstd_feature)
    BY <1>3, <2>1, DecodeAllowed DEF DecodeAnswer
  <2>3. QED
    BY <1>3, <2>1, <2>2 DEF DecodeAnswer, IInv
<1>4. CASE UNCHANGED vars
  BY <1>4 DEF vars, IInv
<1>5. QED
  BY <1>1, <1>2, <1>3, <1>4 DEF Next

(* Every reachable state is well typed, for every set of payloads: once  *)
(* decoded, an account request ends in None or an account whose data is  *)
(* a byte string, a transaction request in None or a payload.            *)
THEOREM TypeCorrect == Spec => []TypeOK
<1>1. IInv => TypeOK
  <2> SUFFICES ASSUME IInv PROVE TypeOK
    OBVIOUS
  <2>1. phase = "decoded" => result \in {None, Payload(req)}
    BY DEF IInv, Allowed, Contract!Allowed
  <2>2. phase # "idle" => req.data \in Data /\ req.kind \in {"account", "transaction"}
    BY DEF IInv, Requests
  <2>3. phase # "idle" /\ req.kind = "account" => req.info \in Info
    BY DEF IInv, Requests
  <2>4. QED
    BY <2>1, <2>2, <2>3 DEF IInv, TypeOK, Payload, Bytes
<1>2. QED
  BY <1>1, IInvInit, IInvNext, PTL DEF Spec

(* decode never misreads, for every set of payloads: the result is the   *)
(* payload the node holds or None, whatever the encoding and the build.  *)
THEOREM NeverMisreads == Spec => []DecodeNeverMisreads
<1>1. IInv => DecodeNeverMisreads
  BY DEF IInv, DecodeNeverMisreads, Allowed, Contract!Allowed, Original, Payload
<1>2. QED
  BY <1>1, IInvInit, IInvNext, PTL DEF Spec

(* Every request in an encoding the build can decode round-trips, for     *)
(* every set of payloads and sanitary transactions.                       *)
THEOREM RoundTrip == Spec => []BinaryRequestsRoundTrip
<1>1. IInv => BinaryRequestsRoundTrip
  <2> SUFFICES ASSUME IInv, phase = "decoded", Lossless(req, zstd_feature)
               PROVE  result = Original
    BY DEF BinaryRequestsRoundTrip
  <2>1. Deliverable(req)
    BY DEF Lossless, Deliverable
  <2>2. QED
    BY <2>1 DEF IInv, Allowed, Contract!Allowed, Original, Payload
<1>2. QED
  BY <1>1, IInvInit, IInvNext, PTL DEF Spec

(* The client's decoding implements DecodeContract under the mapping that *)
(* hides the node's answer: Respond is a stutter, DecodeAnswer a Decode.  *)
THEOREM Refinement == Spec => ContractSpec
<1>1. Init => Contract!Init
  BY DEF Init, Contract!Init
<1>2. IInv /\ [Next]_vars => [Contract!Next]_Contract!vars
  <2> SUFFICES ASSUME IInv, [Next]_vars PROVE [Contract!Next]_Contract!vars
    OBVIOUS
  <2>1. CASE Request
    BY <2>1 DEF Request, Contract!Next, Contract!Request
  <2>2. CASE Respond
    BY <2>2 DEF Respond, Contract!vars
  <2>3. CASE DecodeAnswer
    <3>1. result' \in Allowed(req, zstd_feature)
      BY <2>3, IInvNext DEF IInv, DecodeAnswer
    <3>2. QED
      BY <2>3, <3>1 DEF DecodeAnswer, Contract!Next, Contract!Decode, Allowed
  <2>4. CASE UNCHANGED vars
    BY <2>4 DEF vars, Contract!vars
  <2>5. QED
    BY <2>1, <2>2, <2>3, <2>4 DEF Next
<1>3. QED
  BY <1>1, <1>2, IInvInit, IInvNext, PTL DEF Spec, ContractSpec, Contract!Spec

=============================================================================
