------------------------- MODULE ParseAccountsProofs -------------------------
(***************************************************************************)
(* Proofs about ParseAccounts for every set of keys, reserved keys and     *)
(* message size.                                                           *)
(***************************************************************************)
EXTENDS ParseAccounts, SequenceTheorems, TLAPS

USE ConstantsAssumption

(* The account lists of a message are sequences of keys. *)
LEMMA KeySeqsType ==
    ASSUME NEW n \in Nat
    PROVE  KeySeqs(n) \subseteq Seq(Keys)
<1> SUFFICES ASSUME NEW k \in 0..n, NEW s \in [1..k -> Keys] PROVE s \in Seq(Keys)
  BY DEF KeySeqs
<1>1. [1..k -> Keys] \in {[1..i -> Keys] : i \in Nat}
  OBVIOUS
<1>2. QED
  BY <1>1, SeqDef

(* A loaded message is a record of sequences of keys. *)
MessageType ==
    [header: [nrs: Nat, nros: Nat, nrou: Nat], static: Seq(Keys),
     writable: Seq(Keys), readonly: Seq(Keys), programs: SUBSET Nat]

LEMMA LoadedMessageType ==
    ASSUME NEW m \in LoadedMessages
    PROVE  m \in MessageType
<1>1. m.static \in Seq(Keys) /\ m.writable \in Seq(Keys) /\ m.readonly \in Seq(Keys)
  BY KeySeqsType DEF LoadedMessages
<1>2. QED
  BY <1>1 DEF LoadedMessages, MessageType

(* The positions of a three-part concatenation. *)
LEMMA Concat3 ==
    ASSUME NEW a \in Seq(Keys), NEW b \in Seq(Keys), NEW c \in Seq(Keys)
    PROVE  /\ a \o b \o c \in Seq(Keys)
           /\ Len(a \o b \o c) = Len(a) + Len(b) + Len(c)
           /\ \A i \in 1..Len(a \o b \o c) :
                 (a \o b \o c)[i] =
                    IF i <= Len(a) THEN a[i]
                    ELSE IF i <= Len(a) + Len(b) THEN b[i - Len(a)]
                    ELSE c[i - (Len(a) + Len(b))]
<1> DEFINE ab == a \o b
<1>1. /\ ab \in Seq(Keys) /\ Len(ab) = Len(a) + Len(b)
      /\ \A i \in 1..(Len(a) + Len(b)) : ab[i] = IF i <= Len(a) THEN a[i] ELSE b[i - Len(a)]
  BY ConcatProperties
<1>2. /\ ab \o c \in Seq(Keys) /\ Len(ab \o c) = Len(ab) + Len(c)
      /\ \A i \in 1..(Len(ab) + Len(c)) : (ab \o c)[i] = IF i <= Len(ab) THEN ab[i] ELSE c[i - Len(ab)]
  BY <1>1, ConcatProperties
<1>3. Len(a) \in Nat /\ Len(b) \in Nat /\ Len(c) \in Nat
  BY LenProperties
<1>4. QED
  BY <1>1, <1>2, <1>3

(* Where the parts of an injective three-part concatenation are: the     *)
(* first part's elements are at its positions and in neither other part, *)
(* every later position holds an element of the other two.               *)
LEMMA Layout3 ==
    ASSUME NEW a \in Seq(Keys), NEW b \in Seq(Keys), NEW c \in Seq(Keys),
           IsInjective(a \o b \o c)
    PROVE  /\ \A j \in 1..Len(a) :
                 (a \o b \o c)[j] = a[j] /\ (a \o b \o c)[j] \notin Range(b) \cup Range(c)
           /\ \A j \in (Len(a) + 1)..Len(a \o b \o c) :
                 (a \o b \o c)[j] \in Range(b) \cup Range(c)
<1> DEFINE A == a \o b \o c
           La == Len(a)
           Lb == Len(b)
           Lc == Len(c)
<1>1. La \in Nat /\ Lb \in Nat /\ Lc \in Nat
      /\ DOMAIN b = 1..Lb /\ DOMAIN c = 1..Lc
  BY LenProperties
<1>2. Len(A) = La + Lb + Lc /\ DOMAIN A = 1..Len(A)
  BY Concat3, LenProperties
<1>3. \A i \in 1..Len(A) :
         A[i] = IF i <= La THEN a[i]
                ELSE IF i <= La + Lb THEN b[i - La] ELSE c[i - (La + Lb)]
  BY Concat3
<1>4. \A k \in 1..Lb : La + k \in DOMAIN A /\ A[La + k] = b[k]
  BY <1>1, <1>2, <1>3
<1>5. \A k \in 1..Lc : La + Lb + k \in DOMAIN A /\ A[La + Lb + k] = c[k]
  BY <1>1, <1>2, <1>3
<1>6. ASSUME NEW j \in 1..La
      PROVE  A[j] = a[j] /\ A[j] \notin Range(b) \cup Range(c)
  <2>1. j \in DOMAIN A /\ A[j] = a[j]
    BY <1>1, <1>2, <1>3
  <2>2. ASSUME NEW k \in 1..Lb, A[j] = b[k] PROVE FALSE
    <3>1. La + k \in DOMAIN A /\ A[La + k] = A[j] /\ La + k # j
      BY <2>2, <1>1, <1>4
    <3>2. QED
      BY <2>1, <3>1 DEF IsInjective
  <2>3. ASSUME NEW k \in 1..Lc, A[j] = c[k] PROVE FALSE
    <3>1. La + Lb + k \in DOMAIN A /\ A[La + Lb + k] = A[j] /\ La + Lb + k # j
      BY <2>3, <1>1, <1>5
    <3>2. QED
      BY <2>1, <3>1 DEF IsInjective
  <2>4. QED
    BY <1>1, <2>1, <2>2, <2>3 DEF Range
<1>7. ASSUME NEW j \in (La + 1)..Len(A) PROVE A[j] \in Range(b) \cup Range(c)
  <2>1. CASE j <= La + Lb
    <3>1. j - La \in 1..Lb /\ j = La + (j - La)
      BY <2>1, <1>1
    <3>2. QED
      BY <3>1, <1>1, <1>4 DEF Range
  <2>2. CASE ~(j <= La + Lb)
    <3>1. j - (La + Lb) \in 1..Lc /\ j = La + Lb + (j - (La + Lb))
      BY <2>2, <1>1, <1>2
    <3>2. QED
      BY <3>1, <1>1, <1>5 DEF Range
  <2>3. QED
    BY <2>1, <2>2
<1>8. QED
  BY <1>6, <1>7

(* What account_keys() holds at a 1-based position j: the static keys     *)
(* first, then the addresses loaded from lookup tables, no key twice.     *)
(* A signer is a static key.                                               *)
Loaded(m) == Range(m.writable) \cup Range(m.readonly)

LEMMA AccountKeysLayout ==
    ASSUME NEW m \in LoadedMessages
    PROVE  /\ AccountKeys(m) \in Seq(Keys)
           /\ Len(AccountKeys(m)) = Len(m.static) + Len(m.writable) + Len(m.readonly)
           /\ m.header.nrs <= Len(m.static)
           /\ \A j \in 1..Len(m.static) :
                 AccountKeys(m)[j] = m.static[j] /\ AccountKeys(m)[j] \notin Loaded(m)
           /\ \A j \in (Len(m.static) + 1)..Len(AccountKeys(m)) :
                 AccountKeys(m)[j] \in Loaded(m)
<1>1. m.static \in Seq(Keys) /\ m.writable \in Seq(Keys) /\ m.readonly \in Seq(Keys)
  BY KeySeqsType DEF LoadedMessages
<1>2. IsInjective(AccountKeys(m)) /\ m.header.nrs <= Len(m.static)
  BY DEF LoadedMessages, AccountKeys
<1>3. ASSUME NEW st, NEW wr, NEW ro,
             st = m.static, wr = m.writable, ro = m.readonly
      PROVE  /\ st \o wr \o ro \in Seq(Keys)
             /\ Len(st \o wr \o ro) = Len(st) + Len(wr) + Len(ro)
             /\ \A j \in 1..Len(st) :
                   (st \o wr \o ro)[j] = st[j]
                   /\ (st \o wr \o ro)[j] \notin Range(wr) \cup Range(ro)
             /\ \A j \in (Len(st) + 1)..Len(st \o wr \o ro) :
                   (st \o wr \o ro)[j] \in Range(wr) \cup Range(ro)
  <2>1. /\ st \in Seq(Keys) /\ wr \in Seq(Keys) /\ ro \in Seq(Keys)
        /\ IsInjective(st \o wr \o ro)
    BY <1>1, <1>2, <1>3 DEF AccountKeys
  <2>2. QED
    BY <2>1, Concat3, Layout3
<1>4. QED
  BY <1>2, <1>3 DEF AccountKeys, Loaded

-----------------------------------------------------------------------------
(* What a state holds: the message is a sanitized loaded message, and     *)
(* each list is empty or what its parser returns for it; the legacy      *)
(* parser only ran on a message without lookups.                          *)
PInv ==
    /\ msg \in LoadedMessages
    /\ reserved \in ReservedSets
    /\ legacy = <<>> \/ (NoLookups(msg) /\ legacy = parse_legacy_message_accounts(msg))
    /\ v0 \in {<<>>, parse_v0_message_accounts(msg, reserved)}

LEMMA PInvInit == Init => PInv
BY DEF Init, PInv

LEMMA PInvNext == PInv /\ [Next]_vars => PInv'
<1> SUFFICES ASSUME PInv, [Next]_vars PROVE PInv'
  OBVIOUS
<1>1. CASE ParseLegacy
  BY <1>1 DEF ParseLegacy, PInv
<1>2. CASE ParseV0
  BY <1>2 DEF ParseV0, PInv
<1>3. CASE UNCHANGED vars
  BY <1>3 DEF vars, PInv
<1>4. QED
  BY <1>1, <1>2, <1>3 DEF Next

(* The v0 parser marks an account LookupTable exactly when it was loaded  *)
(* from a lookup table, and never calls such an account a signer, for     *)
(* every sanitized message: the static keys come first, lookups add no    *)
(* key twice, and signers are among the static keys.                      *)
THEOREM SourceMatches == Spec => []SourceMatchesOrigin
<1>1. PInv => SourceMatchesOrigin
  <2> SUFFICES ASSUME PInv, NEW j \in DOMAIN v0
               PROVE  /\ v0[j].source = "LookupTable"
                            <=> v0[j].pubkey \in Range(msg.writable) \cup Range(msg.readonly)
                      /\ v0[j].source = "LookupTable" => ~v0[j].signer
    BY DEF SourceMatchesOrigin
  <2> DEFINE A == AccountKeys(msg)
             Ns == Len(msg.static)
  <2>1. msg \in LoadedMessages /\ v0 = parse_v0_message_accounts(msg, reserved)
    BY DEF PInv
  <2>0. msg \in MessageType
    BY <2>1, LoadedMessageType
  <2>2. /\ A \in Seq(Keys)
        /\ Len(A) = Ns + Len(msg.writable) + Len(msg.readonly)
        /\ msg.header.nrs <= Ns
        /\ \A i \in 1..Ns : A[i] \notin Loaded(msg)
        /\ \A i \in (Ns + 1)..Len(A) : A[i] \in Loaded(msg)
    BY <2>1, AccountKeysLayout
  <2>6. Ns \in Nat /\ Len(A) \in Nat /\ j \in 1..Len(A)
    BY <2>0, <2>1, <2>2, LenProperties DEF parse_v0_message_accounts, MessageType
  <2>7. j <= Ns => A[j] \notin Loaded(msg)
    <3>1. j <= Ns => j \in 1..Ns
      BY <2>6
    <3>2. QED
      BY <3>1, <2>2
  <2>8. ~(j <= Ns) => A[j] \in Loaded(msg)
    <3>1. ~(j <= Ns) => j \in (Ns + 1)..Len(A)
      BY <2>6
    <3>2. QED
      BY <3>1, <2>2
  <2>3. /\ v0[j].pubkey = A[j]
        /\ v0[j].source = IF j - 1 < Ns THEN "Transaction" ELSE "LookupTable"
        /\ v0[j].signer = (j - 1 < msg.header.nrs)
    BY <2>1, <2>2 DEF parse_v0_message_accounts, is_signer
  <2>4. msg.header.nrs \in Nat
    BY <2>1 DEF LoadedMessages
  <2>5. v0[j].source = "LookupTable" <=> ~(j <= Ns)
    BY <2>3, <2>6
  <2>9. v0[j].pubkey \in Loaded(msg) <=> ~(j <= Ns)
    BY <2>3, <2>7, <2>8
  <2>10. v0[j].source = "LookupTable" => ~v0[j].signer
    <3>1. v0[j].source = "LookupTable" => ~(j - 1 < msg.header.nrs)
      BY <2>2, <2>4, <2>5, <2>6
    <3>2. QED
      BY <3>1, <2>3, Zenon
  <2>11. QED
    BY <2>5, <2>9, <2>10 DEF Loaded
<1>2. QED
  BY <1>1, PInvInit, PInvNext, PTL DEF Spec

(* Position j of a parsed list: its key is the j-th account key, and it   *)
(* is writable only if that key is not in the reserved set used.          *)
LEMMA ParsedEntry ==
    ASSUME NEW m \in LoadedMessages, NEW R, NEW j \in Nat,
           m \in MessageType
    PROVE  /\ is_writable(m, j - 1, R) => AccountKeys(m)[j] \notin R
           /\ j \in 1..Len(m.static) => AccountKeys(m)[j] = m.static[j]
<1>1. is_writable(m, j - 1, R) => AccountKeys(m)[j] \notin R
  <2>1. (j - 1) + 1 = j
    OBVIOUS
  <2>2. QED
    BY <2>1 DEF is_writable
<1>2. \A i \in 1..Len(m.static) : AccountKeys(m)[i] = m.static[i]
  BY AccountKeysLayout
<1>3. QED
  BY <1>1, <1>2

(* The legacy parser never reports an activated reserved key writable,   *)
(* for every sanitized message and whatever reserved set its             *)
(* LoadedMessage was built with.                                         *)
THEOREM ReservedHidden == Spec => []ReservedNeverWritable
<1>1. PInv => ReservedNeverWritable
  <2> SUFFICES ASSUME PInv, NEW p \in Range(legacy),
                      p.pubkey \in Reserved, p.writable
               PROVE  FALSE
    BY DEF ReservedNeverWritable
  <2>1. msg \in LoadedMessages /\ msg \in MessageType
    BY LoadedMessageType DEF PInv
  <2>2. legacy = parse_legacy_message_accounts(msg)
    BY DEF PInv, Range
  <2>3. PICK j \in 1..Len(msg.static) : p = legacy[j]
    BY <2>2 DEF Range, parse_legacy_message_accounts
  <2>4. p.pubkey = msg.static[j] /\ p.writable = is_writable(msg, j - 1, Reserved)
    BY <2>2, <2>3 DEF parse_legacy_message_accounts
  <2>5. j \in Nat /\ j \in 1..Len(msg.static) /\ is_writable(msg, j - 1, Reserved)
    BY <2>4
  <2>6. AccountKeys(msg)[j] \notin Reserved /\ AccountKeys(msg)[j] = msg.static[j]
    BY <2>1, <2>5, ParsedEntry
  <2>7. QED
    BY <2>4, <2>6
<1>2. QED
  BY <1>1, PInvInit, PInvNext, PTL DEF Spec

(* For every reserved set a LoadedMessage may be built with, the two      *)
(* parsers differ on a message without lookups only in the writability   *)
(* of keys on which that set and the activated set disagree.             *)
THEOREM DivergenceBounded == Spec => []ReservedDivergenceOnly
<1>1. PInv => ReservedDivergenceOnly
  <2> SUFFICES ASSUME PInv, legacy # <<>>, v0 # <<>>
               PROVE  /\ DOMAIN legacy = DOMAIN v0
                      /\ \A j \in DOMAIN legacy :
                           /\ v0[j] = [legacy[j] EXCEPT !.writable = v0[j].writable]
                           /\ v0[j].writable /\ ~legacy[j].writable =>
                                 v0[j].pubkey \in Reserved \ reserved
                           /\ legacy[j].writable /\ ~v0[j].writable =>
                                 v0[j].pubkey \in reserved \ Reserved
    BY DEF ReservedDivergenceOnly
  <2> DEFINE Ns == Len(msg.static)
             A == AccountKeys(msg)
  <2>1. /\ msg \in LoadedMessages /\ msg \in MessageType /\ NoLookups(msg)
        /\ legacy = parse_legacy_message_accounts(msg)
        /\ v0 = parse_v0_message_accounts(msg, reserved)
    BY LoadedMessageType DEF PInv
  <2>2. Len(A) = Ns /\ Ns \in Nat
    <3>1. Len(A) = Ns + Len(msg.writable) + Len(msg.readonly)
      BY <2>1, AccountKeysLayout
    <3>2. QED
      BY <2>1, <3>1, LenProperties DEF NoLookups, MessageType
  <2>3. DOMAIN legacy = 1..Ns /\ DOMAIN v0 = 1..Ns
    BY <2>1, <2>2 DEF parse_legacy_message_accounts, parse_v0_message_accounts
  <2>4. ASSUME NEW j \in 1..Ns
        PROVE  /\ v0[j] = [legacy[j] EXCEPT !.writable = v0[j].writable]
               /\ v0[j].writable /\ ~legacy[j].writable =>
                     v0[j].pubkey \in Reserved \ reserved
               /\ legacy[j].writable /\ ~v0[j].writable =>
                     v0[j].pubkey \in reserved \ Reserved
    <3> DEFINE WL == is_writable(msg, j - 1, Reserved)
               WV == is_writable(msg, j - 1, reserved)
    <3>1. A[j] = msg.static[j]
      BY <2>1, ParsedEntry
    <3>2. j - 1 < Ns
      BY <2>2
    <3>3. legacy[j] = [pubkey |-> A[j], writable |-> WL,
                       signer |-> is_signer(msg, j - 1), source |-> "Transaction"]
      BY <2>1, <3>1 DEF parse_legacy_message_accounts
    <3>4. v0[j] = [pubkey |-> A[j], writable |-> WV,
                   signer |-> is_signer(msg, j - 1), source |-> "Transaction"]
      BY <2>1, <2>2, <3>2 DEF parse_v0_message_accounts
    <3>5. WV /\ ~WL => A[j] \in Reserved \ reserved
      BY DEF is_writable
    <3>6. WL /\ ~WV => A[j] \in reserved \ Reserved
      BY DEF is_writable
    <3>7. QED
      BY <3>3, <3>4, <3>5, <3>6
  <2>5. QED
    BY <2>3, <2>4
<1>2. QED
  BY <1>1, PInvInit, PInvNext, PTL DEF Spec
=============================================================================
