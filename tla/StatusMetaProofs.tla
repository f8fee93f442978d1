-------------------------- MODULE StatusMetaProofs --------------------------
(***************************************************************************)
(* Proof that UiTransactionStatusMeta::from loses nothing a client needs  *)
(* (ConversionRoundTrips), for every set of byte strings, errors and keys. *)
(* The argument goes field by field, inside out: an instruction's base58  *)
(* data decodes to its bytes, so an inner-instruction list reads back as  *)
(* itself; base64 return data under its Base64 tag reads back as itself;  *)
(* every other field is copied.  The state invariant only says that ui is *)
(* None or the conversion of the meta the node holds.                     *)
(***************************************************************************)
EXTENDS StatusMeta, TLAPS

USE ConstantsAssumption, OptionAssumption

(* A text decoded with the alphabet it was written in gives its bytes.    *)
LEMMA DecodeOwn ==
    ASSUME NEW a, NEW b
    PROVE  DecodeText(a, Text(a, b)) = {b}
BY DEF DecodeText, Text

(* An inner instruction, converted to UiInstruction::Compiled with its    *)
(* base58 data and stack height, reads back as itself.                   *)
LEMMA InstructionRoundTrip ==
    ASSUME NEW i \in InnerInstruction
    PROVE  ReadInstruction([compiled |-> UiCompiledInstruction_from(i.instruction, i.stack_height)])
             = {i}
<1>1. DecodeText("base58", Text("base58", i.instruction.data)) = {i.instruction.data}
  BY DecodeOwn
<1>2. i = [instruction |-> [program_id_index |-> i.instruction.program_id_index,
                            data |-> i.instruction.data],
           stack_height |-> i.stack_height]
  BY DEF InnerInstruction, CompiledInstructions
<1>. QED
  BY <1>1, <1>2 DEF ReadInstruction, UiCompiledInstruction_from

(* UiInnerInstructions::from, read back, gives the InnerInstructions.     *)
LEMMA InnerRoundTrip ==
    ASSUME NEW ii \in InnerInstructions
    PROVE  ReadInner(UiInnerInstructions_from(ii)) = {ii}
<1>1. PICK i \in InnerInstruction : ii = [index |-> ii.index, instructions |-> <<i>>]
  BY DEF InnerInstructions
<1>2. UiInnerInstructions_from(ii).instructions[1]
        = [compiled |-> UiCompiledInstruction_from(i.instruction, i.stack_height)]
  BY <1>1 DEF UiInnerInstructions_from, SeqMap
<1>3. ReadInstruction(UiInnerInstructions_from(ii).instructions[1]) = {i}
  BY <1>2, InstructionRoundTrip
<1>4. UiInnerInstructions_from(ii).index = ii.index
  BY DEF UiInnerInstructions_from
<1>. QED
  BY <1>1, <1>3, <1>4 DEF ReadInner

(* The optional inner-instruction list, mapped by Option::map and read    *)
(* back (None stays None, Some reads back element by element), is itself. *)
LEMMA InnerOptionRoundTrip ==
    ASSUME NEW o \in {None} \cup {<<ii>> : ii \in InnerInstructions}
    PROVE  LET u == OptionMap(o, LAMBDA ixs : SeqMap(ixs, UiInnerInstructions_from))
           IN  (IF u = None THEN {None} ELSE {<<x>> : x \in ReadInner(u[1])}) = {o}
<1>1. CASE o = None
  BY <1>1 DEF OptionMap
<1>2. CASE o # None
  <2>1. PICK ii \in InnerInstructions : o = <<ii>>
    BY <1>2
  <2>2. OptionMap(o, LAMBDA ixs : SeqMap(ixs, UiInnerInstructions_from))
          = SeqMap(<<ii>>, UiInnerInstructions_from)
    BY <1>2, <2>1 DEF OptionMap
  <2>3. SeqMap(<<ii>>, UiInnerInstructions_from) # None
    BY OptionAssumption
  <2>4. SeqMap(<<ii>>, UiInnerInstructions_from)[1] = UiInnerInstructions_from(ii)
    BY DEF SeqMap
  <2>5. ReadInner(UiInnerInstructions_from(ii)) = {ii}
    BY InnerRoundTrip
  <2>6. {<<x>> : x \in {ii}} = {o}
    BY <2>1
  <2>. QED
    BY <2>2, <2>3, <2>4, <2>5, <2>6, Zenon
<1>. QED
  BY <1>1, <1>2
(* Optional return data, converted to base64 text under the Base64 tag    *)
(* and read back with the alphabet that tag names, is itself.             *)
LEMMA ReturnRoundTrip ==
    ASSUME NEW r \in {None} \cup TransactionReturnData
    PROVE  ReadReturnData(OptionMap(r, UiTransactionReturnData_from)) = {r}
<1>1. CASE r = None
  BY <1>1 DEF OptionMap, ReadReturnData
<1>2. CASE r # None
  <2>. DEFINE u == UiTransactionReturnData_from(r)
  <2>1. r \in TransactionReturnData
    BY <1>2
  <2>2. OptionMap(r, UiTransactionReturnData_from) = u /\ u # None
    BY <1>2, <2>1, OptionAssumption DEF OptionMap
  <2>3. AlphabetOfTag(u.data[2]) = "base64" /\ u.data[1] = Text("base64", r.data)
    BY DEF UiTransactionReturnData_from, AlphabetOfTag
  <2>4. DecodeText("base64", Text("base64", r.data)) = {r.data}
    BY DecodeOwn
  <2>5. r = [program_id |-> u.program_id, data |-> r.data]
    BY <2>1 DEF TransactionReturnData, UiTransactionReturnData_from
  <2>. QED
    BY <2>2, <2>3, <2>4, <2>5 DEF ReadReturnData
<1>. QED
  BY <1>1, <1>2

(* The record shape every meta the node may hold has.                     *)
MetaShape ==
    [status: {"Ok"} \cup Errors, fee: {0}, pre_balances: {<<>>},
     post_balances: {<<>>},
     inner_instructions: {None} \cup {<<ii>> : ii \in InnerInstructions},
     log_messages: {None, <<>>}, pre_token_balances: {None, <<>>},
     post_token_balances: {None}, rewards: {None, <<>>},
     loaded_addresses: [writable: {<<>>} \cup {<<k>> : k \in Keys}, readonly: {<<>>}],
     return_data: {None} \cup TransactionReturnData,
     compute_units_consumed: {None, 1}, cost_units: {None}]

(* The default meta and every TransactionStatusMeta have that shape.      *)
LEMMA MetaShapeLemma ==
    TransactionStatusMeta \cup {DefaultMeta} \subseteq MetaShape
BY DEF TransactionStatusMeta, DefaultMeta, MetaShape, LoadedAddresses

(* UiTransactionStatusMeta::from, read back, gives the meta converted,    *)
(* and its err is None exactly when the status is Ok.                     *)
LEMMA MetaRoundTrip ==
    ASSUME NEW m \in MetaShape
    PROVE  /\ ReadMeta(UiTransactionStatusMeta_from(m)) = {m}
           /\ (UiTransactionStatusMeta_from(m).err = None) = (m.status = "Ok")
<1>. DEFINE u == UiTransactionStatusMeta_from(m)
            iu == u.inner_instructions
<1>1. iu = OptionMap(m.inner_instructions,
                     LAMBDA ixs : SeqMap(ixs, UiInnerInstructions_from))
  BY DEF UiTransactionStatusMeta_from
<1>2. (IF iu = None THEN {None} ELSE {<<x>> : x \in ReadInner(iu[1])})
        = {m.inner_instructions}
  <2>1. m.inner_instructions \in {None} \cup {<<ii>> : ii \in InnerInstructions}
    BY DEF MetaShape
  <2>. QED
    BY <1>1, <2>1, InnerOptionRoundTrip
<1>3. ReadReturnData(u.return_data) = {m.return_data}
  <2>1. m.return_data \in {None} \cup TransactionReturnData
    BY DEF MetaShape
  <2>2. u.return_data = OptionMap(m.return_data, UiTransactionReturnData_from)
    BY DEF UiTransactionStatusMeta_from
  <2>. QED
    BY <2>1, <2>2, ReturnRoundTrip
<1>4. u.loaded_addresses = m.loaded_addresses
  BY DEF MetaShape, UiTransactionStatusMeta_from, UiLoadedAddresses_from
<1>5. m = [status |-> u.status, fee |-> u.fee, pre_balances |-> u.pre_balances,
           post_balances |-> u.post_balances,
           inner_instructions |-> m.inner_instructions,
           log_messages |-> u.log_messages, pre_token_balances |-> u.pre_token_balances,
           post_token_balances |-> u.post_token_balances, rewards |-> u.rewards,
           loaded_addresses |-> u.loaded_addresses, return_data |-> m.return_data,
           compute_units_consumed |-> u.compute_units_consumed,
           cost_units |-> u.cost_units]
  BY <1>4 DEF MetaShape, UiTransactionStatusMeta_from
<1>6. ReadMeta(u) = {m}
  BY <1>2, <1>3, <1>5 DEF ReadMeta
<1>7. (u.err = None) = (m.status = "Ok")
  BY DEF MetaShape, UiTransactionStatusMeta_from
<1>. QED
  BY <1>6, <1>7
-----------------------------------------------------------------------------
(* The inductive invariant: the node holds a meta of the program's shape, *)
(* and the UI form is absent or that meta's conversion.                   *)
SInv ==
    /\ meta \in TransactionStatusMeta \cup {DefaultMeta}
    /\ ui \in {None, UiTransactionStatusMeta_from(meta)}

LEMMA SInvInit == Init => SInv
BY DEF Init, SInv

LEMMA SInvNext == SInv /\ [Next]_vars => SInv'
BY DEF SInv, Next, Convert, vars

(* ConversionRoundTrips holds in every reachable state: whenever the node *)
(* has converted its meta, UiTransactionStatusMeta::from read back gives   *)
(* that meta, and err agrees with status.                                 *)
THEOREM RoundTrips == Spec => []ConversionRoundTrips
<1>1. SInv => ConversionRoundTrips
  <2> SUFFICES ASSUME SInv, ui # None
               PROVE  /\ ReadMeta(ui) = {meta}
                      /\ (ui.err = None) = (ui.status = "Ok")
    BY DEF ConversionRoundTrips
  <2>1. ui = UiTransactionStatusMeta_from(meta) /\ meta \in MetaShape
    BY MetaShapeLemma DEF SInv
  <2>2. ui.status = meta.status
    BY <2>1 DEF UiTransactionStatusMeta_from
  <2>. QED
    BY <2>1, <2>2, MetaRoundTrip
<1>. QED
  BY <1>1, SInvInit, SInvNext, PTL DEF Spec
=============================================================================
