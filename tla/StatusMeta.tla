----------------------------- MODULE StatusMeta -----------------------------
(***************************************************************************)
(* The conversion of a transaction's execution record, TransactionStatusMeta, *)
(* into the UiTransactionStatusMeta an RPC node returns                   *)
(* (forks/solana-transaction-status-client-types-wasm/src/lib.rs 264-545). *)
(* Byte strings become base58 (instruction data) or base64 (return data)   *)
(* text; options and lists are mapped field by field.                     *)
(*                                                                         *)
(* A node holds one meta, converts it, and a client reads the UI form     *)
(* back, decoding every string with the alphabet its field declares.      *)
(***************************************************************************)
EXTENDS Naturals, Sequences, WireText

CONSTANTS
    Errors,   \* TransactionError values
    Keys      \* public keys

ASSUME ConstantsAssumption == "Ok" \notin Errors /\ None \notin Keys

(* Option::map. *)
OptionMap(o, F(_)) == IF o = None THEN None ELSE F(o)

(* Apply F to every element of a sequence (iter().map().collect()). *)
SeqMap(s, F(_)) == [k \in DOMAIN s |-> F(s[k])]

-----------------------------------------------------------------------------
(* CompiledInstruction with the fields the conversion touches, and         *)
(* InnerInstruction / InnerInstructions (lib.rs 494-508).                 *)
CompiledInstructions == [program_id_index: {1}, data: Data]
InnerInstruction == [instruction: CompiledInstructions, stack_height: {None, 1}]
InnerInstructions == [index: {0}, instructions: {<<i>> : i \in InnerInstruction}]

(* LoadedAddresses and TransactionReturnData. *)
LoadedAddresses == [writable: {<<>>} \cup {<<k>> : k \in Keys}, readonly: {<<>>}]
TransactionReturnData == [program_id: Keys, data: Data]

(* TransactionStatusMeta::default (lib.rs 527-545). *)
DefaultMeta ==
    [status |-> "Ok", fee |-> 0, pre_balances |-> <<>>, post_balances |-> <<>>,
     inner_instructions |-> None, log_messages |-> None,
     pre_token_balances |-> None, post_token_balances |-> None,
     rewards |-> None, loaded_addresses |-> [writable |-> <<>>, readonly |-> <<>>],
     return_data |-> None, compute_units_consumed |-> None, cost_units |-> None]

(* TransactionStatusMeta (lib.rs 510-525): status Ok or an error, and each *)
(* optional field absent or present.  Balances, logs, token balances and  *)
(* rewards are copied unchanged, so one value each stands for them.       *)
TransactionStatusMeta ==
    [status: {"Ok"} \cup Errors, fee: {0}, pre_balances: {<<>>},
     post_balances: {<<>>},
     inner_instructions: {None} \cup {<<ii>> : ii \in InnerInstructions},
     log_messages: {None, <<>>}, pre_token_balances: {None, <<>>},
     post_token_balances: {None}, rewards: {None, <<>>},
     loaded_addresses: LoadedAddresses,
     return_data: {None} \cup TransactionReturnData,
     compute_units_consumed: {None, 1}, cost_units: {None}]

-----------------------------------------------------------------------------
(* UiCompiledInstruction::from (lib.rs 401-421): data as base58 text. *)
UiCompiledInstruction_from(ix, stack_height) ==
    [program_id_index |-> ix.program_id_index,
     data |-> Text("base58", ix.data),
     stack_height |-> stack_height]

(* Mutant: the stack height of an inner instruction is dropped.          *)
UiInnerInstructions_fromNoHeight(ii) ==
    [index |-> ii.index,
     instructions |-> SeqMap(ii.instructions, LAMBDA x :
        [compiled |-> UiCompiledInstruction_from(x.instruction, None)])]

(* UiInnerInstructions::from (lib.rs 465-492): every inner instruction     *)
(* becomes UiInstruction::Compiled with its stack height.                 *)
UiInnerInstructions_from(ii) ==
    [index |-> ii.index,
     instructions |-> SeqMap(ii.instructions, LAMBDA x :
        [compiled |-> UiCompiledInstruction_from(x.instruction, x.stack_height)])]

(* UiLoadedAddresses::from (lib.rs 342-360). *)
UiLoadedAddresses_from(la) == [writable |-> la.writable, readonly |-> la.readonly]

(* Mutant: the return data is written as base58 under the Base64 tag.    *)
UiTransactionReturnData_fromBase58(rd) ==
    [program_id |-> rd.program_id, data |-> <<Text("base58", rd.data), "Base64">>]

(* UiTransactionReturnData::from and UiReturnDataEncoding                  *)
(* (lib.rs 313-340): base64 text tagged Base64.                           *)
UiTransactionReturnData_from(rd) ==
    [program_id |-> rd.program_id, data |-> <<Text("base64", rd.data), "Base64">>]

(* UiTransactionStatusMeta::from (lib.rs 264-311): err is the status's     *)
(* error; loaded addresses are always present, even when empty.           *)
UiTransactionStatusMeta_from(meta) ==
    [err |-> IF meta.status = "Ok" THEN None ELSE meta.status,
     status |-> meta.status,
     fee |-> meta.fee,
     pre_balances |-> meta.pre_balances,
     post_balances |-> meta.post_balances,
     inner_instructions |->
        OptionMap(meta.inner_instructions, LAMBDA ixs : SeqMap(ixs, UiInnerInstructions_from)),
     log_messages |-> meta.log_messages,
     pre_token_balances |-> meta.pre_token_balances,
     post_token_balances |-> meta.post_token_balances,
     rewards |-> meta.rewards,
     loaded_addresses |-> UiLoadedAddresses_from(meta.loaded_addresses),
     return_data |-> OptionMap(meta.return_data, UiTransactionReturnData_from),
     compute_units_consumed |-> meta.compute_units_consumed,
     cost_units |-> meta.cost_units]

-----------------------------------------------------------------------------
(* What a client reads back from a UiTransactionStatusMeta: every string  *)
(* decoded with the alphabet its field declares (base58 for instruction   *)
(* data, the return data's tag), the deprecated err dropped.  The set of  *)
(* metas the reading can produce.                                         *)
AlphabetOfTag(tag) == IF tag = "Base64" THEN "base64" ELSE "base58"

ReadInstruction(u) ==
    {[instruction |-> [program_id_index |-> u.compiled.program_id_index, data |-> d],
      stack_height |-> u.compiled.stack_height] :
        d \in DecodeText("base58", u.compiled.data)}

ReadInner(u) ==
    {[index |-> u.index, instructions |-> <<i>>] : i \in ReadInstruction(u.instructions[1])}

ReadReturnData(r) ==
    IF r = None THEN {None}
    ELSE {[program_id |-> r.program_id, data |-> d] :
            d \in DecodeText(AlphabetOfTag(r.data[2]), r.data[1])}

ReadMeta(u) ==
    {[status |-> u.status, fee |-> u.fee, pre_balances |-> u.pre_balances,
      post_balances |-> u.post_balances, inner_instructions |-> ii,
      log_messages |-> u.log_messages, pre_token_balances |-> u.pre_token_balances,
      post_token_balances |-> u.post_token_balances, rewards |-> u.rewards,
      loaded_addresses |-> u.loaded_addresses, return_data |-> rd,
      compute_units_consumed |-> u.compute_units_consumed,
      cost_units |-> u.cost_units] :
        ii \in IF u.inner_instructions = None THEN {None}
               ELSE {<<x>> : x \in ReadInner(u.inner_instructions[1])},
        rd \in ReadReturnData(u.return_data)}

(* Option::None is no Some value: not a TransactionError, and not the     *)
(* converted inner-instruction list or return data that Some carries.     *)
ASSUME OptionAssumption ==
    None \notin Errors
             \cup {SeqMap(<<ii>>, UiInnerInstructions_from) : ii \in InnerInstructions}
             \cup {UiTransactionReturnData_from(rd) : rd \in TransactionReturnData}

-----------------------------------------------------------------------------
VARIABLES
    meta,  \* the node's TransactionStatusMeta
    ui     \* its UiTransactionStatusMeta, or None before conversion

vars == <<meta, ui>>

Init ==
    /\ meta \in TransactionStatusMeta \cup {DefaultMeta}
    /\ ui = None

(* The node converts the meta it holds for an RPC answer. *)
Convert ==
    /\ ui = None
    /\ ui' = UiTransactionStatusMeta_from(meta)
    /\ UNCHANGED meta

Next == Convert

Spec == Init /\ [][Next]_vars

-----------------------------------------------------------------------------
(* The conversion loses nothing a client needs: reading the UI form back, *)
(* each string with the alphabet its field declares, yields exactly the   *)
(* node's meta, and err agrees with status.                               *)
ConversionRoundTrips ==
    ui # None =>
        /\ ReadMeta(ui) = {meta}
        /\ (ui.err = None) = (ui.status = "Ok")
=============================================================================
