--------------------------- MODULE ParseAccounts ---------------------------
(***************************************************************************)
(* parse_legacy_message_accounts and parse_v0_message_accounts            *)
(* (forks/solana-transaction-status-wasm/src/parse_accounts.rs): the      *)
(* account list of a message, with each account's writable and signer   *)
(* flags and whether it came from the transaction or a lookup table.      *)
(*                                                                         *)
(* The flags come from solana_message (outside this repository), modelled *)
(* here from its definitions: a signer is one of the first                *)
(* num_required_signatures keys; a key is writable when its index is in   *)
(* a writable part of the header, it is not a reserved key, and it is not *)
(* demoted as a program id.  The legacy parser passes the set of all      *)
(* activated reserved keys; the v0 parser reads the writability the       *)
(* LoadedMessage computed with the reserved set its builder passed.       *)
(***************************************************************************)
EXTENDS Naturals, Sequences, FiniteSets, Functions

CONSTANTS
    Keys,         \* account public keys
    Reserved,     \* ReservedAccountKeys::new_all_activated().active
    Loader,       \* the upgradeable BPF loader's id
    MaxKeys,      \* bound on the keys of one message
    ReservedSets  \* reserved sets a LoadedMessage may be built with

ASSUME ConstantsAssumption ==
    /\ Reserved \subseteq Keys
    /\ Loader \in Keys
    /\ MaxKeys \in Nat
    /\ ReservedSets \subseteq SUBSET Keys

(* Sequences of distinct keys of length at most n. *)
KeySeqs(n) == UNION {{s \in [1..k -> Keys] : IsInjective(s)} : k \in 0..n}

(* A v0 message as loaded: header, static keys, the addresses its lookups *)
(* loaded (writable, then readonly), and the indices of its static keys   *)
(* called as a program.  Only sanitized messages are parsed: the payer    *)
(* signs and is writable-indexed, the unsigned read-only keys fit, a      *)
(* program id is a static non-payer key, and no key occurs twice.         *)
LoadedMessages ==
    {m \in [header: [nrs: 1..MaxKeys, nros: 0..MaxKeys, nrou: 0..MaxKeys],
            static: KeySeqs(MaxKeys), writable: KeySeqs(1),
            readonly: KeySeqs(1), programs: SUBSET (1..MaxKeys)] :
        LET all == m.static \o m.writable \o m.readonly
        IN  /\ Len(all) <= MaxKeys
            /\ IsInjective(all)
            /\ m.header.nros < m.header.nrs
            /\ m.header.nrs + m.header.nrou <= Len(m.static)
            /\ m.programs \subseteq 1..(Len(m.static) - 1)}

AccountKeys(m) == m.static \o m.writable \o m.readonly

-----------------------------------------------------------------------------
(* solana_message (environment); i is the 0-based index of the code.     *)

is_signer(m, i) == i < m.header.nrs

(* is_upgradeable_loader_present and demote_program_id. *)
demote_program_id(m, i) ==
    i \in m.programs /\ Loader \notin Range(AccountKeys(m))

(* The writable parts of the header: writable signers, then writable      *)
(* unsigned static keys, then (v0) the lookups' writable addresses.       *)
is_writable_index(m, i) ==
    LET s == Len(m.static)
    IN  \/ i < m.header.nrs - m.header.nros
        \/ m.header.nrs <= i /\ i < s - m.header.nrou
        \/ s <= i /\ i < s + Len(m.writable)

(* Message::is_maybe_writable and LoadedMessage::is_writable. *)
is_writable(m, i, reserved) ==
    /\ is_writable_index(m, i)
    /\ AccountKeys(m)[i + 1] \notin reserved
    /\ ~demote_program_id(m, i)

-----------------------------------------------------------------------------
(* ParsedAccountSource (status client types lib.rs 165-170). *)
ParsedAccountSources == {"Transaction", "LookupTable"}

(* ParsedAccount (lib.rs 153-163). *)
ParsedAccount ==
    [pubkey: Keys, writable: BOOLEAN, signer: BOOLEAN, source: ParsedAccountSources]

(* Mutant: the legacy parser passes no reserved set (None).              *)
parse_legacy_unreserved(m) ==
    [j \in 1..Len(m.static) |->
        [pubkey |-> m.static[j], writable |-> is_writable(m, j - 1, {}),
         signer |-> is_signer(m, j - 1), source |-> "Transaction"]]

(* parse_legacy_message_accounts (parse_accounts.rs 7-19): every key of   *)
(* the legacy message, from the transaction.                             *)
parse_legacy_message_accounts(m) ==
    [j \in 1..Len(m.static) |->
        [pubkey |-> m.static[j], writable |-> is_writable(m, j - 1, Reserved),
         signer |-> is_signer(m, j - 1), source |-> "Transaction"]]

(* Mutant: off by one in the static/loaded boundary.                    *)
parse_v0_boundary(m, reserved) ==
    [j \in 1..Len(AccountKeys(m)) |->
        [pubkey |-> AccountKeys(m)[j],
         writable |-> is_writable(m, j - 1, reserved),
         signer |-> is_signer(m, j - 1),
         source |-> IF j - 1 <= Len(m.static) THEN "Transaction" ELSE "LookupTable"]]

(* parse_v0_message_accounts (parse_accounts.rs 21-37); reserved is the   *)
(* set the LoadedMessage's writability cache was computed with.           *)
parse_v0_message_accounts(m, reserved) ==
    [j \in 1..Len(AccountKeys(m)) |->
        [pubkey |-> AccountKeys(m)[j],
         writable |-> is_writable(m, j - 1, reserved),
         signer |-> is_signer(m, j - 1),
         source |-> IF j - 1 < Len(m.static) THEN "Transaction" ELSE "LookupTable"]]

-----------------------------------------------------------------------------
VARIABLES
    msg,       \* the message being parsed
    reserved,  \* the reserved set its LoadedMessage was built with
    legacy,    \* parse_legacy_message_accounts of its legacy form, or <<>>
    v0         \* parse_v0_message_accounts of it, or <<>>

vars == <<msg, reserved, legacy, v0>>

NoLookups(m) == m.writable = <<>> /\ m.readonly = <<>>

Init ==
    /\ msg \in LoadedMessages
    /\ reserved \in ReservedSets
    /\ legacy = <<>>
    /\ v0 = <<>>

(* A message without lookups is also a legacy message; parse it as one.  *)
ParseLegacy ==
    /\ NoLookups(msg)
    /\ legacy = <<>>
    /\ legacy' = parse_legacy_message_accounts(msg)
    /\ UNCHANGED <<msg, reserved, v0>>

ParseV0 ==
    /\ v0 = <<>>
    /\ v0' = parse_v0_message_accounts(msg, reserved)
    /\ UNCHANGED <<msg, reserved, legacy>>

Next == ParseLegacy \/ ParseV0

Spec == Init /\ [][Next]_vars

-----------------------------------------------------------------------------
(* The v0 parser labels an account LookupTable exactly when it was loaded *)
(* from an address lookup table, and no such account is a signer.         *)
SourceMatchesOrigin ==
    \A j \in DOMAIN v0 :
        /\ v0[j].source = "LookupTable"
              <=> v0[j].pubkey \in Range(msg.writable) \cup Range(msg.readonly)
        /\ v0[j].source = "LookupTable" => ~v0[j].signer

(* The legacy parser, which passes the activated reserved keys            *)
(* (parse_accounts.rs 8-13), never reports one of them (a sysvar, a       *)
(* builtin program) as writable, whatever position the message gives it. *)
ReservedNeverWritable ==
    \A p \in Range(legacy) : p.pubkey \in Reserved => ~p.writable

(* On a message without lookups the two parsers report the same keys in  *)
(* the same order with the same signer and source flags.  They differ    *)
(* only in writability, and only where the set the LoadedMessage was      *)
(* built with (read back at line 31) differs from the activated set: the  *)
(* v0 parser reports writable an activated reserved key its builder left  *)
(* out, and read-only a key its builder added.                           *)
ReservedDivergenceOnly ==
    legacy # <<>> /\ v0 # <<>> =>
        /\ DOMAIN legacy = DOMAIN v0
        /\ \A j \in DOMAIN legacy :
              /\ v0[j] = [legacy[j] EXCEPT !.writable = v0[j].writable]
              /\ v0[j].writable /\ ~legacy[j].writable =>
                    v0[j].pubkey \in Reserved \ reserved
              /\ legacy[j].writable /\ ~v0[j].writable =>
                    v0[j].pubkey \in reserved \ Reserved

(* Both parsers give the same list for a message without lookups.  This  *)
(* fails when a LoadedMessage is built with another reserved set (run    *)
(* parsers_disagree).                                                     *)
ParsersAgree ==
    legacy # <<>> /\ v0 # <<>> => legacy = v0
=============================================================================
