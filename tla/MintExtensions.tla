--------------------------- MODULE MintExtensions ---------------------------
(***************************************************************************)
(* What the program reads in the account of a Token-2022 mint.  After the  *)
(* base state come entries <<type, length, body>>, then perhaps zeros.     *)
(* Type, length and each field of a body are one cell here, and cursors    *)
(* count cells.  Three walkers read the cells; none is given the list of   *)
(* extensions the token program keeps, which is the state of this module.  *)
(***************************************************************************)
EXTENDS Integers, SequencesExt

CONSTANTS
    Layouts,      \* [before, fee, after, padding]: the extensions before a
                  \* transfer-fee config (fee: is there one) and after it,
                  \* and a number of zeros
    Fees,         \* transfer fees a mint authority may set
    MaxEpoch      \* bound: Clock::epoch

Uninitialized == 0
TransferFeeConfig == 1
NonTransferable == 9
TransferHook == 14

Extension == [type : Nat, body : Seq(Nat)]
Layout == [before : Seq(Extension), fee : BOOLEAN, after : Seq(Extension),
           padding : Nat]

\* An extension has a type, and a mint at most one transfer-fee config.
ASSUME MintExtensionsAssumption ==
    /\ Fees # {} /\ Fees \subseteq Nat
    /\ MaxEpoch \in Nat
    /\ Layouts \subseteq Layout
    /\ \A l \in Layouts : \A ext \in ToSet(l.before \o l.after) :
          ext.type \notin {Uninitialized, TransferFeeConfig}

VARIABLES
    layout,       \* fixed when the mint is initialized
    fee,          \* TransferFeeConfig: older, newer_epoch, newer
    epoch

vars == <<layout, fee, epoch>>

----------------------------------------------------------------------------
(* The account data *)

\* Body of the config: the fields the readers look at, in their order.
FeeBody(config) == <<config.older, config.newer_epoch, config.newer>>
OlderFeeOffset == 1
NewerEpochOffset == 2
NewerFeeOffset == 3

Extensions ==
    layout.before
        \o (IF layout.fee
              THEN <<[type |-> TransferFeeConfig, body |-> FeeBody(fee)]>>
              ELSE <<>>)
        \o layout.after

Entry(ext) == <<ext.type, Len(ext.body)>> \o ext.body

MintData ==
    FlattenSeq([i \in DOMAIN Extensions |-> Entry(Extensions[i])])
        \o [i \in 1 .. layout.padding |-> Uninitialized]

----------------------------------------------------------------------------
(* The walkers *)

EndOf(data, cursor) == cursor + 2 + data[cursor + 1]

\* Mutant: the next entry is sought right behind the header.
AfterHeader(data, cursor) == cursor + 2
NextEntry(data, cursor) == EndOf(data, cursor)

\* token_2022.rs: the walk ends at type 0 and at an entry that does not fit.
Entries(data) ==
    LET walk[cursor \in 1 .. Len(data) + 1] ==
          IF \/ cursor + 1 > Len(data)
             \/ data[cursor] = Uninitialized
             \/ EndOf(data, cursor) > Len(data) + 1
            THEN <<>>
            ELSE <<[type |-> data[cursor],
                    body |-> SubSeq(data, cursor + 2, EndOf(data, cursor) - 1)]>>
                 \o walk[NextEntry(data, cursor)]
    IN  walk[1]

TypesIn(entries) == {entries[i].type : i \in DOMAIN entries}

RequireV2TransferableMint(data) ==
    TypesIn(Entries(data)) \cap {NonTransferable, TransferHook} = {}

\* pool_validation.rs, at create_vault: neither terminator nor bound, but the
\* cursor never goes back.
CheckNoNonTransferableExtension(data) ==
    LET walk[cursor \in 1 .. Len(data) + 1] ==
          IF cursor + 1 > Len(data)
            THEN TRUE
            ELSE /\ data[cursor] # NonTransferable
                 /\ walk[Min({EndOf(data, cursor), Len(data) + 1})]
    IN  walk[1]

\* The body of the first config, or no body.
FirstConfigBody[entries \in Seq(Extension)] ==
    LET configs == {i \in DOMAIN entries : entries[i].type = TransferFeeConfig}
    IN  IF configs = {} THEN <<>> ELSE entries[Min(configs)].body
FindTransferFeeConfigBody(data) == FirstConfigBody[Entries(data)]

\* Without the extension the fee is zero.
ReadTransferFeeConfig(data) ==
    LET body == FindTransferFeeConfigBody(data)
    IN  IF body = <<>> THEN 0 ELSE body[NewerFeeOffset]

\* Mutant: the newer fee is charged one epoch early.
OneEpochEarly(data, now) ==
    LET body == FindTransferFeeConfigBody(data)
    IN  IF body = <<>> THEN 0
        ELSE IF now + 1 >= body[NewerEpochOffset] THEN body[NewerFeeOffset]
        ELSE body[OlderFeeOffset]
ReadEpochTransferFee(data, now) ==
    LET body == FindTransferFeeConfigBody(data)
    IN  IF body = <<>> THEN 0
        ELSE IF now >= body[NewerEpochOffset] THEN body[NewerFeeOffset]
        ELSE body[OlderFeeOffset]

----------------------------------------------------------------------------
(* The token program *)

Init ==
    /\ layout \in Layouts
    /\ \E f \in Fees : fee = [older |-> f, newer_epoch |-> 0, newer |-> f]
    /\ epoch = 0

\* A new fee starts two epochs ahead and replaces one that has not started;
\* one that has started becomes the older.
SetTransferFee(f) ==
    /\ layout.fee
    /\ fee' = [older |-> IF epoch >= fee.newer_epoch THEN fee.newer ELSE fee.older,
               newer_epoch |-> epoch + 2,
               newer |-> f]
    /\ UNCHANGED <<layout, epoch>>

NewEpoch ==
    /\ epoch < MaxEpoch
    /\ epoch' = epoch + 1
    /\ UNCHANGED <<layout, fee>>

Next ==
    \/ \E f \in Fees : SetTransferFee(f)
    \/ NewEpoch

Spec == Init /\ [][Next]_vars

\* What the token program itself knows of a mint, without its account data.
HasExtension(type) == type \in TypesIn(Extensions)

ChargedFee ==
    IF ~layout.fee THEN 0
    ELSE IF epoch >= fee.newer_epoch THEN fee.newer
    ELSE fee.older

----------------------------------------------------------------------------
(* Correctness *)

\* Whatever extensions a mint carries, in whatever order, and whatever their
\* bodies hold, the three walkers answer what the token program would: no body
\* or padding is taken for an entry, no entry is missed, and the fee is that
\* of the current epoch (token_2022.rs, check_no_non_transferable_extension).
WalkersAgreeWithTheTokenProgram ==
    /\ RequireV2TransferableMint(MintData)
          <=> ~HasExtension(NonTransferable) /\ ~HasExtension(TransferHook)
    /\ CheckNoNonTransferableExtension(MintData) <=> ~HasExtension(NonTransferable)
    /\ ReadEpochTransferFee(MintData, epoch) = ChargedFee

\* The fee the program reads for a transfer changes only to the one it read as
\* the newer fee before: a snapshot taken with read_transfer_fee_config can be
\* outdated by a later announcement but never misses an announced change.
FeeChangesAsAnnounced ==
    [][LET now == ReadEpochTransferFee(MintData, epoch)
           next == ReadEpochTransferFee(MintData, epoch)'
       IN  next # now => next = ReadTransferFeeConfig(MintData)]_vars
=============================================================================
