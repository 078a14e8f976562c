------------------------------ MODULE MCMints ------------------------------
(***************************************************************************)
(* Mints whose extensions hold in their bodies what a type or a length     *)
(* could be taken for, with the transfer-fee config first, last or absent, *)
(* with and without the two extensions that block a transfer, and with     *)
(* room for no header, half a one, or one and a half behind the last.      *)
(***************************************************************************)
EXTENDS MintExtensions

Ext(type, body) == [type |-> type, body |-> body]

\* Metadata pointer, mint close authority, default account state.
Pointer == Ext(18, <<NonTransferable, 0, TransferHook>>)
CloseAuthority == Ext(3, <<TransferFeeConfig, 3, 9, 14, 0>>)
Empty == Ext(6, <<>>)
Blocked == Ext(NonTransferable, <<>>)
Hook == Ext(TransferHook, <<0, 0>>)

Harmless == {<<>>, <<Pointer>>, <<CloseAuthority, Empty>>}
Blocking == {<<Blocked>>, <<Hook>>, <<Pointer, Hook>>}

MCLayouts ==
    [before : Harmless \cup {<<Hook>>, <<Blocked>>}, fee : BOOLEAN,
     after : Harmless \cup Blocking, padding : {0, 1, 3}]
=============================================================================
