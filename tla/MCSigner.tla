------------------------------ MODULE MCSigner ------------------------------
(***************************************************************************)
(* Model values for the runs of Signer: two accounts, two panels and two   *)
(* calls.  Accounts are alike, so it is enough that the window is opened   *)
(* paired with the first one, or with none.                                *)
(***************************************************************************)
EXTENDS Signer

CONSTANTS a, b

Accounts == {a, b}
Pairings == {1, 2}
Requests == {1, 2}
FirstAccount == {a}
=============================================================================
