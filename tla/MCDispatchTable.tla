--------------------------- MODULE MCDispatchTable ---------------------------
(***************************************************************************)
(* Model-checking instance of DispatchTable: every command word, one other *)
(* word and one numeral, on lines of up to three tokens.                   *)
(***************************************************************************)
EXTENDS DispatchTable, TLC

MCWords == Commands \union {"a"}
MCNumerals == {"1"}
=============================================================================
