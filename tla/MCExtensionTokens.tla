-------------------------- MODULE MCExtensionTokens --------------------------
(* An instance of ExtensionTokens for TLC.                                 *)
EXTENDS ExtensionTokens, TLC

CONSTANTS c1, c2

TwoCodes == {c1, c2}
Codes == Permutations(Code)
=============================================================================
