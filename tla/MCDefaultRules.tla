--------------------------- MODULE MCDefaultRules ---------------------------
(***************************************************************************)
(* An instance of DefaultRules: the bundled text in two pieces.             *)
(***************************************************************************)
EXTENDS DefaultRules

TwoPieces == {<<1, 2>>}
=============================================================================
