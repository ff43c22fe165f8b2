------------------------- MODULE MCModKitTranslation -------------------------
(* The translation command by itself: two labels, one literal.              *)
EXTENDS ModKitTranslation
=============================================================================
