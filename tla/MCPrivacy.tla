----------------------------- MODULE MCPrivacy -----------------------------
(* The privacy filter on its own, with a single private value.             *)
EXTENDS Privacy

MCValue == {<<1, 2>>}
=============================================================================
