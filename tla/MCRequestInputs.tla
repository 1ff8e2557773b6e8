-------------------------- MODULE MCRequestInputs --------------------------
(* A small alphabet: letters of one, two and three bytes, one bad word.     *)
EXTENDS RequestInputs

MCChar  == {"k", "K", "kelvin sign", "b", "e acute", " ", "*"}
MCWidth == [c \in MCChar |-> IF c = "kelvin sign" THEN 3 ELSE IF c = "e acute" THEN 2 ELSE 1]
MCLower == [c \in MCChar |-> IF c \in {"K", "kelvin sign"} THEN "k" ELSE c]
MCBadWords == {<<"k", "b">>}
MCMask  == <<"*">>
=============================================================================
