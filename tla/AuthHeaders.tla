---------------------------- MODULE AuthHeaders ----------------------------
(***************************************************************************)
(* The Authorization header in internal/auth: what GetAccessToken,         *)
(* GetRefreshToken and GetAPIKey read out of it, against the tokens the    *)
(* server hands out. Access and refresh tokens share the word "Bearer", so *)
(* only their shape tells them apart; and one length constant counts       *)
(* bytes, the other hexadecimal digits.                                    *)
(*                                                                         *)
(* A header is its first word, the white space after it and the rest; a    *)
(* character stands for its class. Signatures and secrets are left out.    *)
(***************************************************************************)
EXTENDS Naturals, FiniteSets, Sequences

CONSTANTS Hex,                 \* digits and the letters a to f
          Base64,              \* what else base64url uses
          Other,               \* anything else but a dot
          refreshTokenLength,  \* 128 bytes
          apiKeyTokenLength    \* 32 digits

ASSUME CharactersAreDistinct == "." \notin Hex \cup Base64 /\ Hex \cap Base64 = {}
ASSUME LengthsArePositive == refreshTokenLength \in Nat \ {0} /\ apiKeyTokenLength \in Nat \ {0}

Kinds == {"access", "refresh", "key"}
Nothing == <<>>

-----------------------------------------------------------------------------
Texts(S, n) == [1 .. n -> S]

\* Sprintf("%x") of bytes: two digits for each, a leading zero included.
MakeRefreshToken ==
    {[i \in 1 .. refreshTokenLength * 2 |-> bytes[(i + 1) \div 2][2 - (i % 2)]] :
        bytes \in Texts(Texts(Hex, 2), refreshTokenLength)}

\* Header, claims and signature, base64url without padding.
SignedString ==
    {parts[1] \o <<".">> \o parts[2] \o <<".">> \o parts[3] :
        parts \in Texts(Texts(Hex \cup Base64, 1), 3)}

\* The text after the word, if there is a space between and it has the shape.
getTokenByRegex(h, word, matches) ==
    IF h.word = word /\ h.gap >= 1 /\ matches THEN h.text ELSE Nothing

HexDigits(s, n) == Len(s) = n /\ \A i \in DOMAIN s : s[i] \in Hex

\* Three parts, none empty, with a dot between them.
ThreeParts(s) ==
    LET dots == {i \in DOMAIN s : s[i] = "."} IN
    /\ Cardinality(dots) = 2
    /\ \A i \in DOMAIN s : s[i] \in Hex \cup Base64 \cup {"."}
    /\ \A i \in dots : i > 1 /\ i < Len(s) /\ i + 1 \notin dots

GetAPIKey(h) == getTokenByRegex(h, "ApiKey", HexDigits(h.text, apiKeyTokenLength))

\* Mutant: dots are letters like the others.
AnyParts(h) == getTokenByRegex(h, "Bearer",
    h.text # <<>> /\ \A i \in DOMAIN h.text : h.text[i] \in Hex \cup Base64 \cup {"."})

GetAccessToken(h) == getTokenByRegex(h, "Bearer", ThreeParts(h.text))

\* Mutant: bytes taken for digits.
HalfAToken(h) == getTokenByRegex(h, "Bearer", HexDigits(h.text, refreshTokenLength))

GetRefreshToken(h) == getTokenByRegex(h, "Bearer", HexDigits(h.text, refreshTokenLength * 2))

\* What each getter makes of a header.
Getters(h) == [k \in Kinds |-> CASE k = "access"  -> GetAccessToken(h)
                                 [] k = "refresh" -> GetRefreshToken(h)
                                 [] k = "key"     -> GetAPIKey(h)]
=============================================================================
