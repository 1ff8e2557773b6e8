---------------------------- MODULE RequestInputs ----------------------------
(***************************************************************************)
(* What clients may write into a request, and what the server makes of it: *)
(* the text of a chirp, or a header with a token the server gave out or    *)
(* with anything else. The two are read by different code and kept for     *)
(* nobody, so a behaviour here is one request, looked at for its text or   *)
(* for its header.                                                         *)
(***************************************************************************)
EXTENDS ChirpFilter, AuthHeaders, SequencesExt

CONSTANTS MaxTyped,   \* bound of the model: the longest text of a chirp
          MaxText     \* bound of the model: the longest text of a header

ASSUME LongestAreNatural == MaxTyped \in Nat /\ MaxText \in Nat

VARIABLES body,    \* the text a client sent
          status,  \* 0 before it was sent, then 400 or 201
          stored,  \* the text handed to CreateChirp
          given,   \* a token the client has, and its kind
          header,  \* what the client sent
          read     \* kind -> what the getter of that kind returned

text      == <<body, status, stored>>
tokens    == <<given, header, read>>
inputVars == <<text, tokens>>

NoToken  == [kind |-> "none", text |-> Nothing]
NoHeader == [word |-> "", gap |-> 0, text |-> <<>>]

InputInit ==
    /\ body = <<>> /\ status = 0 /\ stored = <<>>
    /\ given = NoToken /\ header = NoHeader
    /\ read = [k \in Kinds |-> Nothing]

\* withValidBody answers 400; otherwise the filtered text goes to the repository.
Post ==
    /\ status = 0 /\ given = NoToken /\ header = NoHeader
    /\ \E s \in BoundedSeq(Char, MaxTyped) :
          /\ body' = s
          /\ \/ Validate(s) /\ status' = 201 /\ stored' = FilterChirp(s)
             \/ ~Validate(s) /\ status' = 400 /\ stored' = <<>>
    /\ UNCHANGED tokens

\* Any text with the characters of the header model.
Typed == BoundedSeq(Hex \cup Base64 \cup Other \cup {"."}, MaxText)

\* A login, or POLKA_KEY from the environment, whose shape nobody checks.
Obtain ==
    /\ status = 0 /\ given = NoToken /\ header = NoHeader
    /\ \/ \E t \in SignedString : given' = [kind |-> "access", text |-> t]
       \/ \E t \in MakeRefreshToken : given' = [kind |-> "refresh", text |-> t]
       \/ \E t \in Typed : given' = [kind |-> "key", text |-> t]
    /\ UNCHANGED <<header, read, text>>

\* The token that was given, after any first word, or anything without one;
\* what is read depends on the header alone.
Send ==
    /\ status = 0 /\ header = NoHeader
    /\ \E t \in IF given = NoToken THEN Typed ELSE {given.text},
          word \in {"Bearer", "ApiKey", ""}, gap \in 0 .. 2 :
          header' = [word |-> word, gap |-> gap, text |-> t]
    /\ read' = Getters(header')
    /\ UNCHANGED <<given, text>>

InputNext == Post \/ Obtain \/ Send

InputSpec == InputInit /\ [][InputNext]_inputVars

-----------------------------------------------------------------------------
(***************************************************************************)
(* No stored chirp has a bad word, whatever its case. Truncation could     *)
(* undo this, by cutting a longer word down to a bad one.                  *)
(***************************************************************************)
NoBadWord == ~HasBadWord(stored)

(***************************************************************************)
(* An accepted chirp loses nothing but its bad words: as many spaces as    *)
(* were sent, and no character at the end falls to truncateChirp, because  *)
(* Validate counts bytes, which are at least as many as the characters,    *)
(* and the mask is not longer than any word it covers.                     *)
(***************************************************************************)
NothingLost ==
    status = 201 =>
        /\ Spaces(stored) = Spaces(body)
        /\ stored = Masked(body)
        /\ FilterChirp(stored) = stored

(***************************************************************************)
(* What the server hands out it takes back: a token sent unchanged after   *)
(* the word of its kind is read as the same token, whatever its digits. A  *)
(* POLKA_KEY is taken back if and only if it has 32 hexadecimal digits;    *)
(* with any other the webhook turns its own provider away.                 *)
(***************************************************************************)
Word(kind) == IF kind = "key" THEN "ApiKey" ELSE "Bearer"

TokensReturn ==
    given.kind \in Kinds /\ header.gap >= 1
        /\ header.word = Word(given.kind) /\ header.text = given.text
    => read[given.kind] = IF given.kind = "key" /\ ~HexDigits(given.text, apiKeyTokenLength)
                          THEN Nothing ELSE given.text

(***************************************************************************)
(* No header is a token of two kinds: a refresh token, which lives sixty   *)
(* days and can be revoked, is never taken for an access token, nor the    *)
(* other way round.                                                        *)
(***************************************************************************)
OneKind == Cardinality({k \in Kinds : read[k] # Nothing}) <= 1
=============================================================================
