---------------------------- MODULE ChirpFilter ----------------------------
(***************************************************************************)
(* What happens to the text of a chirp: ChirpParams.Validate in            *)
(* internal/httpapi, then FilterChirp and truncateChirp in internal/domain.*)
(* A text is a sequence of characters (Go's runes); a character has a      *)
(* width in bytes and a lower case, which may be narrower than itself (the *)
(* Kelvin sign has three bytes, the k it lowers to has one).               *)
(***************************************************************************)
EXTENDS Naturals, FiniteSets, Sequences

CONSTANTS Char, Space,
          Width,      \* bytes of each character in UTF-8
          Lower,      \* unicode.ToLower of each character
          BadWords,   \* "sharbert", "kerfuffle", "fornax"
          Mask,       \* "****"
          MaxBytes,   \* 140 in Validate
          MaxRunes    \* 140 in FilterChirp

ASSUME CharactersAreSane ==
    /\ Space \in Char /\ Lower \in [Char -> Char] /\ Width \in [Char -> Nat \ {0}]
    /\ \A c \in Char : Lower[c] = Space <=> c = Space
ASSUME BadWordsAreSane ==
    /\ BadWords \subseteq Seq(Char \ {Space}) /\ Mask \in Seq(Char \ {Space}) \ BadWords
    /\ \A w \in BadWords : Len(w) >= Len(Mask) /\ \A i \in DOMAIN w : Lower[w[i]] = w[i]
    /\ \A i \in DOMAIN Mask : Lower[Mask[i]] = Mask[i]
ASSUME LimitsAgree == MaxBytes \in Nat /\ MaxRunes \in Nat /\ MaxBytes <= MaxRunes

-----------------------------------------------------------------------------
\* len(s) of a Go string counts bytes.
Bytes(s) ==
    LET upTo[n \in 0 .. Len(s)] == IF n = 0 THEN 0 ELSE upTo[n - 1] + Width[s[n]]
    IN upTo[Len(s)]

\* Mutant: texts of any length pass.
NotEmpty(s) == Len(s) >= 1

Validate(s) == Bytes(s) >= 1 /\ Bytes(s) <= MaxBytes

ToLower(s) == [i \in DOMAIN s |-> Lower[s[i]]]

Extend(ws, c) == [ws EXCEPT ![Len(ws)] = Append(@, c)]

\* strings.Split(s, " ") and strings.Join(ws, " "): words may be empty.
Split(s) ==
    LET upTo[n \in 0 .. Len(s)] ==
          IF n = 0 THEN << <<>> >>
          ELSE IF s[n] = Space THEN Append(upTo[n - 1], <<>>) ELSE Extend(upTo[n - 1], s[n])
    IN upTo[Len(s)]
Join(ws) ==
    LET spaces[n \in 0 .. Len(ws) - 1] ==
          IF n = 0 THEN ws[1] ELSE spaces[n - 1] \o <<Space>> \o ws[n + 1]
    IN spaces[Len(ws) - 1]

truncateChirp(s, maxLength) == IF Len(s) > maxLength THEN SubSeq(s, 1, maxLength) ELSE s

\* Mutant: words are compared as they were typed.
MaskedAsTyped(s) ==
    LET words == Split(s)
    IN Join([i \in DOMAIN words |-> IF words[i] \in BadWords THEN Mask ELSE words[i]])

Masked(s) ==
    LET words == Split(ToLower(s))  upperWords == Split(s)
    IN Join([i \in DOMAIN upperWords |-> IF words[i] \in BadWords THEN Mask ELSE upperWords[i]])

FilterChirp(s) == truncateChirp(Masked(s), MaxRunes)

-----------------------------------------------------------------------------
\* Words as readers see them: runs of characters between spaces and the ends.
IsWord(s, i, j) ==
    /\ i = 1 \/ s[i - 1] = Space
    /\ j = Len(s) \/ s[j + 1] = Space
    /\ \A k \in i .. j : s[k] # Space

HasBadWord(s) ==
    \E i, j \in DOMAIN s : i <= j /\ IsWord(s, i, j) /\ ToLower(SubSeq(s, i, j)) \in BadWords

Spaces(s) == Cardinality({i \in DOMAIN s : s[i] = Space})
=============================================================================
