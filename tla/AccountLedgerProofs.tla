------------------------ MODULE AccountLedgerProofs ------------------------
(***************************************************************************)
(* What the ledger of accounts is worth: nothing is open and gone at once, *)
(* no item outlives its account, and what a caller was told is over stays  *)
(* over. Whatever implements AccountLedger inherits this.                  *)
(***************************************************************************)
EXTENDS AccountLedger, TLAPS

\* TypeOK but for "confirmed", whose type follows from what is confirmed.
BooksTypeOK ==
    /\ accounts \subseteq [id : Account, email : Email]
    /\ items \subseteq [id : Item, user : Account]
    /\ revoked \subseteq Item
    /\ past \subseteq Account \cup Item

\* Ids are keys of items, and only items that exist are revoked.
Keyed == /\ \A i, j \in items : i.id = j.id => i = j
         /\ revoked \subseteq Ids(items)

Books == BooksTypeOK /\ Keyed /\ LedgerHolds

\* What is gone stays gone; what is revoked stays so until it is gone.
OverStaysOver == past \cup revoked \subseteq past' \cup revoked'

\* The inductive invariant.
LInv == Books /\ confirmed \subseteq past \cup revoked

\* An account is opened under an id and an address that are free.
LEMMA OpenKeeps ==
    ASSUME Books, Account \cap Item = {}, NEW a \in Account, NEW e \in Email, Open(a, e)
    PROVE  Books' /\ OverStaysOver
<1>. DEFINE n == [id |-> a, email |-> e]
<1>1. /\ accounts' = accounts \cup {n} /\ n.id = a /\ n.email = e
      /\ n \in [id : Account, email : Email]
      /\ items' = items /\ revoked' = revoked /\ past' = past
      /\ a \notin Ids(accounts) \cup past /\ \A x \in accounts : x.email # e
  BY DEF Open
<1>. HIDE DEF n
<1>2. BooksTypeOK' /\ Keyed' /\ OverStaysOver
  BY <1>1 DEF Books, BooksTypeOK, Keyed, OverStaysOver, Ids
<1>3. Ids(accounts)' = Ids(accounts) \cup {a} /\ Ids(items)' = Ids(items)
  BY <1>1 DEF Ids
<1>4. LedgerHolds'
  BY <1>1, <1>3 DEF Books, LedgerHolds
<1>. QED BY <1>2, <1>4 DEF Books

\* An account that moves keeps its id.
LEMMA MoveKeeps ==
    ASSUME Books, NEW a \in Account, NEW e \in Email, Move(a, e)
    PROVE  Books' /\ OverStaysOver
<1>. DEFINE moved(x) == IF x.id = a THEN [id |-> a, email |-> e] ELSE x
<1>1. /\ accounts' = {moved(x) : x \in accounts}
      /\ items' = items /\ revoked' = revoked /\ past' = past
      /\ \A x \in accounts : x.email # e
  BY DEF Move
<1>2. \A x \in accounts : /\ moved(x).id = x.id /\ moved(x) \in [id : Account, email : Email]
                          /\ moved(x).email = IF x.id = a THEN e ELSE x.email
  BY DEF Books, BooksTypeOK
<1>3. \A x, y \in accounts : x.id = a /\ y.id = a => moved(x) = moved(y)
  OBVIOUS
<1>4. \A x \in accounts : x.id # a => moved(x) = x
  OBVIOUS
<1>. HIDE DEF moved
<1>5. BooksTypeOK' /\ Keyed' /\ OverStaysOver
  BY <1>1, <1>2 DEF Books, BooksTypeOK, Keyed, OverStaysOver, Ids
<1>6. Ids(accounts)' = Ids(accounts) /\ Ids(items)' = Ids(items)
  BY <1>1, <1>2 DEF Ids
<1>7. \A x, y \in accounts : moved(x).email = moved(y).email => moved(x) = moved(y)
  BY <1>1, <1>2, <1>3, <1>4 DEF Books, LedgerHolds
<1>8. \A x, y \in accounts' : x.email = y.email => x = y
  BY <1>1, <1>7
<1>9. LedgerHolds'
  BY <1>1, <1>6, <1>8 DEF Books, LedgerHolds
<1>. QED BY <1>5, <1>9 DEF Books

\* Accounts take what they own with them.
LEMMA CloseKeeps ==
    ASSUME Books, Account \cap Item = {}, NEW S \in SUBSET Account, Close(S)
    PROVE  Books' /\ OverStaysOver
<1>. DEFINE owned == {i \in items : i.user \in S}
<1>1. /\ accounts' = {x \in accounts : x.id \notin S}
      /\ items' = {i \in items : i.user \notin S}
      /\ past' = past \cup (S \cap Ids(accounts)) \cup Ids(owned)
      /\ revoked' = revoked \cap Ids(items')
  BY DEF Close
<1>2. /\ \A x : x \in Ids(accounts)' <=> x \in Ids(accounts) /\ x \notin S
      /\ \A x : x \in Ids(items) <=> x \in Ids(items)' \/ x \in Ids(owned)
      /\ \A x : x \in Ids(items)' => x \notin Ids(owned)
  BY <1>1 DEF Ids, Books, Keyed
<1>3. Ids(items) \subseteq Item /\ Ids(accounts) \subseteq Account
  BY DEF Books, BooksTypeOK, Ids
<1>4. \A i \in items' : i.user \in Ids(accounts)'
  BY <1>1, <1>2 DEF Books, LedgerHolds
<1>. HIDE DEF owned
<1>5. BooksTypeOK'
  BY <1>1, <1>2, <1>3 DEF Books, BooksTypeOK
<1>6. Keyed' /\ OverStaysOver
  BY <1>1, <1>2 DEF Books, Keyed, OverStaysOver
<1>7. (Ids(accounts)' \cup Ids(items)') \cap past' = {}
  BY <1>1, <1>2, <1>3 DEF Books, LedgerHolds
<1>8. LedgerHolds'
  BY <1>1, <1>4, <1>7 DEF Books, LedgerHolds
<1>. QED BY <1>5, <1>6, <1>8 DEF Books

\* An item is attached under an id that is free.
LEMMA AttachKeeps ==
    ASSUME Books, NEW i \in Item, NEW a \in Account, Attach(i, a)
    PROVE  Books' /\ OverStaysOver
<1>. DEFINE n == [id |-> i, user |-> a]
<1>1. /\ items' = items \cup {n} /\ n.id = i /\ n.user = a
      /\ n \in [id : Item, user : Account]
      /\ accounts' = accounts /\ revoked' = revoked /\ past' = past
      /\ a \in Ids(accounts) /\ i \notin Ids(items) \cup past
  BY DEF Attach
<1>. HIDE DEF n
<1>2. BooksTypeOK' /\ Keyed' /\ OverStaysOver
  BY <1>1 DEF Books, BooksTypeOK, Keyed, OverStaysOver, Ids
<1>3. Ids(items)' = Ids(items) \cup {i} /\ Ids(accounts)' = Ids(accounts)
  BY <1>1 DEF Ids
<1>4. LedgerHolds'
  BY <1>1, <1>3 DEF Books, LedgerHolds
<1>. QED BY <1>2, <1>4 DEF Books

\* An item that exists is revoked.
LEMMA RevokeKeeps ==
    ASSUME Books, NEW i \in Item, Revoke(i)
    PROVE  Books' /\ OverStaysOver
BY DEF Revoke, Books, BooksTypeOK, Keyed, LedgerHolds, OverStaysOver, Ids

\* Items go, whoever owned them.
LEMMA DetachKeeps ==
    ASSUME Books, Account \cap Item = {}, NEW S \in SUBSET Item, Detach(S)
    PROVE  Books' /\ OverStaysOver
<1>1. /\ items' = {i \in items : i.id \notin S} /\ past' = past \cup (S \cap Ids(items))
      /\ revoked' = revoked \ S /\ accounts' = accounts
  BY DEF Detach
<1>2. /\ \A x : x \in Ids(items)' <=> x \in Ids(items) /\ x \notin S
      /\ Ids(accounts)' = Ids(accounts)
  BY <1>1 DEF Ids
<1>3. Ids(items) \subseteq Item /\ Ids(accounts) \subseteq Account
  BY DEF Books, BooksTypeOK, Ids
<1>4. BooksTypeOK' /\ Keyed' /\ OverStaysOver
  BY <1>1, <1>2, <1>3 DEF Books, BooksTypeOK, Keyed, OverStaysOver
<1>5. /\ (Ids(accounts)' \cup Ids(items)') \cap past' = {}
      /\ \A i \in items' : i.user \in Ids(accounts)'
  <2>1. Ids(accounts) \cap S = {} \/ ~(S \subseteq Item) \/ Account \cap Item # {}
    BY <1>3
  <2>. QED BY <1>1, <1>2, <1>3, <2>1 DEF Books, LedgerHolds
<1>6. LedgerHolds'
  BY <1>1, <1>5 DEF Books, LedgerHolds
<1>. QED BY <1>4, <1>6 DEF Books

\* Every step of the ledger keeps it sound.
LEMMA StepKeeps ==
    ASSUME Books, Account \cap Item = {}, Step
    PROVE  Books' /\ OverStaysOver
<1>1. CASE UNCHANGED <<accounts, items, revoked, past>>
  BY <1>1 DEF Books, BooksTypeOK, Keyed, LedgerHolds, OverStaysOver, Ids
<1>2. CASE \E a \in Account, e \in Email : Open(a, e) \/ Move(a, e)
  BY <1>2, OpenKeeps, MoveKeeps
<1>3. CASE \E S \in SUBSET Account : Close(S)
  BY <1>3, CloseKeeps
<1>4. CASE \E i \in Item, a \in Account : Attach(i, a)
  BY <1>4, AttachKeeps
<1>5. CASE \E i \in Item : Revoke(i)
  BY <1>5, RevokeKeeps
<1>6. CASE \E S \in SUBSET Item : Detach(S)
  BY <1>6, DetachKeeps
<1>. QED BY <1>1, <1>2, <1>3, <1>4, <1>5, <1>6 DEF Step

\* And so nothing a caller was told of is ever taken back.
LEMMA LInvStep ==
    ASSUME LInv, Account \cap Item = {}, [Next]_vars
    PROVE  LInv'
<1>1. CASE Next
  <2>1. Books' /\ OverStaysOver
    BY <1>1, StepKeeps DEF Next, LInv
  <2>. QED BY <1>1, <2>1 DEF Next, Confirm, LInv, OverStaysOver
<1>2. CASE UNCHANGED vars
  BY <1>2 DEF vars, LInv, Books, BooksTypeOK, Keyed, LedgerHolds, Ids
<1>. QED BY <1>1, <1>2

(***************************************************************************)
(* What the ledger promises: no id is open and gone at once, no item       *)
(* outlives its account, an address has one account; and what a caller was *)
(* told is over is gone, or is a revoked item.                             *)
(***************************************************************************)
THEOREM LedgerPromises ==
    ASSUME Account \cap Item = {}
    PROVE  Spec => [](TypeOK /\ LedgerHolds /\ ConfirmedIsOver)
<1>1. Init => LInv
  BY DEF Init, LInv, Books, BooksTypeOK, Keyed, LedgerHolds, Ids
<1>2. LInv /\ [Next]_vars => LInv'
  BY LInvStep
<1>3. LInv => TypeOK /\ LedgerHolds /\ ConfirmedIsOver
  BY DEF LInv, Books, BooksTypeOK, Keyed, TypeOK, ConfirmedIsOver
<1>. QED BY <1>1, <1>2, <1>3, PTL DEF Spec
=============================================================================
