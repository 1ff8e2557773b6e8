------------------------- MODULE ChirpListingProofs -------------------------
(***************************************************************************)
(* Why a listing shows a reply after what it answers, for any number of    *)
(* chirps, authors and requests: the reply took its time from the clock    *)
(* after the other chirp had been inserted with an earlier one or the      *)
(* same, although the INSERTs of requests that overlap come in any order.  *)
(***************************************************************************)
EXTENDS ChirpListing, FiniteSetTheorems, TLAPS

Row == [id : ChirpID, user : Author, created : Nat]

Frame ==
    {Idle}
    \cup [at : {"stamp"}, user : Author, prior : SUBSET ChirpID]
    \cup [at : {"insert"}, user : Author, prior : SUBSET ChirpID, created : Nat]

TypesOK ==
    /\ now \in Nat
    /\ chirps \subseteq Row /\ IsFiniteSet(chirps)
    /\ spent \subseteq ChirpID
    /\ post \in [Poster -> Frame]

\* An id is one chirp's, and known to be; the clock does not go back.
RowsOK ==
    /\ \A c \in chirps : c.id \in spent /\ c.created <= now
    /\ \A c, d \in chirps : c.id = d.id => c = d

\* What had been answered when a request came in exists or existed, and is not
\* later than the time the request took.
FrameOK(f, cs, sp, time) ==
    /\ f.at \in {"stamp", "insert"} => f.prior \subseteq sp
    /\ f.at = "insert" =>
          /\ f.created <= time
          /\ \A c \in cs : c.id \in f.prior => c.created <= f.created

FramesOK == \A p \in Poster : FrameOK(post[p], chirps, spent, now)

\* The times of the chirps agree with the history.
TimesAgree ==
    /\ before \subseteq spent \X spent
    /\ \A a, b \in chirps : <<a.id, b.id>> \in before => a.created <= b.created

IInv == TypesOK /\ RowsOK /\ FramesOK /\ TimesAgree

-----------------------------------------------------------------------------
\* Most steps only move one request, or take chirps away.
LEMMA FewerChirps ==
    ASSUME RowsOK, TimesAgree, chirps' \subseteq chirps, now \in Nat, now' \in {now, now + 1},
           chirps \subseteq Row, UNCHANGED <<spent, before>>
    PROVE  RowsOK' /\ TimesAgree'
<1>1. \A c \in chirps : c.created \in Nat
  BY DEF Row
<1>. QED BY <1>1 DEF RowsOK, TimesAgree

LEMMA FrameLasts ==
    ASSUME NEW f \in Frame, FrameOK(f, chirps, spent, now), chirps' \subseteq chirps, spent \subseteq spent',
           now \in Nat, now' \in {now, now + 1}
    PROVE  FrameOK(f, chirps', spent', now')
<1>1. f.at = "insert" => f.created \in Nat
  BY DEF Frame, Idle
<1>. QED BY <1>1 DEF FrameOK

LEMMA IdleIsOK == Idle \in Frame /\ \A cs, sp, time : FrameOK(Idle, cs, sp, time)
BY DEF FrameOK, Idle, Frame

LEMMA ArriveKeeps ==
    ASSUME IInv, NEW p \in Poster, Arrive(p) PROVE IInv'
<1>. UNCHANGED <<now, users, chirps, spent, before>>
  BY DEF Arrive
<1>1. PICK u \in Author : post' = [post EXCEPT ![p] = [at |-> "stamp", user |-> u, prior |-> spent]]
  BY DEF Arrive
<1>. DEFINE f == [at |-> "stamp", user |-> u, prior |-> spent]
<1>2. f \in Frame /\ FrameOK(f, chirps', spent', now')
  BY DEF IInv, TypesOK, Frame, FrameOK
<1>3. post' = [post EXCEPT ![p] = f]
  BY <1>1
<1>. HIDE DEF f
<1>4. TypesOK'
  BY <1>2, <1>3 DEF IInv, TypesOK
<1>5. RowsOK' /\ TimesAgree'
  BY DEF IInv, RowsOK, TimesAgree
<1>6. FramesOK'
  BY <1>2, <1>3 DEF IInv, TypesOK, FramesOK, FrameOK
<1>. QED BY <1>4, <1>5, <1>6 DEF IInv

\* The time is taken now: after every chirp there is, so after all the request
\* can be a reply to.
LEMMA StampKeeps ==
    ASSUME IInv, NEW p \in Poster, StampAndFind(p) PROVE IInv'
<1>. UNCHANGED <<now, users, chirps, spent, before>>
  BY DEF StampAndFind
<1>1. post[p] \in Frame /\ post[p].at = "stamp" /\ FrameOK(post[p], chirps, spent, now)
  BY DEF IInv, TypesOK, FramesOK, StampAndFind
<1>2. post[p].user \in Author /\ post[p].prior \in SUBSET ChirpID
  BY <1>1 DEF Frame, Idle
<1>. DEFINE f == [at |-> "insert", user |-> post[p].user, prior |-> post[p].prior, created |-> now]
<1>3. f \in Frame
  BY <1>2 DEF IInv, TypesOK, Frame
<1>4. FrameOK(f, chirps', spent', now')
  <2>1. /\ f.at = "insert" /\ f.created = now /\ f.prior = post[p].prior
        /\ \A c \in chirps : c.created <= now
        /\ now \in Nat
    BY DEF IInv, TypesOK, RowsOK
  <2>2. f.prior \subseteq spent
    BY <1>1, <2>1 DEF FrameOK
  <2>. HIDE DEF f
  <2>. QED BY <2>1, <2>2 DEF FrameOK
<1>5. post' = [post EXCEPT ![p] = f] \/ post' = [post EXCEPT ![p] = Idle]
  BY DEF StampAndFind
<1>. HIDE DEF f
<1>6. TypesOK'
  BY <1>3, <1>5, IdleIsOK DEF IInv, TypesOK
<1>7. RowsOK' /\ TimesAgree'
  BY DEF IInv, RowsOK, TimesAgree
<1>8. FramesOK'
  BY <1>4, <1>5, IdleIsOK DEF IInv, TypesOK, FramesOK, FrameOK
<1>. QED BY <1>6, <1>7, <1>8 DEF IInv

\* The INSERT of a chirp under an id that nobody has seen yet.
LEMMA InsertKeeps ==
    ASSUME IInv, NEW p \in Poster, InsertChirp(p) PROVE IInv'
<1>1. /\ post[p] \in Frame /\ post[p].at = "insert" /\ FrameOK(post[p], chirps, spent, now)
      /\ post' = [post EXCEPT ![p] = Idle] /\ UNCHANGED now
  BY DEF IInv, TypesOK, FramesOK, InsertChirp
<1>2. post[p].user \in Author /\ post[p].created \in Nat
  BY <1>1 DEF Frame, Idle
<1>3. post' \in [Poster -> Frame]
  BY <1>1, IdleIsOK DEF IInv, TypesOK
<1>4. CASE UNCHANGED <<chirps, spent, before>>
  <2>1. TypesOK' /\ RowsOK' /\ TimesAgree'
    BY <1>1, <1>3, <1>4 DEF IInv, TypesOK, RowsOK, TimesAgree
  <2>2. FramesOK'
    BY <1>1, <1>4, IdleIsOK DEF IInv, TypesOK, FramesOK, FrameOK
  <2>. QED BY <2>1, <2>2 DEF IInv
<1>5. ASSUME NEW id \in ChirpID \ spent,
             chirps' = chirps \cup {[id |-> id, user |-> post[p].user, created |-> post[p].created]},
             spent' = spent \cup {id},
             before' = before \cup {<<a, id>> : a \in post[p].prior}
      PROVE  IInv'
  <2>. DEFINE new == [id |-> id, user |-> post[p].user, created |-> post[p].created]
  <2>1. new \in Row /\ new.id = id /\ new.created = post[p].created
    BY <1>2, <1>5 DEF Row
  <2>2. chirps' = chirps \cup {new}
    BY <1>5
  <2>. HIDE DEF new
  <2>3. /\ \A c \in chirps : c.id \in spent /\ c.id # id /\ c.created \in Nat
        /\ id \notin post[p].prior /\ post[p].prior \subseteq spent
        /\ new.created <= now
        /\ \A c \in chirps : c.id \in post[p].prior => c.created <= new.created
    BY <1>1, <1>5, <2>1 DEF IInv, TypesOK, RowsOK, FrameOK, Row
  <2>4. TypesOK'
    <3>1. IsFiniteSet(chirps')
      BY <2>2, FS_AddElement DEF IInv, TypesOK
    <3>. QED BY <1>1, <1>3, <1>5, <2>1, <2>2, <3>1 DEF IInv, TypesOK
  <2>5. RowsOK'
    BY <1>1, <1>5, <2>1, <2>2, <2>3 DEF IInv, RowsOK
  <2>6. FramesOK'
    <3>1. ASSUME NEW q \in Poster, q # p PROVE FrameOK(post'[q], chirps', spent', now')
      <4>1. post'[q] = post[q] /\ FrameOK(post[q], chirps, spent, now)
        BY <1>1, <3>1 DEF IInv, TypesOK, FramesOK
      <4>2. post[q].at = "insert" => id \notin post[q].prior
        BY <1>5, <4>1 DEF FrameOK
      <4>. QED BY <1>1, <1>5, <2>1, <2>2, <4>1, <4>2 DEF FrameOK
    <3>2. FrameOK(post'[p], chirps', spent', now')
      BY <1>1, IdleIsOK DEF IInv, TypesOK, FrameOK
    <3>. QED BY <3>1, <3>2 DEF FramesOK, FrameOK
  <2>7. TimesAgree'
    <3>1. before' \subseteq spent' \X spent'
      BY <1>5, <2>3 DEF IInv, TimesAgree
    <3>2. ASSUME NEW a \in chirps', NEW b \in chirps', <<a.id, b.id>> \in before'
          PROVE  a.created <= b.created
      <4>1. CASE <<a.id, b.id>> \in before
        <5>1. a.id # id /\ b.id # id
          BY <1>5, <4>1 DEF IInv, TimesAgree
        <5>. QED BY <2>1, <2>2, <3>2, <4>1, <5>1 DEF IInv, TimesAgree
      <4>2. CASE b.id = id /\ a.id \in post[p].prior
        <5>1. b = new /\ a \in chirps
          BY <2>1, <2>2, <2>3, <3>2, <4>2
        <5>. QED BY <2>3, <4>2, <5>1
      <4>. QED BY <1>5, <3>2, <4>1, <4>2
    <3>. QED BY <3>1, <3>2 DEF TimesAgree
  <2>. QED BY <2>4, <2>5, <2>6, <2>7 DEF IInv
<1>. QED BY <1>4, <1>5 DEF InsertChirp

\* Chirps go, or time goes on.
LEMMA OthersKeep ==
    ASSUME IInv, DeleteChirp \/ DeleteAuthor \/ handleGetChirps \/ Tick \/ UNCHANGED vars
    PROVE  IInv'
<1>1. /\ chirps' \subseteq chirps /\ now' \in {now, now + 1} /\ now' \in Nat
      /\ UNCHANGED <<spent, post, before>>
  BY DEF DeleteChirp, DeleteAuthor, handleGetChirps, Tick, vars, IInv, TypesOK
<1>2. TypesOK'
  <2>1. IsFiniteSet(chirps')
    BY <1>1, FS_Subset DEF IInv, TypesOK
  <2>. QED BY <1>1, <2>1 DEF IInv, TypesOK
<1>3. RowsOK' /\ TimesAgree'
  BY <1>1, FewerChirps DEF IInv, TypesOK
<1>4. FramesOK'
  BY <1>1, FrameLasts DEF IInv, TypesOK, FramesOK
<1>. QED BY <1>2, <1>3, <1>4 DEF IInv

LEMMA InvariantHolds == Spec => []IInv
<1>1. Init => IInv
  <2>. SUFFICES ASSUME Init PROVE IInv
    OBVIOUS
  <2>1. TypesOK
    BY IdleIsOK, FS_EmptySet DEF Init, TypesOK
  <2>2. RowsOK /\ TimesAgree
    BY DEF Init, RowsOK, TimesAgree
  <2>3. FramesOK
    BY IdleIsOK DEF Init, FramesOK
  <2>. QED BY <2>1, <2>2, <2>3 DEF IInv
<1>2. IInv /\ [Next]_vars => IInv'
  BY ArriveKeeps, StampKeeps, InsertKeeps, OthersKeep DEF Next
<1>. QED BY <1>1, <1>2, PTL DEF Spec

-----------------------------------------------------------------------------
\* A listing in the order of the times has replies on the right side.
LEMMA ListingFollows ==
    ASSUME IInv, handleGetChirps PROVE RepliesFollow'
<1>1. PICK wanted \in {Author} \cup {{u} : u \in Author}, sort \in {"asc", "desc"} :
         \E rows \in SetToSeqs({c \in chirps : c.user \in wanted}) :
            /\ IF sort = "desc" THEN SortedDescending(rows) ELSE OrderedByCreatedAt(rows)
            /\ listing' = [sort |-> sort, rows |-> rows]
  BY DEF handleGetChirps
<1>. DEFINE found == {c \in chirps : c.user \in wanted}
<1>2. PICK rows \in SetToSeqs(found) :
            /\ IF sort = "desc" THEN SortedDescending(rows) ELSE OrderedByCreatedAt(rows)
            /\ listing' = [sort |-> sort, rows |-> rows]
  BY <1>1
<1>3. found \subseteq chirps /\ Cardinality(found) \in Nat
  BY FS_Subset, FS_CardinalityType DEF IInv, TypesOK
<1>. HIDE DEF found
<1>4. /\ DOMAIN rows \subseteq Nat
      /\ \A i \in DOMAIN rows : rows[i] \in chirps
  BY <1>3 DEF SetToSeqs
<1>5. ASSUME NEW i \in DOMAIN rows, NEW j \in DOMAIN rows, Precedes(rows[i], rows[j])'
      PROVE  IF sort = "asc" THEN i < j ELSE j < i
  <2>1. before' = before
    BY DEF handleGetChirps
  <2>2. /\ rows[i].created <= rows[j].created /\ rows[i].created # rows[j].created
        /\ rows[i].created \in Nat /\ rows[j].created \in Nat /\ i \in Nat /\ j \in Nat
    BY <1>4, <1>5, <2>1 DEF Precedes, IInv, TypesOK, TimesAgree, Row
  <2>3. i # j
    BY <2>2
  <2>4. CASE sort = "asc"
    <3>1. j < i => rows[j].created <= rows[i].created
      BY <1>2, <2>4 DEF OrderedByCreatedAt
    <3>. QED BY <2>2, <2>3, <2>4, <3>1
  <2>5. CASE sort = "desc"
    <3>1. i < j => rows[i].created >= rows[j].created
      BY <1>2, <2>5 DEF SortedDescending
    <3>. QED BY <2>2, <2>3, <2>5, <3>1
  <2>. QED BY <2>4, <2>5
<1>6. listing'.rows = rows /\ listing'.sort = sort
  BY <1>2
<1>. QED BY <1>5, <1>6 DEF RepliesFollow

(***************************************************************************)
(* No listing, in either direction and whatever was deleted meanwhile,     *)
(* puts a reply on the wrong side of the chirp it answers, unless both     *)
(* carry the same microsecond.                                             *)
(***************************************************************************)
THEOREM RepliesFollowCorrect == Spec => []RepliesFollow
<1>1. ASSUME listing = NoListing PROVE RepliesFollow
  BY <1>1 DEF NoListing, RepliesFollow
<1>2. ASSUME listing' = NoListing PROVE RepliesFollow'
  BY <1>2 DEF NoListing, RepliesFollow
<1>3. Init => RepliesFollow
  BY <1>1 DEF Init
<1>4. IInv /\ RepliesFollow /\ [Next]_vars => RepliesFollow'
  <2>. SUFFICES ASSUME IInv, RepliesFollow, [Next]_vars PROVE RepliesFollow'
    OBVIOUS
  <2>1. CASE handleGetChirps
    BY <2>1, ListingFollows
  <2>2. CASE UNCHANGED vars
    BY <2>2 DEF vars, RepliesFollow, Precedes
  <2>3. CASE listing' = NoListing
    BY <1>2, <2>3
  <2>. QED BY <2>1, <2>2, <2>3 DEF Next, Arrive, StampAndFind, InsertChirp, DeleteChirp,
                                  DeleteAuthor, Tick
<1>. QED BY <1>3, <1>4, InvariantHolds, PTL DEF Spec
=============================================================================
