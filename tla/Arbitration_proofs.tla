------------------------- MODULE Arbitration_proofs -------------------------
(***************************************************************************)
(* Facts about the arbitration rule for every claim map the arbiter can    *)
(* hold, cited by the proofs about ControlArbiter and CommandPipeline.     *)
(***************************************************************************)
EXTENDS Arbitration, FiniteSetTheorems, TLAPS

-----------------------------------------------------------------------------
(* Lemmas about the sort order and about the sets it selects.              *)

(* A strict order on a finite nonempty set has a minimal element.          *)
LEMMA FiniteMinimal ==
  ASSUME NEW S, IsFiniteSet(S), S # {}, NEW R,
         \A x \in S : <<x, x>> \notin R,
         \A x, y, z \in S : <<x, y>> \in R /\ <<y, z>> \in R => <<x, z>> \in R
  PROVE  \E x \in S : \A y \in S : <<y, x>> \notin R
<1> DEFINE HasMinimal(T) == \E x \in T : \A y \in T : <<y, x>> \notin R
           Bad == {T \in FiniteSubsetsOf(S) : T # {} /\ ~HasMinimal(T)}
<1>1. SUFFICES ASSUME Bad # {} PROVE FALSE
  BY FS_Subset DEF FiniteSubsetsOf
<1>2. PICK T \in Bad : \A U \in Bad : <<U, T>> \notin StrictSubsetOrdering(S)
  <2> HIDE DEF Bad
  <2>1. IsWellFoundedOn(StrictSubsetOrdering(S), FiniteSubsetsOf(S))
    BY FS_StrictSubsetOrderingWellFounded
  <2>2. Bad \subseteq FiniteSubsetsOf(S)
    BY DEF Bad
  <2>3. QED BY <1>1, <2>1, <2>2, WFMin
<1>3. T \subseteq S /\ IsFiniteSet(T) /\ T # {} /\ ~HasMinimal(T)
  BY DEF FiniteSubsetsOf
<1>4. PICK x \in T : TRUE
  BY <1>3
<1> DEFINE U == T \ {x}
<1>5. U \subseteq S /\ IsFiniteSet(U) /\ <<U, T>> \in StrictSubsetOrdering(S)
  <2>1. IsFiniteSet(U)
    BY <1>3, FS_RemoveElement
  <2>2. <<U, T>> \in StrictSubsetOrdering(S)
    BY <1>3, <1>4 DEF StrictSubsetOrdering
  <2>3. QED BY <1>3, <2>1, <2>2
<1>6. U # {} /\ HasMinimal(U)
  <2>1. U # {}
    BY <1>3, <1>4
  <2>2. U \notin Bad
    BY <1>2, <1>5
  <2>3. QED BY <1>5, <2>1, <2>2 DEF FiniteSubsetsOf
<1>7. PICK y \in U : \A z \in U : <<z, y>> \notin R
  BY <1>6
<1>8. CASE <<x, y>> \in R
  BY <1>3, <1>4, <1>7, <1>8
<1>9. CASE <<x, y>> \notin R
  BY <1>3, <1>4, <1>7, <1>9
<1>10. QED BY <1>8, <1>9

LEMMA OutranksIsStrictOrder ==
  ASSUME NEW c \in Claim, NEW d \in Claim, NEW e \in Claim
  PROVE  /\ ~Outranks(c, c)
         /\ Outranks(c, d) /\ Outranks(d, e) => Outranks(c, e)
         /\ c.receive_sequence # d.receive_sequence
              => Outranks(c, d) \/ Outranks(d, c)
  BY ArbitrationAssumption DEF Outranks, Claim

(* What the arbiter keeps its claim map to be: finitely many claims, no    *)
(* two with the same receive_sequence.                                     *)
ClaimMap(C) ==
  /\ IsFiniteSet(DOMAIN C)
  /\ C \in [DOMAIN C -> Claim]
  /\ \A s, t \in DOMAIN C :
       C[s].receive_sequence = C[t].receive_sequence => s = t

LEMMA RestrictClaimMap ==
  ASSUME NEW C, ClaimMap(C), NEW S \in SUBSET DOMAIN C
  PROVE  /\ ClaimMap(Restrict(C, S))
         /\ DOMAIN Restrict(C, S) = S
         /\ \A s \in S : Restrict(C, S)[s] = C[s]
<1>1. IsFiniteSet(S)
  BY FS_Subset DEF ClaimMap
<1>2. QED BY <1>1 DEF ClaimMap, Restrict

(* computeWinners always selects: going down the order never gets stuck.   *)
LEMMA SelectionExists ==
  ASSUME NEW C, ClaimMap(C)
  PROVE  \E W \in SUBSET DOMAIN C : IsSelection(W, C)
<1> DEFINE D == DOMAIN C
           Selects(W, S) == IsSelection(W, Restrict(C, S))
           Bad == {S \in FiniteSubsetsOf(D) : ~\E W \in SUBSET S : Selects(W, S)}
<1>0. \A S \in SUBSET D : \A W : Selects(W, S) <=>
        \A s \in S : s \in W <=>
          \A w \in W : ~(Conflict(Restrict(C, S)[w], C[s]) /\ Outranks(Restrict(C, S)[w], C[s]))
  BY RestrictClaimMap DEF IsSelection
<1>1. SUFFICES ASSUME Bad # {} PROVE FALSE
  <2>1. Restrict(C, D) = C
    BY DEF Restrict, ClaimMap
  <2>2. D \in FiniteSubsetsOf(D)
    BY FS_Subset DEF FiniteSubsetsOf, ClaimMap
  <2>3. QED BY <2>1, <2>2
<1>2. PICK S \in Bad : \A U \in Bad : <<U, S>> \notin StrictSubsetOrdering(D)
  <2> HIDE DEF Bad
  <2>1. IsWellFoundedOn(StrictSubsetOrdering(D), FiniteSubsetsOf(D))
    BY FS_StrictSubsetOrderingWellFounded
  <2>2. Bad \subseteq FiniteSubsetsOf(D)
    BY DEF Bad
  <2>3. QED BY <1>1, <2>1, <2>2, WFMin
<1>3. S \subseteq D /\ IsFiniteSet(S) /\ ~\E W \in SUBSET S : Selects(W, S)
  BY DEF FiniteSubsetsOf
<1>4. S # {}
  <2>1. SUFFICES ASSUME S = {} PROVE FALSE
    OBVIOUS
  <2>2. Selects({}, S)
    BY <1>0, <1>3, <2>1
  <2>3. QED BY <1>3, <2>2
<1>5. PICK x \in S : \A y \in S : ~Outranks(C[x], C[y])
  <2> DEFINE R == {p \in S \X S : Outranks(C[p[2]], C[p[1]])}
  <2>1. \A y \in S : C[y] \in Claim
    BY <1>3 DEF ClaimMap
  <2>2. \A y \in S : <<y, y>> \notin R
    BY <2>1, OutranksIsStrictOrder
  <2>3. \A u, v, w \in S : <<u, v>> \in R /\ <<v, w>> \in R => <<u, w>> \in R
    BY <2>1, OutranksIsStrictOrder
  <2>4. \A u, v \in S : <<u, v>> \notin R <=> ~Outranks(C[v], C[u])
    OBVIOUS
  <2> HIDE DEF R
  <2>5. PICK u \in S : \A v \in S : <<v, u>> \notin R
    BY <1>3, <1>4, <2>2, <2>3, FiniteMinimal
  <2>6. QED BY <2>4, <2>5
<1> DEFINE U == S \ {x}
<1>6. PICK W \in SUBSET U : Selects(W, U)
  <2>1. IsFiniteSet(U) /\ <<U, S>> \in StrictSubsetOrdering(D)
    BY <1>3, FS_RemoveElement DEF StrictSubsetOrdering
  <2>2. U \notin Bad
    BY <1>2, <2>1
  <2>3. QED BY <1>3, <2>1, <2>2 DEF FiniteSubsetsOf
<1> DEFINE V == IF \A w \in W : ~(Conflict(C[w], C[x]) /\ Outranks(C[w], C[x]))
                  THEN W \cup {x} ELSE W
<1> HIDE DEF Selects, Bad
<1>7. \A s \in U : s \in W <=>
        \A w \in W : ~(Conflict(C[w], C[s]) /\ Outranks(C[w], C[s]))
  <2>1. \A w \in W : Restrict(C, U)[w] = C[w]
    BY <1>3, RestrictClaimMap
  <2>2. U \in SUBSET D
    BY <1>3
  <2>3. \A s \in U : s \in W <=>
          \A w \in W : ~(Conflict(Restrict(C, U)[w], C[s]) /\ Outranks(Restrict(C, U)[w], C[s]))
    BY <1>0, <1>6, <2>2
  <2>4. QED BY <2>1, <2>3
<1>8. \A s \in S : s \in V <=>
        \A w \in V : ~(Conflict(C[w], C[s]) /\ Outranks(C[w], C[s]))
  <2>1. ~Outranks(C[x], C[x])
    BY <1>5
  <2>2. \A s \in S : s = x \/ s \in U
    OBVIOUS
  <2>3. x \notin W
    BY <1>6
  <2> HIDE DEF U
  <2>4. QED BY <1>5, <1>6, <1>7, <2>1, <2>2, <2>3
<1>9. \A w \in V : Restrict(C, S)[w] = C[w]
  BY <1>3, <1>6, RestrictClaimMap
<1>10. Selects(V, S)
  BY <1>0, <1>3, <1>8, <1>9
<1>11. QED BY <1>3, <1>6, <1>10

LEMMA WinnersAreSelected ==
  ASSUME NEW C, ClaimMap(C)
  PROVE  Winners(C) \subseteq DOMAIN C /\ IsSelection(Winners(C), C)
  BY SelectionExists DEF Winners

LEMMA ConflictIsSymmetric ==
  \A c, d : Conflict(c, d) <=> Conflict(d, c)
  BY DEF Conflict, Overlap

(* Two selected sessions share no joint: one of them would outrank the     *)
(* other and keep it from being selected.                                  *)
LEMMA SelectionDisjoint ==
  ASSUME NEW C, ClaimMap(C), NEW W \in SUBSET DOMAIN C, IsSelection(W, C),
         NEW s \in W, NEW t \in W, s # t
  PROVE  ~Conflict(C[s], C[t])
<1>1. C[s] \in Claim /\ C[t] \in Claim /\ C[s].receive_sequence # C[t].receive_sequence
  BY DEF ClaimMap
<1>2. Outranks(C[s], C[t]) \/ Outranks(C[t], C[s])
  BY <1>1, OutranksIsStrictOrder
<1>3. QED BY <1>2, ConflictIsSymmetric DEF IsSelection

(* There is one selection only, so the code's sort may be any sort.        *)
LEMMA SelectionUnique ==
  ASSUME NEW C, ClaimMap(C),
         NEW V \in SUBSET DOMAIN C, IsSelection(V, C),
         NEW W \in SUBSET DOMAIN C, IsSelection(W, C)
  PROVE  V = W
<1> DEFINE D == (V \ W) \cup (W \ V)
           R == {p \in D \X D : Outranks(C[p[1]], C[p[2]])}
<1>1. SUFFICES ASSUME D # {} PROVE FALSE
  OBVIOUS
<1>2. IsFiniteSet(D)
  BY FS_Subset DEF ClaimMap
<1>3. \A s \in D : C[s] \in Claim
  BY DEF ClaimMap
<1>4. \A s \in D : <<s, s>> \notin R
  BY <1>3, OutranksIsStrictOrder
<1>5. \A s, t, u \in D : <<s, t>> \in R /\ <<t, u>> \in R => <<s, u>> \in R
  BY <1>3, OutranksIsStrictOrder
<1>6. \A s, t \in D : <<s, t>> \notin R => ~Outranks(C[s], C[t])
  OBVIOUS
<1>7. PICK s \in D : \A t \in D : <<t, s>> \notin R
  <2> HIDE DEF R, D
  <2>1. QED BY <1>1, <1>2, <1>4, <1>5, FiniteMinimal
<1>8. \A t \in D : ~Outranks(C[t], C[s])
  BY <1>6, <1>7
<1>9. QED BY <1>8 DEF IsSelection

LEMMA WinnersUnique ==
  ASSUME NEW C, ClaimMap(C), NEW W \in SUBSET DOMAIN C, IsSelection(W, C)
  PROVE  W = Winners(C)
  BY WinnersAreSelected, SelectionUnique

-----------------------------------------------------------------------------
(* What the calls do to the claim map.                                     *)

(* The claim map after PutClaim holds the new claim and all of the old     *)
(* ones but the preempted Moves.                                           *)
PutOK(C, s, c, put) ==
  /\ ClaimMap(put.claims)
  /\ DOMAIN put.claims = (DOMAIN C \cup {s}) \ put.preempted
  /\ s \in DOMAIN put.claims => put.claims[s] = c
  /\ \A t \in DOMAIN put.claims \ {s} : put.claims[t] = C[t]

LEMMA PutClaimMap ==
  ASSUME NEW C, ClaimMap(C), NEW s, NEW c \in Claim, NEW now,
         \A t \in DOMAIN C : C[t].receive_sequence # c.receive_sequence,
         NEW put, put = PutClaim(C, s, c, now)
  PROVE  PutOK(C, s, c, put)
<1> DEFINE claimed == With(C, s, c)
           kept == (DOMAIN C \cup {s}) \ put.preempted
<1>1. put.claims = Without(claimed, put.preempted)
  BY DEF PutClaim
<1> HIDE DEF claimed
<1>2. ClaimMap(claimed) /\ DOMAIN claimed = DOMAIN C \cup {s} /\ claimed[s] = c
      /\ \A t \in DOMAIN C : t # s => claimed[t] = C[t]
  <2>1. IsFiniteSet(DOMAIN C \cup {s})
    BY FS_AddElement DEF ClaimMap
  <2>2. DOMAIN claimed = DOMAIN C \cup {s} /\ claimed[s] = c
        /\ \A t \in DOMAIN C : t # s => claimed[t] = C[t]
    BY DEF claimed, With
  <2>3. claimed \in [DOMAIN claimed -> Claim]
    BY DEF claimed, With, ClaimMap
  <2>4. QED BY <2>1, <2>2, <2>3 DEF ClaimMap
<1>3. put.claims = Restrict(claimed, kept)
  BY <1>1, <1>2 DEF Without
<1>4. kept \in SUBSET DOMAIN claimed
  BY <1>2
<1>5. ClaimMap(put.claims) /\ DOMAIN put.claims = kept
      /\ \A t \in kept : put.claims[t] = claimed[t]
  <2> HIDE DEF kept
  <2>1. QED BY <1>2, <1>3, <1>4, RestrictClaimMap
<1>6. QED BY <1>2, <1>5 DEF PutOK

LEMMA UnexpiredClaimMap ==
  ASSUME NEW C, ClaimMap(C), NEW now
  PROVE  /\ ClaimMap(Unexpired(C, now))
         /\ DOMAIN Unexpired(C, now) = {s \in DOMAIN C : ~Expired(C[s], now)}
         /\ \A s \in DOMAIN Unexpired(C, now) : Unexpired(C, now)[s] = C[s]
<1>1. Unexpired(C, now) = Restrict(C, {s \in DOMAIN C : ~Expired(C[s], now)})
  BY DEF Unexpired, Without
<1>2. QED BY <1>1, RestrictClaimMap
-----------------------------------------------------------------------------
(* Winners before and after a claim is stored.                             *)

LEMMA OutranksIsAsymmetric ==
  ASSUME NEW c \in Claim, NEW d \in Claim, Outranks(c, d)
  PROVE  ~Outranks(d, c)
  BY OutranksIsStrictOrder

NoneExpired(C, now) == \A s \in DOMAIN C : ~Expired(C[s], now)

LEMMA UnexpiredHasNoneExpired ==
  ASSUME NEW C, ClaimMap(C), NEW now
  PROVE  NoneExpired(Unexpired(C, now), now)
  BY DEF NoneExpired, Unexpired, Without, Restrict, ClaimMap

LEMMA NoneExpiredUnchanged ==
  ASSUME NEW C, ClaimMap(C), NEW now, NoneExpired(C, now)
  PROVE  Unexpired(C, now) = C
  BY DEF NoneExpired, Unexpired, Without, Restrict, ClaimMap

(* Removing claims that do not win does not change the winners.            *)
LEMMA LosersDoNotMatter ==
  ASSUME NEW C, ClaimMap(C), NEW W, W = Winners(C),
         NEW S \in SUBSET DOMAIN C, W \subseteq S
  PROVE  Winners(Restrict(C, S)) = W
<1> DEFINE R == Restrict(C, S)
<1>1. ClaimMap(R) /\ DOMAIN R = S /\ \A s \in S : R[s] = C[s]
  BY RestrictClaimMap
<1>2. IsSelection(W, C)
  BY WinnersAreSelected
<1> HIDE DEF R
<1>3. IsSelection(W, R)
  BY <1>1, <1>2 DEF IsSelection
<1>4. Winners(R) = W
  BY <1>1, <1>3, WinnersUnique
<1>5. QED BY <1>4 DEF R

(* PutClaim when nothing in C is expired at now: the winners it leaves are *)
(* those of C with the new claim, and every other winning Move is gone.    *)
LEMMA PutClaimWinners ==
  ASSUME NEW C, ClaimMap(C), NEW s, NEW c \in Claim, NEW now,
         \A t \in DOMAIN C : C[t].receive_sequence # c.receive_sequence,
         NoneExpired(C, now), ~Expired(c, now),
         NEW put, put = PutClaim(C, s, c, now),
         NEW claimed, claimed = With(C, s, c)
  PROVE  /\ ClaimMap(claimed)
         /\ put.claims = Without(claimed, put.preempted)
         /\ put.preempted = PreemptedMoves(claimed, Winners(C), Winners(claimed))
         /\ computeWinners(put.claims, now) = Winners(claimed)
<1>1. ClaimMap(claimed) /\ DOMAIN claimed = DOMAIN C \cup {s} /\ claimed[s] = c
      /\ \A t \in DOMAIN C : t # s => claimed[t] = C[t]
  <2>1. IsFiniteSet(DOMAIN C \cup {s})
    BY FS_AddElement DEF ClaimMap
  <2>2. DOMAIN claimed = DOMAIN C \cup {s} /\ claimed[s] = c
        /\ \A t \in DOMAIN C : t # s => claimed[t] = C[t]
    BY DEF With
  <2>3. claimed \in [DOMAIN claimed -> Claim]
    BY DEF With, ClaimMap
  <2>4. QED BY <2>1, <2>2, <2>3 DEF ClaimMap
<1>2. NoneExpired(claimed, now)
  BY <1>1 DEF NoneExpired
<1>3. computeWinners(C, now) = Winners(C) /\ computeWinners(claimed, now) = Winners(claimed)
  BY <1>1, <1>2, NoneExpiredUnchanged DEF computeWinners
<1>4. /\ put.claims = Without(claimed, put.preempted)
      /\ put.preempted = PreemptedMoves(claimed, Winners(C), Winners(claimed))
  BY <1>3 DEF PutClaim
<1> DEFINE S == DOMAIN claimed \ put.preempted
<1>5. Winners(claimed) \subseteq S
  BY <1>1, <1>4, WinnersAreSelected DEF PreemptedMoves
<1>6. put.claims = Restrict(claimed, S)
  BY <1>4 DEF Without
<1>7. S \in SUBSET DOMAIN claimed
  OBVIOUS
<1> HIDE DEF S
<1>8. Winners(put.claims) = Winners(claimed)
  BY <1>1, <1>5, <1>6, <1>7, LosersDoNotMatter
<1>9. ClaimMap(put.claims) /\ NoneExpired(put.claims, now)
  BY <1>1, <1>2, <1>6, <1>7, RestrictClaimMap DEF NoneExpired
<1>10. computeWinners(put.claims, now) = Winners(claimed)
  BY <1>8, <1>9, NoneExpiredUnchanged DEF computeWinners
<1>11. QED BY <1>1, <1>4, <1>10
-----------------------------------------------------------------------------
(* What submitMove and updateServo make of a claim map whose claims were   *)
(* all processed before the one they store.                                *)

ClaimedBefore(C, n) ==
  ClaimMap(C) /\ \A s \in DOMAIN C : C[s].receive_sequence < n

StoredClaim(e, n, received_at) ==
  [endpoint |-> e, receive_sequence |-> n, received_at |-> received_at]

(* Sessions end only by expiry, which befalls Servos, and by preemption,   *)
(* which befalls Moves; the others are kept, and the claim of s is stored  *)
(* if stored is {s}.                                                       *)
ResultOK(C, s, c, now, result, stored) ==
  /\ ClaimMap(result.claims)
  /\ result.expired = {t \in DOMAIN C : Expired(C[t], now)}
  /\ result.preempted \subseteq {t \in DOMAIN C \ {s} : ~IsServo(C[t])}
  /\ DOMAIN result.claims =
       ((DOMAIN C \ (result.preempted \cup result.expired)) \ {s}) \cup stored
  /\ \A t \in DOMAIN result.claims : result.claims[t] = IF t = s THEN c ELSE C[t]

LEMMA PutResult ==
  ASSUME NEW n \in Nat, NEW C, ClaimedBefore(C, n), NEW now,
         NEW s, NEW c \in Claim, c.receive_sequence = n,
         IsServo(c) \/ s \notin DOMAIN C,
         NEW U, U = Unexpired(C, now), NEW put, put = PutClaim(U, s, c, now)
  PROVE  /\ ClaimMap(put.claims)
         /\ DOMAIN C \ DOMAIN U = {t \in DOMAIN C : Expired(C[t], now)}
         /\ put.preempted \subseteq {t \in DOMAIN C \ {s} : ~IsServo(C[t])}
         /\ DOMAIN put.claims = (DOMAIN U \ put.preempted) \cup {s}
         /\ \A t \in DOMAIN put.claims : put.claims[t] = IF t = s THEN c ELSE C[t]
<1>1. /\ ClaimMap(U) /\ DOMAIN U = {t \in DOMAIN C : ~Expired(C[t], now)}
      /\ \A t \in DOMAIN U : U[t] = C[t]
  BY UnexpiredClaimMap DEF ClaimedBefore
<1>2. \A t \in DOMAIN U : U[t].receive_sequence # c.receive_sequence
  BY <1>1 DEF ClaimedBefore, ClaimMap, Claim
<1>3. PutOK(U, s, c, put)
  BY <1>1, <1>2, PutClaimMap
<1>4. Winners(Unexpired(U, now)) \subseteq DOMAIN U
  <2>1. ClaimMap(U)
    BY <1>1
  <2>2. /\ ClaimMap(Unexpired(U, now))
        /\ DOMAIN Unexpired(U, now) = {t \in DOMAIN U : ~Expired(U[t], now)}
    BY ONLY <2>1, UnexpiredClaimMap
  <2>3. QED BY <2>2, WinnersAreSelected
<1>5. put.preempted \subseteq {t \in DOMAIN U \ {s} : ~IsServo(U[t])}
  <2>1. put.preempted \subseteq {t \in Winners(Unexpired(U, now)) : ~IsServo(With(U, s, c)[t])}
    BY DEF PutClaim, PreemptedMoves, computeWinners
  <2>2. \A t \in DOMAIN U : With(U, s, c)[t] = IF t = s THEN c ELSE U[t]
    BY DEF With
  <2>3. QED BY <1>1, <1>4, <2>1, <2>2
<1>6. QED BY <1>1, <1>3, <1>5 DEF PutOK

LEMMA SubmitResult ==
  ASSUME NEW n \in Nat, NEW C, ClaimedBefore(C, n), NEW now \in Int,
         NEW m, m \notin DOMAIN C, NEW e \in Endpoint,
         NEW result, result = submitMove(C, n, m, e, now),
         NEW stored, stored = {t \in {m} : result.admitted}
  PROVE  ResultOK(C, m, StoredClaim(e, n, now), now, result, stored)
<1> DEFINE U == Unexpired(C, now)
           c == StoredClaim(e, n, now)
           put == PutClaim(U, m, c, now)
<1>1. c \in Claim /\ c.receive_sequence = n
  BY DEF StoredClaim, Claim
<1>2. /\ result.claims = IF result.admitted THEN put.claims
                                            ELSE Without(put.claims, {m})
      /\ result.preempted = put.preempted
      /\ result.expired = DOMAIN C \ DOMAIN U
  BY DEF submitMove, StoredClaim
<1> HIDE DEF U, c
<1>3. /\ ClaimMap(put.claims)
      /\ DOMAIN C \ DOMAIN U = {t \in DOMAIN C : Expired(C[t], now)}
      /\ put.preempted \subseteq {t \in DOMAIN C \ {m} : ~IsServo(C[t])}
      /\ DOMAIN put.claims = (DOMAIN U \ put.preempted) \cup {m}
      /\ \A t \in DOMAIN put.claims : put.claims[t] = IF t = m THEN c ELSE C[t]
  <2>1. U = Unexpired(C, now)
    BY DEF U
  <2>2. QED BY <1>1, <2>1, PutResult
<1>4. DOMAIN U \subseteq DOMAIN C
  BY DEF U, Unexpired, Without, Restrict
<1> HIDE DEF put
<1>5. CASE result.admitted
  BY <1>2, <1>3, <1>4, <1>5 DEF ResultOK, c
<1>6. CASE ~result.admitted
  <2>1. result.claims = Restrict(put.claims, DOMAIN put.claims \ {m})
    BY <1>2, <1>6 DEF Without
  <2>2. /\ ClaimMap(result.claims)
        /\ DOMAIN result.claims = DOMAIN put.claims \ {m}
        /\ \A t \in DOMAIN result.claims : result.claims[t] = put.claims[t]
    BY <1>3, <2>1, RestrictClaimMap
  <2>3. QED BY <1>2, <1>3, <1>4, <1>6, <2>2 DEF ResultOK
<1>7. QED BY <1>5, <1>6

LEMMA UpdateResult ==
  ASSUME NEW n \in Nat, NEW C, ClaimedBefore(C, n), NEW now \in Int,
         NEW s \in ServoEndpoint, NEW received_at \in Int,
         NEW result, result = updateServo(C, n, s, received_at, now)
  PROVE  ResultOK(C, s, StoredClaim(s, n, received_at), now, result, {s})
<1> DEFINE U == Unexpired(C, now)
           c == StoredClaim(s, n, received_at)
           put == PutClaim(U, s, c, now)
<1>1. c \in Claim /\ c.receive_sequence = n /\ IsServo(c)
  BY ArbitrationAssumption DEF StoredClaim, Claim, IsServo
<1>2. /\ result.claims = put.claims
      /\ result.preempted = put.preempted
      /\ result.expired = DOMAIN C \ DOMAIN U
  BY DEF updateServo, StoredClaim
<1> HIDE DEF U, c
<1>3. /\ ClaimMap(put.claims)
      /\ DOMAIN C \ DOMAIN U = {t \in DOMAIN C : Expired(C[t], now)}
      /\ put.preempted \subseteq {t \in DOMAIN C \ {s} : ~IsServo(C[t])}
      /\ DOMAIN put.claims = (DOMAIN U \ put.preempted) \cup {s}
      /\ \A t \in DOMAIN put.claims : put.claims[t] = IF t = s THEN c ELSE C[t]
  <2>1. U = Unexpired(C, now)
    BY DEF U
  <2>2. QED BY <1>1, <2>1, PutResult
<1>4. DOMAIN U \subseteq DOMAIN C
  BY DEF U, Unexpired, Without, Restrict
<1> HIDE DEF put
<1>5. QED BY <1>2, <1>3, <1>4 DEF ResultOK, c
-----------------------------------------------------------------------------
(* With nested Servo groups a Move that holds a claim is in control.       *)

(* A claim's endpoint is registered, a Move's is a Move endpoint and a      *)
(* Servo's its own endpoint.                                               *)
WellKinded(C, P) ==
  \A s \in DOMAIN C : /\ C[s].endpoint \in P
                      /\ IsServo(C[s]) <=> s \notin MoveId

(* The strengthening of MovesNeverWait: who expires first cannot matter,   *)
(* because a Move outranks all it shares a joint with.                     *)
MovesLead(C) ==
  \A m \in DOMAIN C \cap MoveId, t \in DOMAIN C :
    m # t /\ Conflict(C[m], C[t]) => Outranks(C[m], C[t])

LEMMA LeadingMovesWin ==
  ASSUME NEW C, ClaimMap(C), MovesLead(C), NEW m \in DOMAIN C \cap MoveId
  PROVE  m \in Winners(C)
<1>1. Winners(C) \subseteq DOMAIN C /\ IsSelection(Winners(C), C)
  BY WinnersAreSelected
<1>2. SUFFICES ASSUME NEW w \in Winners(C), Conflict(C[w], C[m]), Outranks(C[w], C[m])
               PROVE  FALSE
  BY <1>1 DEF IsSelection
<1>3. C[w] \in Claim /\ C[m] \in Claim
  BY <1>1 DEF ClaimMap
<1>4. ~Outranks(C[m], C[w])
  BY <1>2, <1>3, OutranksIsAsymmetric
<1>5. m # w
  BY <1>2, <1>4
<1>6. Conflict(C[m], C[w])
  BY <1>2, <1>3, ConflictIsSymmetric
<1>7. QED BY <1>1, <1>4, <1>5, <1>6 DEF MovesLead

(* Claims are held through registered endpoints only.                      *)
LEMMA FewerClaimsStillLead ==
  ASSUME NEW C, MovesLead(C), NEW S \in SUBSET DOMAIN C
  PROVE  MovesLead(Restrict(C, S))
  BY DEF MovesLead, Restrict

(* Of the claims of any map, keep some whose Moves all win: they lead.     *)
LEMMA WinningMovesLead ==
  ASSUME NEW P, NestedGroups(P), NEW C, ClaimMap(C), WellKinded(C, P),
         NEW K \in SUBSET DOMAIN C, K \cap MoveId \subseteq Winners(C)
  PROVE  MovesLead(Restrict(C, K))
<1> DEFINE W == Winners(C)
<1>1. W \in SUBSET DOMAIN C /\ IsSelection(W, C)
  BY WinnersAreSelected
<1>2. SUFFICES ASSUME NEW m \in K \cap MoveId, NEW t \in K, m # t,
                      Conflict(C[m], C[t])
               PROVE  Outranks(C[m], C[t])
  BY DEF MovesLead, Restrict
<1>3. m \in W
  OBVIOUS
<1> HIDE DEF W
<1>4. t \notin W
  BY <1>1, <1>2, <1>3, SelectionDisjoint
<1>5. t \notin MoveId
  BY <1>4 DEF W
<1>6. PICK w \in W : Conflict(C[w], C[t]) /\ Outranks(C[w], C[t])
  BY <1>1, <1>4 DEF IsSelection
<1>7. Conflict(C[w], C[m])
  <2>1. C[t].endpoint \in P \cap ServoEndpoint
        /\ C[m].endpoint \in P /\ C[w].endpoint \in P
    BY <1>1, <1>5 DEF WellKinded, IsServo
  <2>2. Overlap(C[t].endpoint, C[w].endpoint) /\ Overlap(C[t].endpoint, C[m].endpoint)
    BY <1>2, <1>6 DEF Conflict, Overlap
  <2>3. QED BY <2>1, <2>2 DEF NestedGroups, Conflict
<1>8. w = m
  BY <1>1, <1>3, <1>7, SelectionDisjoint
<1>9. QED BY <1>6, <1>8

(* Storing a claim keeps the Moves leading: PutClaim drops the Moves that  *)
(* stop winning, and the caller a new Move that does not win.              *)
LEMMA StoringKeepsMovesLeading ==
  ASSUME NEW P, NestedGroups(P),
         NEW C, ClaimMap(C), MovesLead(C), NEW s, NEW c \in Claim, NEW now,
         \A t \in DOMAIN C : C[t].receive_sequence # c.receive_sequence,
         NoneExpired(C, now), ~Expired(c, now),
         NEW put, put = PutClaim(C, s, c, now), WellKinded(With(C, s, c), P),
         NEW K \in SUBSET DOMAIN put.claims,
         s \in K \cap MoveId => s \in computeWinners(put.claims, now)
  PROVE  MovesLead(Restrict(put.claims, K))
<1> DEFINE claimed == With(C, s, c)
<1>1. /\ DOMAIN claimed = DOMAIN C \cup {s}
      /\ \A t \in DOMAIN C : t # s => claimed[t] = C[t]
  BY DEF With
<1>2. WellKinded(claimed, P) /\ claimed = With(C, s, c)
  OBVIOUS
<1> HIDE DEF claimed
<1>3. /\ ClaimMap(claimed)
      /\ put.claims = Without(claimed, put.preempted)
      /\ put.preempted = PreemptedMoves(claimed, Winners(C), Winners(claimed))
      /\ computeWinners(put.claims, now) = Winners(claimed)
  BY <1>2, PutClaimWinners
<1>4. K \subseteq DOMAIN claimed \ put.preempted
  BY <1>3 DEF Without, Restrict
<1>5. K \cap MoveId \subseteq Winners(claimed)
  <2>1. SUFFICES ASSUME NEW m \in K \cap MoveId, m # s PROVE m \in Winners(claimed)
    BY <1>3
  <2>2. m \in Winners(C)
    BY <1>1, <1>4, <2>1, LeadingMovesWin
  <2>3. ~IsServo(claimed[m])
    BY <1>2, <1>4 DEF WellKinded
  <2>4. QED BY <1>3, <1>4, <2>2, <2>3 DEF PreemptedMoves
<1>6. MovesLead(Restrict(claimed, K))
  BY <1>2, <1>3, <1>4, <1>5, WinningMovesLead
<1>7. Restrict(claimed, K) = Restrict(put.claims, K)
  BY <1>3, <1>4 DEF Without, Restrict
<1>8. QED BY <1>6, <1>7

(* So do the arbiter's calls, which first drop what has expired.           *)
LEMMA UnexpiredStillLead ==
  ASSUME NEW n \in Nat, NEW C, ClaimedBefore(C, n), MovesLead(C), NEW now,
         NEW U, U = Unexpired(C, now)
  PROVE  /\ ClaimMap(U) /\ MovesLead(U) /\ NoneExpired(U, now)
         /\ DOMAIN U \subseteq DOMAIN C /\ \A t \in DOMAIN U : U[t] = C[t]
         /\ \A t \in DOMAIN U : U[t].receive_sequence # n
<1>1. ClaimMap(C)
  BY DEF ClaimedBefore
<1>2. ClaimMap(U) /\ NoneExpired(U, now)
  BY <1>1, UnexpiredClaimMap, UnexpiredHasNoneExpired
<1>3. DOMAIN U \subseteq DOMAIN C /\ \A t \in DOMAIN U : U[t] = C[t]
  BY <1>1, UnexpiredClaimMap
<1>4. MovesLead(U)
  BY <1>3 DEF MovesLead
<1>5. \A t \in DOMAIN U : U[t].receive_sequence # n
  BY <1>3 DEF ClaimedBefore, ClaimMap, Claim
<1>6. QED BY <1>2, <1>3, <1>4, <1>5

LEMMA SubmitKeepsMovesLeading ==
  ASSUME NEW P, NestedGroups(P), NEW n \in Nat, NEW C, ClaimedBefore(C, n),
         WellKinded(C, P), MovesLead(C), NEW now \in Int,
         NEW m \in MoveId, m \notin DOMAIN C, NEW e \in P \cap MoveEndpoint
  PROVE  MovesLead(submitMove(C, n, m, e, now).claims)
<1> DEFINE result == submitMove(C, n, m, e, now)
           U == Unexpired(C, now)
           c == StoredClaim(e, n, now)
           put == PutClaim(U, m, c, now)
           K == IF m \in computeWinners(put.claims, now)
                  THEN DOMAIN put.claims ELSE DOMAIN put.claims \ {m}
<1>1. result.claims = IF m \in computeWinners(put.claims, now)
                        THEN put.claims ELSE Without(put.claims, {m})
  BY DEF submitMove, StoredClaim
<1>2. /\ c \in Claim /\ c.receive_sequence = n /\ c.endpoint = e
      /\ ~IsServo(c) /\ ~Expired(c, now)
  BY DEF StoredClaim, Claim, IsServo, Expired, MoveEndpoint
<1>3. U = Unexpired(C, now) /\ put = PutClaim(U, m, c, now)
  OBVIOUS
<1> HIDE DEF U, c, put, result
<1>4. /\ ClaimMap(U) /\ MovesLead(U) /\ NoneExpired(U, now)
      /\ DOMAIN U \subseteq DOMAIN C /\ \A t \in DOMAIN U : U[t] = C[t]
      /\ \A t \in DOMAIN U : U[t].receive_sequence # c.receive_sequence
  BY <1>2, <1>3, UnexpiredStillLead
<1>5. WellKinded(With(U, m, c), P)
  BY <1>2, <1>4 DEF WellKinded, With
<1>6. PutOK(U, m, c, put)
  BY <1>2, <1>3, <1>4, PutClaimMap
<1>7. result.claims = Restrict(put.claims, K)
  BY <1>1, <1>6 DEF Without, Restrict, PutOK, ClaimMap
<1>8. /\ K \in SUBSET DOMAIN put.claims
      /\ m \in K \cap MoveId => m \in computeWinners(put.claims, now)
  OBVIOUS
<1> HIDE DEF K
<1>9. MovesLead(Restrict(put.claims, K))
  BY <1>2, <1>3, <1>4, <1>5, <1>8, StoringKeepsMovesLeading
<1>10. QED BY <1>7, <1>9 DEF result

LEMMA UpdateKeepsMovesLeading ==
  ASSUME NEW P, NestedGroups(P), NEW n \in Nat, NEW C, ClaimedBefore(C, n),
         WellKinded(C, P), MovesLead(C), NEW now \in Int,
         NEW s \in ServoEndpoint \cap P, NEW received_at \in Int,
         now - received_at < Lease[s]
  PROVE  MovesLead(updateServo(C, n, s, received_at, now).claims)
<1> DEFINE result == updateServo(C, n, s, received_at, now)
           U == Unexpired(C, now)
           c == StoredClaim(s, n, received_at)
           put == PutClaim(U, s, c, now)
<1>1. result.claims = put.claims
  BY DEF updateServo, StoredClaim
<1>2. /\ c \in Claim /\ c.receive_sequence = n /\ c.endpoint = s
      /\ IsServo(c) /\ ~Expired(c, now) /\ s \notin MoveId
  BY ArbitrationAssumption DEF StoredClaim, Claim, IsServo, Expired
<1>3. U = Unexpired(C, now) /\ put = PutClaim(U, s, c, now)
  OBVIOUS
<1> HIDE DEF U, c, put, result
<1>4. /\ ClaimMap(U) /\ MovesLead(U) /\ NoneExpired(U, now)
      /\ DOMAIN U \subseteq DOMAIN C /\ \A t \in DOMAIN U : U[t] = C[t]
      /\ \A t \in DOMAIN U : U[t].receive_sequence # c.receive_sequence
  BY <1>2, <1>3, UnexpiredStillLead
<1>5. WellKinded(With(U, s, c), P)
  BY <1>2, <1>4 DEF WellKinded, With
<1>6. PutOK(U, s, c, put)
  BY <1>2, <1>3, <1>4, PutClaimMap
<1>7. put.claims = Restrict(put.claims, DOMAIN put.claims)
  BY <1>6 DEF Restrict, PutOK, ClaimMap
<1>8. MovesLead(Restrict(put.claims, DOMAIN put.claims))
  BY <1>2, <1>3, <1>4, <1>5, StoringKeepsMovesLeading
<1>9. QED BY <1>1, <1>7, <1>8 DEF result

-----------------------------------------------------------------------------
(* What Servo targets do to leading Moves does not depend on their order.  *)

(* The Moves of C that a claim takes joints from.                          *)
Beaten(C, c) ==
  {m \in DOMAIN C \cap MoveId : Conflict(c, C[m]) /\ Outranks(c, C[m])}

(* While groups are nested, a Servo's claim ends the Moves that it beats,  *)
(* whoever else holds a claim, and no others.                              *)
LEMMA ServoPreemptsTheBeaten ==
  ASSUME NEW P, NestedGroups(P),
         NEW C, ClaimMap(C), MovesLead(C), WellKinded(C, P),
         NEW s \in ServoEndpoint \cap P, NEW c \in Claim, c.endpoint = s, NEW now,
         \A t \in DOMAIN C : C[t].receive_sequence # c.receive_sequence,
         NoneExpired(C, now), ~Expired(c, now),
         NEW put, put = PutClaim(C, s, c, now)
  PROVE  put.preempted = Beaten(C, c)
<1> DEFINE claimed == With(C, s, c)
<1>1. /\ DOMAIN claimed = DOMAIN C \cup {s} /\ claimed[s] = c
      /\ \A t \in DOMAIN C : t # s => claimed[t] = C[t]
  BY DEF With
<1>2. claimed = With(C, s, c)
  OBVIOUS
<1> HIDE DEF claimed
<1>3. ClaimMap(claimed) /\ put.preempted = PreemptedMoves(claimed, Winners(C), Winners(claimed))
  BY <1>2, PutClaimWinners
<1>4. s \notin MoveId /\ IsServo(c)
  BY ArbitrationAssumption DEF IsServo
<1>5. Winners(claimed) \subseteq DOMAIN claimed /\ IsSelection(Winners(claimed), claimed)
  BY <1>3, WinnersAreSelected
<1>6. Winners(C) \subseteq DOMAIN C /\ DOMAIN C \cap MoveId \subseteq Winners(C)
  BY WinnersAreSelected, LeadingMovesWin
<1>7. put.preempted = {m \in DOMAIN C \cap MoveId : m \notin Winners(claimed)}
  <2>1. \A m \in DOMAIN C : m # s => (IsServo(claimed[m]) <=> m \notin MoveId)
    BY <1>1 DEF WellKinded
  <2>2. QED
    BY <1>1, <1>3, <1>4, <1>6, <2>1 DEF PreemptedMoves
<1>8. ASSUME NEW m \in DOMAIN C \cap MoveId
      PROVE  m \notin Winners(claimed) <=> Conflict(c, C[m]) /\ Outranks(c, C[m])
  <2>1. m # s /\ claimed[m] = C[m] /\ C[m] \in Claim
    BY <1>1, <1>4 DEF ClaimMap
  <2>2. CASE Conflict(c, C[m]) /\ Outranks(c, C[m])
    <3>1. ASSUME NEW w \in Winners(claimed), Conflict(claimed[w], c), Outranks(claimed[w], c)
          PROVE  FALSE
      <4>1. w # s
        BY <1>1, <3>1, OutranksIsStrictOrder
      <4>2. w \in DOMAIN C /\ claimed[w] = C[w] /\ C[w] \in Claim
        BY <1>1, <1>5, <4>1 DEF ClaimMap
      <4>3. Outranks(C[w], C[m])
        BY <2>1, <2>2, <3>1, <4>2, OutranksIsStrictOrder
      <4>4. m # w
        BY <2>1, <4>3, OutranksIsStrictOrder
      <4>5. Conflict(C[m], C[w])
        BY <2>2, <3>1, <4>2 DEF Conflict, Overlap, NestedGroups, WellKinded
      <4>6. Outranks(C[m], C[w])
        BY <4>2, <4>4, <4>5 DEF MovesLead
      <4>7. QED
        BY <2>1, <4>2, <4>3, <4>6, OutranksIsAsymmetric
    <3>2. s \in Winners(claimed)
      BY <1>1, <1>5, <3>1 DEF IsSelection
    <3>3. QED
      BY <1>1, <1>5, <2>1, <2>2, <3>2 DEF IsSelection
  <2>3. CASE ~(Conflict(c, C[m]) /\ Outranks(c, C[m]))
    <3>1. ASSUME NEW w \in Winners(claimed),
                 Conflict(claimed[w], C[m]), Outranks(claimed[w], C[m])
          PROVE  FALSE
      <4>1. w # s
        BY <1>1, <2>3, <3>1
      <4>2. w \in DOMAIN C /\ claimed[w] = C[w] /\ C[w] \in Claim
        BY <1>1, <1>5, <4>1 DEF ClaimMap
      <4>3. m # w
        BY <2>1, <3>1, <4>2, OutranksIsStrictOrder
      <4>4. Outranks(C[m], C[w])
        BY <3>1, <4>2, <4>3, ConflictIsSymmetric DEF MovesLead
      <4>5. QED
        BY <2>1, <3>1, <4>2, <4>4, OutranksIsAsymmetric
    <3>2. QED
      BY <1>1, <1>5, <2>1, <2>3, <3>1 DEF IsSelection
  <2>4. QED
    BY <2>2, <2>3
<1>9. QED
  BY <1>7, <1>8 DEF Beaten

(* Claims of nested endpoints P, when n is the next sequence number.       *)
Nested(C, n, P) ==
  /\ NestedGroups(P) /\ n \in Nat
  /\ ClaimedBefore(C, n) /\ WellKinded(C, P) /\ MovesLead(C)

(* A target of Servo s that was received at received_at and is still good. *)
InLease(s, received_at, now, P) ==
  /\ s \in ServoEndpoint \cap P /\ received_at \in Int /\ now \in Int
  /\ now - received_at < Lease[s]

(* What updateServo of claim c leaves of the unexpired claims U, and that  *)
(* it can be called again with what it leaves.                             *)
Updated(U, c, D, n, P, now) ==
  /\ DOMAIN D = (DOMAIN U \ Beaten(U, c)) \cup {c.endpoint}
  /\ \A t \in DOMAIN D : D[t] = IF t = c.endpoint THEN c ELSE U[t]
  /\ Nested(D, n + 1, P) /\ Unexpired(D, now) = D

LEMMA UpdateEndsTheBeaten ==
  ASSUME NEW C, NEW n, NEW P, NEW s, NEW received_at, NEW now,
         Nested(C, n, P), InLease(s, received_at, now, P)
  PROVE  Updated(Unexpired(C, now), StoredClaim(s, n, received_at),
                 updateServo(C, n, s, received_at, now).claims, n, P, now)
<1> USE DEF Nested, InLease
<1> DEFINE U == Unexpired(C, now)
           c == StoredClaim(s, n, received_at)
           D == updateServo(C, n, s, received_at, now).claims
           put == PutClaim(U, s, c, now)
<1>1. D = put.claims
  BY DEF updateServo, StoredClaim
<1>2. /\ c \in Claim /\ c.receive_sequence = n /\ c.endpoint = s
      /\ IsServo(c) /\ ~Expired(c, now) /\ s \notin MoveId
  BY ArbitrationAssumption DEF StoredClaim, Claim, IsServo, Expired
<1>3. put = PutClaim(U, s, c, now) /\ U = Unexpired(C, now)
      /\ D = updateServo(C, n, s, received_at, now).claims
  OBVIOUS
<1> HIDE DEF put, U, c, D
<1>4. /\ ClaimMap(U) /\ MovesLead(U) /\ NoneExpired(U, now)
      /\ DOMAIN U \subseteq DOMAIN C /\ \A t \in DOMAIN U : U[t] = C[t]
      /\ \A t \in DOMAIN U : U[t].receive_sequence # c.receive_sequence
  BY <1>2, <1>3, UnexpiredStillLead
<1>5. WellKinded(U, P)
  BY <1>4 DEF WellKinded
<1>6. put.preempted = Beaten(U, c)
  BY <1>2, <1>3, <1>4, <1>5, ServoPreemptsTheBeaten
<1>7. PutOK(U, s, c, put)
  BY <1>2, <1>3, <1>4, PutClaimMap
<1>8. s \notin Beaten(U, c)
  BY <1>2 DEF Beaten
<1>9. /\ DOMAIN D = (DOMAIN U \ Beaten(U, c)) \cup {s}
      /\ \A t \in DOMAIN D : D[t] = IF t = s THEN c ELSE U[t]
      /\ ClaimMap(D)
  BY <1>1, <1>6, <1>7, <1>8 DEF PutOK
<1>10. ClaimedBefore(D, n + 1)
  <2>1. \A t \in DOMAIN U : U[t].receive_sequence \in Nat /\ U[t].receive_sequence < n
    BY <1>4 DEF ClaimedBefore, ClaimMap, Claim
  <2>2. \A t \in DOMAIN D : D[t].receive_sequence < n + 1
    BY <1>2, <1>9, <2>1
  <2>3. QED
    BY <1>9, <2>2 DEF ClaimedBefore
<1>11. WellKinded(D, P)
  BY <1>2, <1>5, <1>9 DEF WellKinded
<1>12. MovesLead(D)
  BY <1>3, UpdateKeepsMovesLeading
<1>13. Unexpired(D, now) = D
  <2>1. NoneExpired(D, now)
    BY <1>2, <1>4, <1>9 DEF NoneExpired
  <2>2. QED
    BY <1>9, <2>1, NoneExpiredUnchanged
<1>14. Updated(U, c, D, n, P, now)
  BY <1>2, <1>9, <1>10, <1>11, <1>12, <1>13 DEF Updated
<1>15. QED
  BY <1>14 DEF U, c, D

(* Claims that conflict and rank alike have the same winners.              *)
LEMMA SameRanksSameWinners ==
  ASSUME NEW C, ClaimMap(C), NEW D, ClaimMap(D), DOMAIN C = DOMAIN D,
         \A s, t \in DOMAIN C :
           /\ Conflict(C[s], C[t]) <=> Conflict(D[s], D[t])
           /\ Outranks(C[s], C[t]) <=> Outranks(D[s], D[t])
  PROVE  Winners(C) = Winners(D)
<1>1. Winners(D) \subseteq DOMAIN D /\ IsSelection(Winners(D), D)
  BY WinnersAreSelected
<1>2. IsSelection(Winners(D), C)
  BY <1>1 DEF IsSelection
<1>3. QED
  BY <1>1, <1>2, WinnersUnique

(* What the updates of Servos s and t leave, in one order.                 *)
TwiceUpdated(U, s, c, t, d, E, now) ==
  /\ ClaimMap(E) /\ computeWinners(E, now) = Winners(E)
  /\ DOMAIN E = (DOMAIN U \ (Beaten(U, c) \cup Beaten(U, d))) \cup {s, t}
  /\ E[s] = c /\ E[t] = d
  /\ \A u \in DOMAIN E \ {s, t} : E[u] = U[u]

LEMMA TwoUpdates ==
  ASSUME NEW C, NEW n, NEW P, NEW s, NEW p, NEW t, NEW q, NEW now, Nested(C, n, P),
         InLease(s, p, now, P), InLease(t, q, now, P), s # t
  PROVE  TwiceUpdated(
           Unexpired(C, now), s, StoredClaim(s, n, p), t, StoredClaim(t, n + 1, q),
           updateServo(updateServo(C, n, s, p, now).claims, n + 1, t, q, now).claims, now)
<1> DEFINE U == Unexpired(C, now)
           c == StoredClaim(s, n, p)
           d == StoredClaim(t, n + 1, q)
           D == updateServo(C, n, s, p, now).claims
           E == updateServo(D, n + 1, t, q, now).claims
<1>1. Updated(U, c, D, n, P, now)
  BY UpdateEndsTheBeaten
<1>2. Unexpired(D, now) = D /\ Nested(D, n + 1, P)
  BY <1>1 DEF Updated
<1>3. Updated(Unexpired(D, now), d, E, n + 1, P, now)
  BY <1>2, UpdateEndsTheBeaten
<1>4. c.endpoint = s /\ d.endpoint = t
  BY DEF StoredClaim
<1> HIDE DEF U, c, d, D, E
<1>5. /\ DOMAIN D = (DOMAIN U \ Beaten(U, c)) \cup {s}
      /\ \A u \in DOMAIN D : D[u] = IF u = s THEN c ELSE U[u]
  BY <1>1, <1>4 DEF Updated
<1>6. /\ DOMAIN E = (DOMAIN D \ Beaten(D, d)) \cup {t}
      /\ \A u \in DOMAIN E : E[u] = IF u = t THEN d ELSE D[u]
      /\ Nested(E, n + 1 + 1, P) /\ Unexpired(E, now) = E
  BY <1>2, <1>3, <1>4 DEF Updated
<1>7. s \notin MoveId /\ t \notin MoveId
  BY ArbitrationAssumption DEF InLease
<1>8. Beaten(D, d) = Beaten(U, d) \ Beaten(U, c)
  BY <1>5, <1>7 DEF Beaten
<1>9. s \notin Beaten(D, d) /\ s \notin Beaten(U, d) /\ s \notin Beaten(U, c)
      /\ t \notin Beaten(U, d) /\ t \notin Beaten(U, c)
  BY <1>7 DEF Beaten
<1>10. DOMAIN E = (DOMAIN U \ (Beaten(U, c) \cup Beaten(U, d))) \cup {s, t}
  BY <1>5, <1>6, <1>8, <1>9
<1>11. E[s] = c /\ E[t] = d /\ \A u \in DOMAIN E \ {s, t} : E[u] = U[u]
  BY <1>5, <1>6, <1>10
<1>12. ClaimMap(E) /\ computeWinners(E, now) = Winners(E)
  BY <1>6 DEF Nested, ClaimedBefore, computeWinners
<1>13. TwiceUpdated(U, s, c, t, d, E, now)
  BY <1>10, <1>11, <1>12 DEF TwiceUpdated
<1>14. QED
  BY <1>13 DEF U, c, d, D, E

(* Targets that arrived at different moments give the same control in      *)
(* either order: only their sequence numbers differ, and those are above   *)
(* every other claim's and decide nothing between the two.                 *)
LEMMA UpdatesCommute ==
  ASSUME NEW C, NEW n, NEW P, NEW s, NEW p, NEW t, NEW q, NEW now, Nested(C, n, P),
         InLease(s, p, now, P), InLease(t, q, now, P), s # t, p # q
  PROVE  computeWinners(updateServo(updateServo(C, n, s, p, now).claims,
                                    n + 1, t, q, now).claims, now)
           = computeWinners(updateServo(updateServo(C, n, t, q, now).claims,
                                        n + 1, s, p, now).claims, now)
<1> DEFINE st == updateServo(updateServo(C, n, s, p, now).claims, n + 1, t, q, now).claims
           ts == updateServo(updateServo(C, n, t, q, now).claims, n + 1, s, p, now).claims
           U == Unexpired(C, now)
           c == StoredClaim(s, n, p)
           d == StoredClaim(t, n + 1, q)
           d2 == StoredClaim(t, n, q)
           c2 == StoredClaim(s, n + 1, p)
<1>1. TwiceUpdated(U, s, c, t, d, st, now)
  BY TwoUpdates
<1>2. TwiceUpdated(U, t, d2, s, c2, ts, now)
  BY TwoUpdates
<1>3. \A u \in DOMAIN U : U[u] \in Claim /\ U[u].receive_sequence < n
  <2>1. ClaimMap(C) /\ \A u \in DOMAIN C : C[u] \in Claim /\ C[u].receive_sequence < n
    BY DEF Nested, ClaimedBefore, ClaimMap
  <2>2. DOMAIN U \subseteq DOMAIN C /\ \A u \in DOMAIN U : U[u] = C[u]
    BY <2>1, UnexpiredClaimMap
  <2>3. QED
    BY <2>1, <2>2
<1>4. /\ c.endpoint = s /\ c2.endpoint = s /\ d.endpoint = t /\ d2.endpoint = t
      /\ c.received_at = p /\ c2.received_at = p /\ d.received_at = q /\ d2.received_at = q
      /\ c.receive_sequence = n /\ c2.receive_sequence = n + 1
      /\ d.receive_sequence = n + 1 /\ d2.receive_sequence = n
  BY DEF StoredClaim
<1> HIDE DEF U, c, d, c2, d2, st, ts
<1> USE DEF TwiceUpdated
<1>5. /\ p \in Int /\ q \in Int /\ n \in Nat
      /\ Priority[s] \in Int /\ Priority[t] \in Int
      /\ \A u \in DOMAIN U : /\ Priority[U[u].endpoint] \in Int
                             /\ U[u].received_at \in Int /\ U[u].receive_sequence \in Nat
  BY <1>3, ArbitrationAssumption DEF Claim, InLease, Nested
<1>6. \A u \in DOMAIN U :
        /\ Outranks(c, U[u]) <=> Outranks(c2, U[u])
        /\ Outranks(d, U[u]) <=> Outranks(d2, U[u])
        /\ Outranks(U[u], c) <=> Outranks(U[u], c2)
        /\ Outranks(U[u], d) <=> Outranks(U[u], d2)
        /\ Conflict(c, U[u]) <=> Conflict(c2, U[u])
        /\ Conflict(d, U[u]) <=> Conflict(d2, U[u])
        /\ Conflict(U[u], c) <=> Conflict(U[u], c2)
        /\ Conflict(U[u], d) <=> Conflict(U[u], d2)
  <2>1. ASSUME NEW u \in DOMAIN U
        PROVE  /\ Outranks(c, U[u]) <=> Outranks(c2, U[u])
               /\ Outranks(d, U[u]) <=> Outranks(d2, U[u])
               /\ Outranks(U[u], c) <=> Outranks(U[u], c2)
               /\ Outranks(U[u], d) <=> Outranks(U[u], d2)
    BY <1>3, <1>4, <1>5 DEF Outranks
  <2>2. QED
    BY <1>4, <2>1 DEF Conflict
<1>7. /\ Outranks(c, d) <=> Outranks(c2, d2)
      /\ Outranks(d, c) <=> Outranks(d2, c2)
      /\ ~Outranks(c, c) /\ ~Outranks(c2, c2) /\ ~Outranks(d, d) /\ ~Outranks(d2, d2)
  BY <1>4, <1>5 DEF Outranks
<1>8. Beaten(U, c) = Beaten(U, c2) /\ Beaten(U, d) = Beaten(U, d2)
  BY <1>6 DEF Beaten
<1>9. DOMAIN st = DOMAIN ts
  BY <1>1, <1>2, <1>8
<1>10. ASSUME NEW x \in DOMAIN st, NEW y \in DOMAIN st
       PROVE  /\ Conflict(st[x], st[y]) <=> Conflict(ts[x], ts[y])
              /\ Outranks(st[x], st[y]) <=> Outranks(ts[x], ts[y])
  <2>1. \A u \in DOMAIN st \ {s, t} : st[u] = U[u] /\ ts[u] = U[u] /\ u \in DOMAIN U
    BY <1>1, <1>2, <1>9
  <2>2. Conflict(st[x], st[y]) <=> Conflict(ts[x], ts[y])
    <3>1. st[x].endpoint = ts[x].endpoint /\ st[y].endpoint = ts[y].endpoint
      BY <1>1, <1>2, <1>4, <2>1
    <3>2. QED
      BY <3>1 DEF Conflict
  <2>3. Outranks(st[x], st[y]) <=> Outranks(ts[x], ts[y])
    <3>1. CASE x = s
      BY <1>1, <1>2, <1>6, <1>7, <2>1, <3>1
    <3>2. CASE x = t
      BY <1>1, <1>2, <1>6, <1>7, <2>1, <3>2
    <3>3. CASE x \notin {s, t}
      BY <1>1, <1>2, <1>6, <2>1, <3>3
    <3>4. QED
      BY <3>1, <3>2, <3>3
  <2>4. QED
    BY <2>2, <2>3
<1>11. Winners(st) = Winners(ts)
  BY <1>1, <1>2, <1>9, <1>10, SameRanksSameWinners
<1>12. computeWinners(st, now) = computeWinners(ts, now)
  BY <1>1, <1>2, <1>11
<1>13. QED
  BY <1>12 DEF st, ts

-----------------------------------------------------------------------------
(* The loop of computeWinners.                                             *)

(* Induction up to n, for membership in a set.                             *)
LEMMA CountingUp ==
  ASSUME NEW n \in Nat, NEW S, 0 \in S, \A i \in 0 .. n - 1 : i \in S => i + 1 \in S
  PROVE  0 .. n \subseteq S
<1> DEFINE Bad == (0 .. n) \ S
           R == {p \in Bad \X Bad : p[1] < p[2]}
<1>1. SUFFICES ASSUME Bad # {} PROVE FALSE
  OBVIOUS
<1>2. IsFiniteSet(Bad)
  <2>1. IsFiniteSet(0 .. n)
    BY FS_Interval
  <2>2. QED BY <2>1, FS_Subset
<1>3. \A x \in Bad : <<x, x>> \notin R
  OBVIOUS
<1>4. \A x, y, z \in Bad : <<x, y>> \in R /\ <<y, z>> \in R => <<x, z>> \in R
  OBVIOUS
<1>5. \A x, y \in Bad : <<x, y>> \notin R => ~(x < y)
  OBVIOUS
<1>6. PICK m \in Bad : \A k \in Bad : <<k, m>> \notin R
  <2> HIDE DEF Bad, R
  <2>1. QED BY <1>1, <1>2, <1>3, <1>4, FiniteMinimal
<1>7. m \in 0 .. n /\ m \notin S /\ m # 0
  OBVIOUS
<1>8. m - 1 \in 0 .. n - 1 /\ m - 1 < m
  BY <1>7
<1>9. m - 1 \notin Bad
  <2> HIDE DEF Bad, R
  <2>1. QED BY <1>5, <1>6, <1>8
<1>10. m - 1 \in S
  BY <1>8, <1>9
<1>11. QED BY <1>7, <1>8, <1>10

(* The claims of C in the order in which computeWinners sorts them.        *)
Sorted(order, n, C) ==
  /\ order \in [1 .. n -> DOMAIN C]
  /\ \A s \in DOMAIN C : \E i \in 1 .. n : order[i] = s
  /\ \A i, k \in 1 .. n : i < k => Outranks(C[order[i]], C[order[k]])

(* What is selected after each turn of its loop.                           *)
Selecting(selected, order, n, C) ==
  /\ selected[0] = {}
  /\ \A i \in 1 .. n :
       selected[i] = IF \E w \in selected[i - 1] : Conflict(C[w], C[order[i]])
                       THEN selected[i - 1] ELSE selected[i - 1] \cup {order[i]}

(* Nothing that is selected is dropped, and it was selected in its turn.   *)
InTurn(selected, order, k, i) ==
  /\ selected[k] \subseteq selected[i]
  /\ \A w \in selected[i] : w \in selected[k] \/ \E j \in k + 1 .. i : w = order[j]

LEMMA SelectedInTurn ==
  ASSUME NEW C, NEW n \in Nat, NEW order, NEW selected, Selecting(selected, order, n, C),
         NEW k \in 0 .. n, NEW i \in 0 .. n, k <= i
  PROVE  InTurn(selected, order, k, i)
<1> DEFINE S == {h \in 0 .. n : h >= k => InTurn(selected, order, k, h)}
<1> USE DEF InTurn
<1>1. 0 \in S
  <2>1. 0 >= k => k = 0
    OBVIOUS
  <2>2. QED BY <2>1
<1>2. ASSUME NEW h \in 0 .. n - 1, h \in S
      PROVE  h + 1 \in S
  <2>1. h + 1 \in 0 .. n /\ h + 1 \in 1 .. n /\ (h + 1) - 1 = h
    OBVIOUS
  <2>2. /\ selected[h] \subseteq selected[h + 1]
        /\ selected[h + 1] \subseteq selected[h] \cup {order[h + 1]}
    BY <2>1 DEF Selecting
  <2>3. CASE h + 1 = k
    BY <2>1, <2>3
  <2>4. CASE h >= k
    <3>1. selected[k] \subseteq selected[h + 1]
      BY <1>2, <2>2, <2>4
    <3>2. ASSUME NEW w \in selected[h + 1], w \notin selected[k]
          PROVE  \E j \in k + 1 .. h + 1 : w = order[j]
      <4>1. CASE w = order[h + 1]
        BY <2>1, <2>4, <4>1
      <4>2. CASE w \in selected[h]
        <5>1. PICK j \in k + 1 .. h : w = order[j]
          BY <1>2, <2>4, <3>2, <4>2
        <5>2. j \in k + 1 .. h + 1
          BY <2>1
        <5>3. QED BY <5>1, <5>2
      <4>3. QED BY <2>2, <4>1, <4>2
    <3>3. QED BY <2>1, <3>1, <3>2
  <2>5. CASE h + 1 < k
    BY <2>1, <2>5
  <2>6. QED BY <2>3, <2>4, <2>5
<1>3. i \in S
  <2> HIDE DEF S
  <2>1. QED BY <1>1, <1>2, CountingUp
<1>4. QED BY <1>3

(* Going down the sorted claims and selecting each that conflicts with     *)
(* none selected before, as the loop of computeWinners does, gives the set *)
(* that Winners chooses, however many claims there are.                    *)
THEOREM LoopComputesWinners ==
  ASSUME NEW C, ClaimMap(C), NEW n \in Nat, NEW order, Sorted(order, n, C),
         NEW selected, Selecting(selected, order, n, C)
  PROVE  selected[n] = Winners(C)
<1>1. selected[n] \subseteq DOMAIN C
  <2>1. InTurn(selected, order, 0, n)
    BY SelectedInTurn
  <2>2. QED BY <2>1 DEF InTurn, Selecting, Sorted
<1>2. ASSUME NEW i \in 1 .. n, NEW w \in selected[i - 1]
      PROVE  Outranks(C[w], C[order[i]])
  <2>1. PICK j \in 1 .. i - 1 : w = order[j]
    <3>1. i - 1 \in 0 .. n
      OBVIOUS
    <3>2. InTurn(selected, order, 0, i - 1)
      BY <3>1, SelectedInTurn
    <3>3. QED BY <3>2 DEF InTurn, Selecting
  <2>2. j \in 1 .. n /\ j < i
    OBVIOUS
  <2>3. QED BY <2>1, <2>2 DEF Sorted
<1>3. ASSUME NEW i \in 1 .. n
      PROVE  C[order[i]] \in Claim /\ ~Outranks(C[order[i]], C[order[i]])
  BY OutranksIsStrictOrder DEF Sorted, ClaimMap
<1>4. ASSUME NEW i \in 1 .. n, NEW w \in selected[n], Outranks(C[w], C[order[i]])
      PROVE  w \in selected[i - 1]
  <2>1. SUFFICES ASSUME w \notin selected[i - 1] PROVE FALSE
    OBVIOUS
  <2>2. i - 1 \in 0 .. n /\ i - 1 <= n
    OBVIOUS
  <2>3. InTurn(selected, order, i - 1, n)
    BY <2>2, SelectedInTurn
  <2>4. PICK j \in i .. n : w = order[j]
    BY <1>4, <2>1, <2>3 DEF InTurn
  <2>5. j \in 1 .. n /\ (j = i \/ i < j)
    OBVIOUS
  <2>6. i < j => Outranks(C[order[i]], C[order[j]])
    BY <2>5 DEF Sorted
  <2>7. C[order[i]] \in Claim /\ C[order[j]] \in Claim
    BY <1>3, <2>5
  <2>8. QED BY <1>3, <1>4, <2>4, <2>5, <2>6, <2>7, OutranksIsAsymmetric
<1>5. ASSUME NEW i \in 1 .. n
      PROVE  order[i] \in selected[n] <=>
               \A w \in selected[i - 1] : ~Conflict(C[w], C[order[i]])
  <2>1. i - 1 \in 0 .. n /\ i \in 0 .. n /\ i <= n /\ n \in 0 .. n
    OBVIOUS
  <2>2. InTurn(selected, order, i, n)
    BY <2>1, SelectedInTurn
  <2>3. order[i] \notin selected[i - 1]
    BY <1>2, <1>3
  <2>4. order[i] \in selected[n] => order[i] \in selected[i]
    <3>1. SUFFICES ASSUME order[i] \in selected[n], order[i] \notin selected[i] PROVE FALSE
      OBVIOUS
    <3>2. PICK j \in i + 1 .. n : order[i] = order[j]
      BY <2>2, <3>1 DEF InTurn
    <3>3. j \in 1 .. n /\ i < j
      OBVIOUS
    <3>4. Outranks(C[order[i]], C[order[j]])
      BY <3>3 DEF Sorted
    <3>5. QED BY <1>3, <3>2, <3>4
  <2>5. selected[i] = IF \E w \in selected[i - 1] : Conflict(C[w], C[order[i]])
                        THEN selected[i - 1] ELSE selected[i - 1] \cup {order[i]}
    BY DEF Selecting
  <2>6. QED BY <2>2, <2>3, <2>4, <2>5 DEF InTurn
<1>6. IsSelection(selected[n], C)
  <2>1. ASSUME NEW s \in DOMAIN C
        PROVE  s \in selected[n] <=>
                 \A w \in selected[n] : ~(Conflict(C[w], C[s]) /\ Outranks(C[w], C[s]))
    <3>1. PICK i \in 1 .. n : order[i] = s
      BY DEF Sorted
    <3>2. i - 1 \in 0 .. n /\ i - 1 <= n /\ n \in 0 .. n
      OBVIOUS
    <3>3. InTurn(selected, order, i - 1, n)
      BY <3>2, SelectedInTurn
    <3>4. \A w \in selected[n] : Outranks(C[w], C[s]) <=> w \in selected[i - 1]
      BY <1>2, <1>4, <3>1, <3>3 DEF InTurn
    <3>5. QED BY <1>5, <3>1, <3>3, <3>4 DEF InTurn
  <2>2. QED BY <2>1 DEF IsSelection
<1>7. QED BY <1>1, <1>6, WinnersUnique

(* Finitely many claims, no two of them equal in rank, can be sorted: take *)
(* away the last in rank, sort the others, and put it behind them.         *)
LEMMA SortingExists ==
  ASSUME NEW C, ClaimMap(C)
  PROVE  \E order : Sorted(order, Cardinality(DOMAIN C), C)
<1> DEFINE D == DOMAIN C
           n == Cardinality(D)
           SortedIn(order, m, U) ==
             /\ order \in [1 .. m -> U]
             /\ \A s \in U : \E i \in 1 .. m : order[i] = s
             /\ \A i, k \in 1 .. m : i < k => Outranks(C[order[i]], C[order[k]])
           Good == {m \in 0 .. n :
                      \A U \in SUBSET D : Cardinality(U) = m => \E order : SortedIn(order, m, U)}
<1>1. n \in Nat
  BY FS_CardinalityType DEF ClaimMap
<1>2. 0 \in Good
  <2>1. ASSUME NEW U \in SUBSET D, Cardinality(U) = 0
        PROVE  \E order : SortedIn(order, 0, U)
    <3>1. U = {}
      BY <2>1, FS_Subset, FS_EmptySet DEF ClaimMap
    <3> DEFINE order == [i \in 1 .. 0 |-> i]
    <3>2. SortedIn(order, 0, U)
      BY <3>1
    <3>3. QED
      BY <3>2
  <2>2. QED
    BY <1>1, <2>1
<1>3. ASSUME NEW m \in 0 .. n - 1, m \in Good
      PROVE  m + 1 \in Good
  <2>1. ASSUME NEW U \in SUBSET D, Cardinality(U) = m + 1
        PROVE  \E order : SortedIn(order, m + 1, U)
    <3>1. IsFiniteSet(U)
      BY FS_Subset DEF ClaimMap
    <3>2. U # {}
      BY <2>1, <1>1, FS_EmptySet
    <3>3. \A y \in U : C[y] \in Claim
      BY DEF ClaimMap
    <3>4. PICK x \in U : \A y \in U : ~Outranks(C[x], C[y])
      <4> DEFINE R == {p \in U \X U : Outranks(C[p[2]], C[p[1]])}
      <4>1. \A y \in U : <<y, y>> \notin R
        BY <3>3, OutranksIsStrictOrder
      <4>2. \A u, v, w \in U : <<u, v>> \in R /\ <<v, w>> \in R => <<u, w>> \in R
        BY <3>3, OutranksIsStrictOrder
      <4>3. \A u, v \in U : <<u, v>> \notin R <=> ~Outranks(C[v], C[u])
        OBVIOUS
      <4> HIDE DEF R
      <4>4. PICK u \in U : \A v \in U : <<v, u>> \notin R
        BY <3>1, <3>2, <4>1, <4>2, FiniteMinimal
      <4>5. QED
        BY <4>3, <4>4
    <3> DEFINE V == U \ {x}
    <3>5. V \in SUBSET D /\ Cardinality(V) = m
      <4>1. Cardinality(V) = Cardinality(U) - 1
        BY <3>1, FS_RemoveElement
      <4>2. QED
        BY <2>1, <4>1
    <3>6. PICK order : SortedIn(order, m, V)
      BY <1>3, <3>5
    <3>7. \A y \in V : Outranks(C[y], C[x])
      <4>1. ASSUME NEW y \in V
            PROVE  Outranks(C[y], C[x])
        <5>1. C[x] \in Claim /\ C[y] \in Claim /\ C[x].receive_sequence # C[y].receive_sequence
          BY <3>3 DEF ClaimMap
        <5>2. QED
          BY <3>4, <5>1, OutranksIsStrictOrder
      <4>2. QED
        BY <4>1
    <3> DEFINE longer == [i \in 1 .. m + 1 |-> IF i = m + 1 THEN x ELSE order[i]]
    <3>8. longer[m + 1] = x /\ \A i \in 1 .. m : longer[i] = order[i] /\ order[i] \in V
      BY <3>6
    <3>9. longer \in [1 .. m + 1 -> U]
      BY <3>6
    <3>10. \A s \in U : \E i \in 1 .. m + 1 : longer[i] = s
      <4>1. ASSUME NEW s \in V
            PROVE  \E i \in 1 .. m + 1 : longer[i] = s
        <5>1. PICK i \in 1 .. m : order[i] = s
          BY <3>6
        <5>2. i \in 1 .. m + 1 /\ longer[i] = s
          BY <3>8, <5>1
        <5>3. QED
          BY <5>2
      <4>2. m + 1 \in 1 .. m + 1
        OBVIOUS
      <4>3. QED
        BY <3>8, <4>1, <4>2
    <3>11. ASSUME NEW i \in 1 .. m + 1, NEW k \in 1 .. m + 1, i < k
           PROVE  Outranks(C[longer[i]], C[longer[k]])
      <4>1. i \in 1 .. m /\ (k \in 1 .. m \/ k = m + 1)
        BY <3>11
      <4>2. CASE k \in 1 .. m
        BY <3>6, <3>8, <3>11, <4>1, <4>2
      <4>3. CASE k = m + 1
        BY <3>7, <3>8, <4>1, <4>3
      <4>4. QED
        BY <4>1, <4>2, <4>3
    <3>12. SortedIn(longer, m + 1, U)
      BY <3>9, <3>10, <3>11
    <3>13. QED
      BY <3>12
  <2>2. m + 1 \in 0 .. n
    BY <1>1
  <2>3. QED
    BY <2>1, <2>2
<1>4. n \in Good
  <2> HIDE DEF Good
  <2>1. 0 .. n \subseteq Good
    BY <1>1, <1>2, <1>3, CountingUp
  <2>2. QED
    BY <1>1, <2>1
<1>5. PICK order : SortedIn(order, n, D)
  BY <1>4
<1>6. Sorted(order, n, C)
  BY <1>5 DEF Sorted
<1>7. QED
  BY <1>6

LEMMA SortedClaimsAreSorted ==
  ASSUME NEW C, ClaimMap(C)
  PROVE  Sorted(SortedClaims(C), Cardinality(DOMAIN C), C)
<1> DEFINE n == Cardinality(DOMAIN C)
           Orders == Surjection(1 .. n, DOMAIN C)
           InOrder(order) ==
             \A i, k \in DOMAIN order : i < k => Outranks(C[order[i]], C[order[k]])
<1>1. \A order : order \in Orders /\ InOrder(order) <=> Sorted(order, n, C)
  BY DEF Surjection, Sorted
<1>2. \E order \in Orders : InOrder(order)
  BY <1>1, SortingExists
<1>3. SortedClaims(C) = CHOOSE order \in Orders : InOrder(order)
  BY DEF SortedClaims
<1> HIDE DEF Orders, InOrder
<1>4. SortedClaims(C) \in Orders /\ InOrder(SortedClaims(C))
  BY <1>2, <1>3
<1>5. QED
  BY <1>1, <1>4

(* One turn of the loop, and the sets it has selected after i turns.       *)
Turn(won, s, C) == IF \E w \in won : Conflict(C[w], C[s]) THEN won ELSE won \cup {s}

Turns(order, n, C, selected) ==
  selected = [i \in 0 .. n |-> IF i = 0 THEN {} ELSE Turn(selected[i - 1], order[i], C)]

(* The recursion of GreedyWinners has a solution, which is why it defines  *)
(* what the loop selects.                                                  *)
LEMMA TurnsExist ==
  ASSUME NEW C, NEW order, NEW n \in Nat
  PROVE  \E selected : Turns(order, n, C, selected)
<1> DEFINE Good == {m \in 0 .. n : \E selected : Turns(order, m, C, selected)}
<1>1. 0 \in Good
  <2> DEFINE selected == [i \in 0 .. 0 |-> {}]
  <2>1. Turns(order, 0, C, selected)
    BY DEF Turns
  <2>2. QED
    BY <2>1
<1>2. ASSUME NEW m \in 0 .. n - 1, m \in Good
      PROVE  m + 1 \in Good
  <2>1. PICK before : Turns(order, m, C, before)
    BY <1>2
  <2> DEFINE selected ==
        [i \in 0 .. m + 1 |-> IF i = m + 1 THEN Turn(before[m], order[i], C) ELSE before[i]]
  <2>2. \A i \in 0 .. m : selected[i] = before[i]
    OBVIOUS
  <2>3. selected[m + 1] = Turn(before[m], order[m + 1], C)
    OBVIOUS
  <2>4. \A i \in 0 .. m : before[i] = IF i = 0 THEN {} ELSE Turn(before[i - 1], order[i], C)
    BY <2>1 DEF Turns
  <2>5. ASSUME NEW i \in 0 .. m + 1
        PROVE  selected[i] = IF i = 0 THEN {} ELSE Turn(selected[i - 1], order[i], C)
    <3> HIDE DEF selected
    <3>1. CASE i = m + 1
      <4>1. i # 0 /\ i - 1 = m /\ m \in 0 .. m
        BY <3>1
      <4>2. QED
        BY <2>2, <2>3, <3>1, <4>1
    <3>2. CASE i = 0
      <4>1. 0 \in 0 .. m
        OBVIOUS
      <4>2. QED
        BY <2>2, <2>4, <3>2, <4>1
    <3>3. CASE i # 0 /\ i # m + 1
      <4>1. i \in 0 .. m /\ i - 1 \in 0 .. m
        BY <3>3
      <4>2. QED
        BY <2>2, <2>4, <3>3, <4>1
    <3>4. QED
      BY <3>1, <3>2, <3>3
  <2>6. selected = [i \in 0 .. m + 1 |->
                      IF i = 0 THEN {} ELSE Turn(selected[i - 1], order[i], C)]
    <3>1. \A i \in 0 .. m + 1 :
            selected[i] = IF i = 0 THEN {} ELSE Turn(selected[i - 1], order[i], C)
      BY <2>5
    <3>2. selected = [i \in 0 .. m + 1 |-> selected[i]]
      OBVIOUS
    <3> HIDE DEF selected
    <3>3. QED
      BY <3>1, <3>2
  <2>7. Turns(order, m + 1, C, selected)
    <3> HIDE DEF selected
    <3>1. QED
      BY <2>6 DEF Turns
  <2>8. m + 1 \in 0 .. n
    OBVIOUS
  <2> HIDE DEF selected
  <2>9. QED
    BY <2>7, <2>8
<1>3. n \in Good
  <2> HIDE DEF Good
  <2>1. 0 .. n \subseteq Good
    BY <1>1, <1>2, CountingUp
  <2>2. QED
    BY <2>1
<1>4. QED
  BY <1>3

(* Winners is what computeWinners computes: sorting the claims and         *)
(* selecting, in turn, each that conflicts with none selected before       *)
(* (control_arbiter.cpp:83-108), however many claims there are.            *)
THEOREM WinnersAreComputed ==
  ASSUME NEW C, ClaimMap(C)
  PROVE  Winners(C) = GreedyWinners(C)
<1> DEFINE n == Cardinality(DOMAIN C)
           order == SortedClaims(C)
           selected == CHOOSE f : Turns(order, n, C, f)
<1>1. n \in Nat
  BY FS_CardinalityType DEF ClaimMap
<1>2. Sorted(order, n, C)
  BY SortedClaimsAreSorted
<1> HIDE DEF n, order
<1>3. Turns(order, n, C, selected)
  BY <1>1, TurnsExist
<1>4. Selecting(selected, order, n, C)
  <2> HIDE DEF selected
  <2>1. \A i \in 0 .. n :
          selected[i] = IF i = 0 THEN {} ELSE Turn(selected[i - 1], order[i], C)
    BY <1>3 DEF Turns
  <2>2. 0 \in 0 .. n /\ \A i \in 1 .. n : i \in 0 .. n /\ i # 0
    BY <1>1
  <2>3. QED
    BY <2>1, <2>2 DEF Selecting, Turn
<1>5. selected[n] = Winners(C)
  <2> HIDE DEF selected
  <2>1. QED
    BY <1>1, <1>2, <1>4, LoopComputesWinners
<1>6. GreedyWinners(C) = selected[n]
  BY DEF GreedyWinners, Turns, Turn, n, order
<1>7. QED
  BY <1>5, <1>6
=============================================================================
