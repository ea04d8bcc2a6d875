-------------------------- MODULE ClassReviewProofs --------------------------
(***************************************************************************)
(* Proofs about ClassReview for any sets of vessels, reviews, users and    *)
(* keys.  ReviewIInv is inductive; the three facts that make up the        *)
(* argument are ReviewInitInv, ReviewStepInv and the definitions of its    *)
(* conjuncts.                                                              *)
(***************************************************************************)
EXTENDS ClassReview, SequenceTheorems, TLAPS

(* Every answer given for a key is the one on record, and no record is     *)
(* ever removed or rewritten.                                              *)
RepliesRecorded ==
    \A x \in replies :
        /\ << x.actor, x.key >> \in DOMAIN idempotency_keys
        /\ idempotency_keys[<< x.actor, x.key >>].review = x.review

(* A key is recorded only together with a submission.                      *)
KeysSubmitted ==
    \A e \in DOMAIN idempotency_keys :
        LET r == idempotency_keys[e].review
        IN  r \in DOMAIN class_reviews /\ class_reviews[r].status # "draft"

(* Drafts are made by coordinators, about registered vessels.              *)
DraftedByCoordinator ==
    \A r \in DOMAIN class_reviews :
        /\ class_reviews[r].submitted_by \in Coordinators
        /\ class_reviews[r].vessel \in vessels

ReviewIInv ==
    /\ ReviewTypeOK
    /\ DraftedByCoordinator
    /\ DecisionConsistent
    /\ RepliesRecorded
    /\ KeysSubmitted

-----------------------------------------------------------------------------
(* What an UPDATE of a review sets, and what it leaves.                    *)
LEMMA ReviewAdvance ==
    ASSUME NEW row \in ReviewRow, NEW s \in ReviewStatus
    PROVE  /\ Advance(row, s) \in ReviewRow
           /\ Advance(row, s).status = s
           /\ Advance(row, s).vessel = row.vessel
           /\ Advance(row, s).submitted_by = row.submitted_by
<1>1. /\ row.vessel \in Vessels
      /\ row.submitted_by \in Users
      /\ row.version \in Nat
      /\ row = [status |-> row.status, vessel |-> row.vessel,
                submitted_by |-> row.submitted_by, version |-> row.version]
    BY DEF ReviewRow
<1> DEFINE mid == [row EXCEPT !.status = s]
<1>2. Advance(row, s) = [status |-> s, vessel |-> row.vessel,
                         submitted_by |-> row.submitted_by,
                         version |-> row.version + 1]
  <2>1. /\ mid \in ReviewRow
        /\ mid = [status |-> s, vessel |-> row.vessel,
                  submitted_by |-> row.submitted_by, version |-> row.version]
    BY <1>1 DEF ReviewRow
  <2>2. Advance(row, s) = [mid EXCEPT !.version = row.version + 1]
    BY Zenon DEF Advance
  <2> HIDE DEF mid
  <2> QED BY <2>1, <2>2 DEF ReviewRow
<1>3. row.version + 1 \in Nat
    BY <1>1
<1> QED BY <1>1, <1>2, <1>3 DEF ReviewRow

(* The initial tables are well typed and satisfy the invariant, empty as   *)
(* they are.                                                               *)
LEMMA ReviewInitInv == ReviewInit => ReviewIInv
<1> SUFFICES ASSUME ReviewInit PROVE ReviewIInv
    OBVIOUS
<1>1. ReviewTypeOK
    BY DEF ReviewInit, ReviewTypeOK, EmptyTable
<1>2. DraftedByCoordinator /\ RepliesRecorded /\ KeysSubmitted
    BY DEF ReviewInit, DraftedByCoordinator, RepliesRecorded, KeysSubmitted,
           EmptyTable
<1>3. DecisionConsistent
    BY DEF ReviewInit, DecisionConsistent, Decided, EmptyTable
<1> QED BY <1>1, <1>2, <1>3 DEF ReviewIInv

(* Every step keeps every row well typed (the columns and ids of the       *)
(* schema).                                                                *)
LEMMA ReviewStepType ==
    ASSUME ReviewTypeOK, ReviewNext
    PROVE  ReviewTypeOK'
<1> USE DEF ReviewTypeOK, Users
<1>1. ASSUME NEW a \in Users, NEW v \in Vessels, RegisterVessel(a, v)
      PROVE  ReviewTypeOK'
    BY <1>1 DEF RegisterVessel
<1>2. ASSUME NEW a \in Users, NEW r \in Reviews, NEW v \in Vessels,
             CreateReview(a, r, v)
      PROVE  ReviewTypeOK'
    BY <1>2 DEF CreateReview, CreateReviewCheck, CreateReviewWrite,
                Insert, ReviewRow, ReviewStatus
<1>3. ASSUME NEW a \in Users, NEW r \in Reviews, NEW k \in Keys \cup {NoKey},
             NEW n \in Versions, SubmitReview(a, r, k, n)
      PROVE  ReviewTypeOK'
  <2> USE <1>3 DEF SubmitReview, SubmitCheck, SubmitWrite
  <2>1. class_reviews' \in [DOMAIN class_reviews -> ReviewRow]
    BY ReviewAdvance DEF ReviewStatus
  <2>2. review_audit' \in [Reviews -> Seq({"create", "submit", "decide"})]
    OBVIOUS
  <2>3. CASE k = NoKey
    BY <2>1, <2>2, <2>3 DEF RecordKey, KeyUnused
  <2>4. CASE k # NoKey
    <3>1. [review |-> r, live |-> TRUE] \in KeyRow
      BY DEF KeyRow
    <3>2. /\ idempotency_keys' = Insert(idempotency_keys, << a, k >>,
                 [review |-> r, live |-> TRUE])
          /\ replies' = replies \cup {[actor |-> a, key |-> k, review |-> r]}
      BY <2>4 DEF RecordKey, KeyUnused
    <3>3. /\ DOMAIN idempotency_keys' \subseteq Users \X Keys
          /\ idempotency_keys' \in [DOMAIN idempotency_keys' -> KeyRow]
      BY <3>1, <3>2, <2>4 DEF Insert
    <3>4. replies' \subseteq Reply
      BY <3>2, <2>4 DEF Reply
    <3> QED BY <2>1, <2>2, <3>3, <3>4
  <2> QED BY <2>3, <2>4
<1>4. ASSUME NEW a \in Users, NEW k \in Keys, ReplaySubmit(a, k)
      PROVE  ReviewTypeOK'
    BY <1>4 DEF ReplaySubmit, LiveKey, Reply, KeyRow
<1>5. ASSUME NEW a \in Users, NEW r \in Reviews, NEW d \in Decisions,
             NEW n \in Versions, DecideReview(a, r, d, n)
      PROVE  ReviewTypeOK'
  <2> USE <1>5 DEF DecideReview, DecideCheck, DecideWrite
  <2>1. class_reviews' \in [DOMAIN class_reviews -> ReviewRow]
    BY ReviewAdvance DEF ReviewStatus
  <2>2. review_audit' \in [Reviews -> Seq({"create", "submit", "decide"})]
    OBVIOUS
  <2>3. review_decisions' \subseteq DecisionRow
    BY DEF DecisionRow
  <2> QED BY <2>1, <2>2, <2>3
<1>6. ASSUME NEW a \in Users, NEW k \in Keys, KeyExpires(a, k)
      PROVE  ReviewTypeOK'
    BY <1>6 DEF KeyExpires, LiveKey, KeyRow
<1> QED BY <1>1, <1>2, <1>3, <1>4, <1>5, <1>6 DEF ReviewNext

(* A step that leaves all review state alone keeps the invariant.          *)
LEMMA ReviewStutter ==
    ASSUME ReviewIInv, UNCHANGED reviewVars
    PROVE  ReviewIInv'
BY DEF ReviewIInv, ReviewTypeOK, DraftedByCoordinator, DecisionConsistent,
       Decided, RepliesRecorded, KeysSubmitted, reviewVars

(* Every step keeps the invariant.                                         *)
LEMMA ReviewStepInv ==
    ASSUME ReviewIInv, ReviewNext
    PROVE  ReviewIInv'
<1>0. ReviewTypeOK'
    BY ReviewStepType DEF ReviewIInv
<1> USE DEF ReviewIInv
<1>1. ASSUME NEW a \in Users, NEW v \in Vessels, RegisterVessel(a, v)
      PROVE  ReviewIInv'
    BY <1>0, <1>1 DEF RegisterVessel, DraftedByCoordinator, DecisionConsistent,
           Decided, RepliesRecorded, KeysSubmitted
<1>2. ASSUME NEW a \in Users, NEW r \in Reviews, NEW v \in Vessels,
             CreateReview(a, r, v)
      PROVE  ReviewIInv'
  <2>1. DraftedByCoordinator'
    BY <1>2 DEF CreateReview, CreateReviewCheck, CreateReviewWrite,
                Insert, DraftedByCoordinator
  <2>2. DecisionConsistent'
    BY <1>2 DEF CreateReview, CreateReviewCheck, CreateReviewWrite,
                Insert, DecisionConsistent, Decided, Decisions,
                ReviewTypeOK, DecisionRow
  <2>3. RepliesRecorded' /\ KeysSubmitted'
    BY <1>2 DEF CreateReview, CreateReviewCheck, CreateReviewWrite,
                Insert, RepliesRecorded, KeysSubmitted
  <2> QED BY <1>0, <2>1, <2>2, <2>3
<1>3. ASSUME NEW a \in Users, NEW r \in Reviews, NEW k \in Keys \cup {NoKey},
             NEW n \in Versions, SubmitReview(a, r, k, n)
      PROVE  ReviewIInv'
  <2> USE <1>3 DEF SubmitReview, SubmitCheck, SubmitWrite
  <2>0. \A s \in DOMAIN class_reviews :
            /\ class_reviews'[s].submitted_by = class_reviews[s].submitted_by
            /\ class_reviews'[s].vessel = class_reviews[s].vessel
            /\ class_reviews'[s].status =
                  IF s = r THEN "submitted" ELSE class_reviews[s].status
    BY ReviewAdvance DEF ReviewTypeOK, ReviewStatus
  <2>1. DraftedByCoordinator'
    BY <2>0 DEF DraftedByCoordinator
  <2>2. DecisionConsistent'
    BY <2>0 DEF DecisionConsistent, Decided, Decisions, ReviewTypeOK,
                DecisionRow
  <2>3. RepliesRecorded'
    <3>1. CASE k = NoKey
      BY <3>1 DEF RepliesRecorded, RecordKey
    <3>2. CASE k # NoKey
      <4>1. /\ << a, k >> \notin DOMAIN idempotency_keys
            /\ idempotency_keys' = Insert(idempotency_keys, << a, k >>,
                   [review |-> r, live |-> TRUE])
            /\ replies' = replies \cup {[actor |-> a, key |-> k, review |-> r]}
        BY <3>2 DEF RecordKey, KeyUnused
      <4>2. /\ << a, k >> \in DOMAIN idempotency_keys'
            /\ idempotency_keys'[<< a, k >>].review = r
            /\ \A e \in DOMAIN idempotency_keys :
                  /\ e \in DOMAIN idempotency_keys'
                  /\ idempotency_keys'[e] = idempotency_keys[e]
        BY <4>1 DEF Insert
      <4>3. ASSUME NEW x \in replies'
            PROVE  /\ << x.actor, x.key >> \in DOMAIN idempotency_keys'
                   /\ idempotency_keys'[<< x.actor, x.key >>].review = x.review
        <5>1. CASE x \in replies
          BY <4>2, <5>1 DEF RepliesRecorded
        <5>2. CASE x = [actor |-> a, key |-> k, review |-> r]
          BY <4>2, <5>2
        <5> QED BY <4>1, <5>1, <5>2
      <4> QED BY <4>3 DEF RepliesRecorded
    <3> QED BY <3>1, <3>2
  <2>4. KeysSubmitted'
    BY <2>0 DEF KeysSubmitted, RecordKey, KeyUnused, Insert, ReviewTypeOK
  <2> QED BY <1>0, <2>1, <2>2, <2>3, <2>4
<1>4. ASSUME NEW a \in Users, NEW k \in Keys, ReplaySubmit(a, k)
      PROVE  ReviewIInv'
  <2>1. RepliesRecorded'
    <3> DEFINE mine == [actor |-> a, key |-> k,
                        review |-> idempotency_keys[<< a, k >>].review]
    <3>1. /\ replies' = replies \cup {mine}
          /\ UNCHANGED idempotency_keys
          /\ << a, k >> \in DOMAIN idempotency_keys
      BY <1>4 DEF ReplaySubmit, LiveKey
    <3>2. /\ << mine.actor, mine.key >> \in DOMAIN idempotency_keys
          /\ idempotency_keys[<< mine.actor, mine.key >>].review = mine.review
      BY <3>1
    <3> HIDE DEF mine
    <3> QED BY <3>1, <3>2 DEF RepliesRecorded
  <2> QED BY <1>0, <1>4, <2>1 DEF ReplaySubmit, DraftedByCoordinator,
                DecisionConsistent, Decided, KeysSubmitted
<1>5. ASSUME NEW a \in Users, NEW r \in Reviews, NEW d \in Decisions,
             NEW n \in Versions, DecideReview(a, r, d, n)
      PROVE  ReviewIInv'
  <2> USE <1>5 DEF DecideReview, DecideCheck, DecideWrite
  <2>0. \A s \in DOMAIN class_reviews :
            /\ class_reviews'[s].submitted_by = class_reviews[s].submitted_by
            /\ class_reviews'[s].vessel = class_reviews[s].vessel
            /\ class_reviews'[s].status =
                  IF s = r THEN d ELSE class_reviews[s].status
    BY ReviewAdvance DEF ReviewTypeOK, ReviewStatus
  <2>1. DraftedByCoordinator'
    BY <2>0 DEF DraftedByCoordinator
  <2>2. DecisionConsistent'
    <3>1. \A e \in review_decisions : e.review # r
      BY DEF DecisionConsistent, Decided, Decisions, ReviewTypeOK, DecisionRow
    <3>2. a # class_reviews[r].submitted_by
      BY RolesAssumption DEF DraftedByCoordinator
    <3>3. \A s \in Reviews : Decided(s)' <=> (s = r \/ Decided(s))
      BY <2>0 DEF Decided, Decisions, ReviewTypeOK
    <3>4. \A s \in Reviews :
              Decided(s)' <=> \E e \in review_decisions' : e.review = s
      <4> DEFINE mine == [review |-> r, reviewer |-> a, decision |-> d]
      <4>1. review_decisions' = review_decisions \cup {mine} /\ mine.review = r
        OBVIOUS
      <4> HIDE DEF mine
      <4> QED BY <3>3, <4>1 DEF DecisionConsistent
    <3>5. \A e \in review_decisions :
              e.review \in DOMAIN class_reviews /\ Decided(e.review)
      BY DEF DecisionConsistent, Decided, ReviewTypeOK, DecisionRow
    <3>6. ASSUME NEW e \in review_decisions'
          PROVE  /\ class_reviews'[e.review].status = e.decision
                 /\ e.reviewer \in Surveyors
                 /\ e.reviewer # class_reviews'[e.review].submitted_by
                 /\ \A f \in review_decisions' : f.review = e.review => f = e
      BY <2>0, <3>1, <3>2, <3>5, <3>6 DEF DecisionConsistent
    <3> QED BY <3>4, <3>6 DEF DecisionConsistent
  <2>3. RepliesRecorded'
    BY DEF RepliesRecorded
  <2>4. KeysSubmitted'
    BY <2>0 DEF KeysSubmitted, ReviewTypeOK, Decisions
  <2> QED BY <1>0, <2>1, <2>2, <2>3, <2>4
<1>6. ASSUME NEW a \in Users, NEW k \in Keys, KeyExpires(a, k)
      PROVE  ReviewIInv'
  <2>1. /\ DOMAIN idempotency_keys' = DOMAIN idempotency_keys
        /\ \A e \in DOMAIN idempotency_keys :
              idempotency_keys'[e].review = idempotency_keys[e].review
    BY <1>6 DEF KeyExpires, LiveKey, ReviewTypeOK, KeyRow
  <2>2. RepliesRecorded' /\ KeysSubmitted'
    BY <1>6, <2>1 DEF KeyExpires, RepliesRecorded, KeysSubmitted
  <2> QED BY <1>0, <1>6, <2>2 DEF KeyExpires, DraftedByCoordinator,
                DecisionConsistent, Decided
<1> QED BY <1>1, <1>2, <1>3, <1>4, <1>5, <1>6 DEF ReviewNext

(* The invariant holds in every reachable state.                           *)
THEOREM ReviewInductive == ReviewSpec => []ReviewIInv
<1>1. ReviewIInv /\ [ReviewNext]_reviewVars => ReviewIInv'
    BY ReviewStepInv, ReviewStutter
<1> QED BY ReviewInitInv, <1>1, PTL DEF ReviewSpec

(* Rows stay well typed whatever requests are served (the schema).         *)
THEOREM ReviewTypes == ReviewSpec => []ReviewTypeOK
<1>1. ReviewIInv => ReviewTypeOK
    BY DEF ReviewIInv
<1> QED BY ReviewInductive, <1>1, PTL

(* DecideReview keeps the status column and the decision rows in step, and *)
(* no coordinator decides on a review of their own.                        *)
THEOREM ReviewDecisions == ReviewSpec => []DecisionConsistent
<1>1. ReviewIInv => DecisionConsistent
    BY DEF ReviewIInv
<1> QED BY ReviewInductive, <1>1, PTL

(* An idempotency key answers with one review for ever (SubmitReview).     *)
THEOREM ReviewKeys == ReviewSpec => []KeyNamesOneReview
<1>1. ReviewIInv => KeyNamesOneReview
    BY DEF ReviewIInv, RepliesRecorded, KeysSubmitted, KeyNamesOneReview
<1> QED BY ReviewInductive, <1>1, PTL

(* No step moves a review off its flow, loses it, or changes it without    *)
(* its version.                                                            *)
LEMMA ReviewStepMoves ==
    ASSUME ReviewIInv, ReviewNext
    PROVE  ReviewRowsMove
<1> USE DEF ReviewIInv, ReviewTypeOK
<1>0. ASSUME UNCHANGED class_reviews
      PROVE  ReviewRowsMove
  BY <1>0 DEF ReviewRowsMove
<1>1. ASSUME NEW a \in Users, NEW r \in Reviews, NEW v \in Vessels,
             CreateReview(a, r, v)
      PROVE  ReviewRowsMove
  BY <1>1 DEF CreateReview, CreateReviewCheck, CreateReviewWrite,
                Insert, ReviewRowsMove
<1>2. ASSUME NEW r \in DOMAIN class_reviews, NEW s \in ReviewStatus,
             << class_reviews[r].status, s >> \in ReviewFlow,
             class_reviews' =
                [class_reviews EXCEPT ![r] = Advance(@, s)]
      PROVE  ReviewRowsMove
  <2>1. Advance(class_reviews[r], s) =
            [class_reviews[r] EXCEPT !.status = s,
                                     !.version = class_reviews[r].version + 1]
    BY Zenon DEF Advance
  <2>2. Advance(class_reviews[r], s).status = s
    BY ReviewAdvance
  <2> QED BY <1>2, <2>1, <2>2 DEF ReviewRowsMove
<1>3. ASSUME NEW a \in Users, NEW r \in Reviews, NEW k \in Keys \cup {NoKey},
             NEW n \in Versions, SubmitReview(a, r, k, n)
      PROVE  ReviewRowsMove
  BY <1>2, <1>3 DEF SubmitReview, SubmitCheck, SubmitWrite, ReviewFlow,
                    ReviewStatus
<1>4. ASSUME NEW a \in Users, NEW r \in Reviews, NEW d \in Decisions,
             NEW n \in Versions, DecideReview(a, r, d, n)
      PROVE  ReviewRowsMove
  BY <1>2, <1>4 DEF DecideReview, DecideCheck, DecideWrite, ReviewFlow,
                    ReviewStatus, Decisions
<1> QED BY <1>0, <1>1, <1>3, <1>4
        DEF ReviewNext, RegisterVessel, ReplaySubmit, KeyExpires

(* Reviews change only along the documented flow and never without a new   *)
(* version (the conditional UPDATEs of SubmitReview and DecideReview).     *)
THEOREM ReviewMoves == ReviewSpec => ReviewHistory
<1>1. ReviewIInv /\ [ReviewNext]_reviewVars => [ReviewRowsMove]_reviewVars
    BY ReviewStepMoves
<1> QED BY ReviewInductive, <1>1, PTL DEF ReviewSpec, ReviewHistory

-----------------------------------------------------------------------------
(* The actions of the audit events of reviews, plans and legs, and trails  *)
(* of up to three of them, as Append builds them.                          *)
Event == {"create", "submit", "decide", "schedule", "release", "complete"}

LEMMA ShortTrails ==
    /\ Len(<< >>) = 0
    /\ \A e \in Event : Append(<< >>, e) = << e >> /\ Len(<< e >>) = 1
    /\ \A e, f \in Event :
          Append(<< e >>, f) = << e, f >> /\ Len(<< e, f >>) = 2
    /\ \A e, f, g \in Event :
          Append(<< e, f >>, g) = << e, f, g >> /\ Len(<< e, f, g >>) = 3
<1> USE DEF Event
<1>1. ASSUME NEW e \in Event
      PROVE  Append(<< >>, e) = << e >> /\ Len(<< e >>) = 1
    BY <1>1
<1>2. ASSUME NEW e \in Event, NEW f \in Event
      PROVE  Append(<< e >>, f) = << e, f >> /\ Len(<< e, f >>) = 2
  <2>1. << e >> \in Seq(Event) /\ << e, f >> \in Seq(Event)
    OBVIOUS
  <2>2. Len(<< e >>) = 1 /\ Len(<< e, f >>) = 2
    OBVIOUS
  <2>3. Len(Append(<< e >>, f)) = 2 /\ Append(<< e >>, f) \in Seq(Event)
    BY <2>1, <2>2
  <2>4. \A i \in 1..2 : Append(<< e >>, f)[i] = << e, f >>[i]
    BY <2>1, <2>2
  <2> QED BY <2>1, <2>2, <2>3, <2>4, SeqEqual
<1>3. ASSUME NEW e \in Event, NEW f \in Event, NEW g \in Event
      PROVE  Append(<< e, f >>, g) = << e, f, g >> /\ Len(<< e, f, g >>) = 3
  <2>1. << e, f >> \in Seq(Event) /\ << e, f, g >> \in Seq(Event)
    OBVIOUS
  <2>2. Len(<< e, f >>) = 2 /\ Len(<< e, f, g >>) = 3
    OBVIOUS
  <2>3. Len(Append(<< e, f >>, g)) = 3 /\ Append(<< e, f >>, g) \in Seq(Event)
    BY <2>1, <2>2
  <2>4. \A i \in 1..3 : Append(<< e, f >>, g)[i] = << e, f, g >>[i]
    BY <2>1, <2>2
  <2> QED BY <2>1, <2>2, <2>3, <2>4, SeqEqual
<1> QED BY <1>1, <1>2, <1>3

(* A review that moves gets the next event and the next version; no other  *)
(* trail changes.                                                          *)
LEMMA MovedAudited ==
    ASSUME ReviewTypeOK, ReviewAudited, NEW r \in DOMAIN class_reviews,
           NEW s \in ReviewStatus, NEW event,
           \/ /\ class_reviews[r].status = "draft"
              /\ s = "submitted" /\ event = "submit"
           \/ /\ class_reviews[r].status = "submitted"
              /\ s \in Decisions /\ event = "decide",
           class_reviews' = [class_reviews EXCEPT ![r] = Advance(@, s)],
           review_audit' = [review_audit EXCEPT ![r] = Append(@, event)]
    PROVE  ReviewAudited'
<1>1. /\ r \in Reviews
      /\ review_audit \in [Reviews -> Seq({"create", "submit", "decide"})]
      /\ DOMAIN class_reviews' = DOMAIN class_reviews
      /\ DOMAIN class_reviews \subseteq Reviews
      /\ class_reviews[r] \in ReviewRow
    BY DEF ReviewTypeOK
<1>2. /\ review_audit[r] = ReviewTrail(r)
      /\ class_reviews[r].version = Len(review_audit[r])
    BY <1>1 DEF ReviewAudited
<1>3. /\ class_reviews'[r].status = s
      /\ class_reviews'[r].version = class_reviews[r].version + 1
  <2>1. class_reviews'[r] = Advance(class_reviews[r], s)
    OBVIOUS
  <2>2. class_reviews'[r] = [class_reviews[r] EXCEPT !.status = s,
                                !.version = class_reviews[r].version + 1]
    BY <2>1, Zenon DEF Advance
  <2> QED BY <1>1, <2>1, <2>2, ReviewAdvance DEF ReviewRow
<1>4. review_audit'[r] = Append(review_audit[r], event)
    BY <1>1
<1>5. /\ review_audit'[r] = ReviewTrail(r)'
      /\ class_reviews'[r].version = Len(review_audit'[r])
  <2>1. CASE event = "submit"
    <3>1. review_audit[r] = << "create" >> /\ class_reviews[r].version = 1
      BY <1>2, <2>1, ShortTrails DEF Event, ReviewTrail
    <3>2. review_audit'[r] = << "create", "submit" >>
      BY <1>4, <2>1, <3>1, ShortTrails DEF Event
    <3>3. ReviewTrail(r)' = << "create", "submit" >>
      BY <1>1, <1>3, <2>1 DEF ReviewTrail
    <3>4. Len(review_audit'[r]) = 2
      BY <3>2, ShortTrails DEF Event
    <3>5. class_reviews'[r].version = 2
      BY <1>3, <3>1
    <3> QED BY <3>2, <3>3, <3>4, <3>5, Zenon
  <2>2. CASE event = "decide"
    <3>1. review_audit[r] = << "create", "submit" >> /\ class_reviews[r].version = 2
      BY <1>2, <2>2, ShortTrails DEF Event, ReviewTrail
    <3>2. review_audit'[r] = << "create", "submit", "decide" >>
      BY <1>4, <2>2, <3>1, ShortTrails DEF Event
    <3>3. ReviewTrail(r)' = << "create", "submit", "decide" >>
      BY <1>1, <1>3, <2>2 DEF ReviewTrail, Decisions
    <3>4. Len(review_audit'[r]) = 3
      BY <3>2, ShortTrails DEF Event
    <3>5. class_reviews'[r].version = 3
      BY <1>3, <3>1
    <3> QED BY <3>2, <3>3, <3>4, <3>5, Zenon
  <2> QED BY <2>1, <2>2
<1>6. ASSUME NEW x \in Reviews, x # r
      PROVE  /\ review_audit'[x] = ReviewTrail(x)'
             /\ x \in DOMAIN class_reviews' =>
                   class_reviews'[x].version = Len(review_audit'[x])
  <2>1. /\ review_audit'[x] = review_audit[x]
        /\ ReviewTrail(x)' = ReviewTrail(x)
        /\ x \in DOMAIN class_reviews => class_reviews'[x] = class_reviews[x]
    BY <1>1, <1>6 DEF ReviewTrail
  <2> QED BY <1>1, <2>1 DEF ReviewAudited
<1> QED BY <1>1, <1>5, <1>6 DEF ReviewAudited

(* Each state change of a review leaves exactly one audit event, in the    *)
(* order of the flow (CreateReview, SubmitReview, DecideReview).           *)
THEOREM ReviewsAudited == ReviewSpec => []ReviewAudited
<1>1. ReviewInit => ReviewAudited
    BY DEF ReviewInit, EmptyTable, ReviewAudited, ReviewTrail
<1>2. ASSUME ReviewIInv, ReviewAudited, ReviewNext
      PROVE  ReviewAudited'
  <2> USE DEF ReviewIInv
  <2>1. ASSUME UNCHANGED << class_reviews, review_audit >>
        PROVE  ReviewAudited'
    BY <1>2, <2>1 DEF ReviewAudited, ReviewTrail
  <2>2. ASSUME NEW a \in Users, NEW r \in Reviews, NEW v \in Vessels,
               CreateReview(a, r, v)
        PROVE  ReviewAudited'
    <3>1. /\ r \notin DOMAIN class_reviews
          /\ DOMAIN class_reviews' = DOMAIN class_reviews \cup {r}
          /\ class_reviews'[r].status = "draft" /\ class_reviews'[r].version = 1
          /\ \A x \in DOMAIN class_reviews : class_reviews'[x] = class_reviews[x]
          /\ review_audit' = [review_audit EXCEPT ![r] = Append(@, "create")]
          /\ review_audit \in [Reviews -> Seq({"create", "submit", "decide"})]
      BY <1>2, <2>2 DEF CreateReview, CreateReviewCheck, CreateReviewWrite,
             Insert, ReviewTypeOK
    <3>2. review_audit'[r] = << "create" >>
      BY <1>2, <3>1, ShortTrails DEF Event, ReviewAudited, ReviewTrail
    <3>3. \A x \in Reviews \ {r} : /\ review_audit'[x] = review_audit[x]
                                  /\ ReviewTrail(x)' = ReviewTrail(x)
      BY <3>1 DEF ReviewTrail
    <3>4. ReviewTrail(r)' = << "create" >> /\ Len(review_audit'[r]) = 1
      BY <3>1, <3>2, ShortTrails DEF Event, ReviewTrail
    <3> QED BY <1>2, <3>1, <3>2, <3>3, <3>4 DEF ReviewAudited
  <2>3. ASSUME NEW a \in Users, NEW r \in Reviews, NEW k \in Keys \cup {NoKey},
               NEW n \in Versions, SubmitReview(a, r, k, n)
        PROVE  ReviewAudited'
    BY <1>2, <2>3, MovedAudited DEF SubmitReview, SubmitCheck, SubmitWrite,
           ReviewStatus
  <2>4. ASSUME NEW a \in Users, NEW r \in Reviews, NEW d \in Decisions,
               NEW n \in Versions, DecideReview(a, r, d, n)
        PROVE  ReviewAudited'
    BY <1>2, <2>4, MovedAudited DEF DecideReview, DecideCheck, DecideWrite,
           ReviewStatus, Decisions
  <2> QED BY <1>2, <2>1, <2>2, <2>3, <2>4
          DEF ReviewNext, RegisterVessel, ReplaySubmit, KeyExpires
<1>3. ReviewAudited /\ UNCHANGED reviewVars => ReviewAudited'
    BY DEF reviewVars, ReviewAudited, ReviewTrail
<1> QED BY ReviewInductive, <1>1, <1>2, <1>3, PTL DEF ReviewSpec
=============================================================================
