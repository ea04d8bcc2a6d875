----------------------------- MODULE ClassReview -----------------------------
(***************************************************************************)
(* Vessel registration and class review: the review service together with  *)
(* the store operations it calls.  Each action is one request served by    *)
(* one transaction of internal/storage/sqlite/review.go.  A request whose  *)
(* guard fails is answered with an error and rolled back, which changes    *)
(* nothing.  StoreTx shows that running the transactions concurrently adds *)
(* no behaviour.                                                           *)
(*                                                                         *)
(* XCheck is what a transaction reads and refuses on before its first      *)
(* write, XWrite its conditional UPDATE, its INSERTs and its audit event.  *)
(***************************************************************************)
EXTENDS Integers, Sequences, Tables

CONSTANTS
    Vessels,       \* vessel identities: a unique name with its CCS number
    Reviews,       \* row ids of class_reviews
    Coordinators,  \* users whose role is trial_coordinator
    Surveyors,     \* users whose role is class_surveyor
    Keys,          \* values of the Idempotency-Key header
    NoKey,         \* the header is absent or empty
    Versions       \* versions a client may send in If-Match

ASSUME RolesAssumption == Coordinators \cap Surveyors = {}
ASSUME KeysAssumption == NoKey \notin Keys
ASSUME VersionsAssumption == Versions \subseteq Nat \ {0}

VARIABLES
    vessels,           \* the registered vessels
    class_reviews,     \* review id -> row
    review_decisions,  \* the decision rows
    idempotency_keys,  \* <<actor, key>> -> the review recorded for the key
    review_audit,      \* review id -> actions of its audit events, in order
    replies            \* history: successful keyed submissions as answered

reviewVars == << vessels, class_reviews, review_decisions,
                 idempotency_keys, review_audit, replies >>

Users == Coordinators \cup Surveyors
Decisions == {"approved", "rejected"}
ReviewStatus == {"draft", "submitted"} \cup Decisions
ReviewRow == [status : ReviewStatus, vessel : Vessels,
              submitted_by : Users, version : Nat]
DecisionRow == [review : Reviews, reviewer : Users, decision : Decisions]
KeyRow == [review : Reviews, live : BOOLEAN]
Reply == [actor : Users, key : Keys, review : Reviews]

-----------------------------------------------------------------------------
ReviewInit ==
    /\ vessels = {}
    /\ class_reviews = EmptyTable
    /\ review_decisions = {}
    /\ idempotency_keys = EmptyTable
    /\ review_audit = [r \in Reviews |-> << >>]
    /\ replies = {}

RegisterVessel(actor, v) ==
    /\ actor \in Coordinators
    /\ v \notin vessels
    /\ vessels' = vessels \cup {v}
    /\ UNCHANGED << class_reviews, review_decisions, idempotency_keys,
                    review_audit, replies >>

(* r is the id AUTOINCREMENT hands out next.                               *)
CreateReviewCheck(actor, r, v) ==
    /\ actor \in Coordinators
    /\ v \in vessels
    /\ r \notin DOMAIN class_reviews

CreateReviewWrite(actor, r, v) ==
    /\ class_reviews' = Insert(class_reviews, r,
           [status |-> "draft", vessel |-> v,
            submitted_by |-> actor, version |-> 1])
    /\ review_audit' = [review_audit EXCEPT ![r] = Append(@, "create")]
    /\ UNCHANGED << vessels, review_decisions, idempotency_keys, replies >>

CreateReview(actor, r, v) ==
    CreateReviewCheck(actor, r, v) /\ CreateReviewWrite(actor, r, v)

(* The lookup that opens a submission: a row for this actor and key whose  *)
(* expires_at is still ahead.                                              *)
LiveKey(actor, k) ==
    /\ k # NoKey
    /\ << actor, k >> \in DOMAIN idempotency_keys
    /\ idempotency_keys[<< actor, k >>].live

SubmitCheck(actor, r, k) ==
    /\ actor \in Coordinators
    /\ ~ LiveKey(actor, k)
    /\ r \in DOMAIN class_reviews
    /\ class_reviews[r].status = "draft"

(* Faulty: an expired key may be taken over.                               *)
KeyTakenOver(actor, k) == ~ LiveKey(actor, k)

(* UNIQUE(actor_id, method, route, idem_key) covers expired rows as well,  *)
(* so an expired key makes the INSERT, and with it the submission, fail.   *)
KeyUnused(actor, k) == << actor, k >> \notin DOMAIN idempotency_keys

(* Faulty: a missing header is recorded like any key.                      *)
RecordEmptyKey(actor, r, k) ==
    /\ KeyUnused(actor, k)
    /\ idempotency_keys' = Insert(idempotency_keys, << actor, k >>,
           [review |-> r, live |-> TRUE])
    /\ replies' = replies \cup {[actor |-> actor, key |-> k, review |-> r]}

RecordKey(actor, r, k) ==
    IF k = NoKey
    THEN UNCHANGED << idempotency_keys, replies >>
    ELSE /\ KeyUnused(actor, k)
         /\ idempotency_keys' = Insert(idempotency_keys, << actor, k >>,
                [review |-> r, live |-> TRUE])
         /\ replies' = replies \cup
                {[actor |-> actor, key |-> k, review |-> r]}

SubmitWrite(actor, r, k, version) ==
    /\ class_reviews[r].version = version
    /\ class_reviews' = [class_reviews EXCEPT ![r] = Advance(@, "submitted")]
    /\ RecordKey(actor, r, k)
    /\ review_audit' = [review_audit EXCEPT ![r] = Append(@, "submit")]
    /\ UNCHANGED << vessels, review_decisions >>

SubmitReview(actor, r, k, version) ==
    SubmitCheck(actor, r, k) /\ SubmitWrite(actor, r, k, version)

(* A live key answers with the review recorded for it, as it is now,       *)
(* whichever review the request names.                                     *)
ReplaySubmit(actor, k) ==
    /\ actor \in Coordinators
    /\ LiveKey(actor, k)
    /\ replies' = replies \cup
           {[actor |-> actor, key |-> k,
             review |-> idempotency_keys[<< actor, k >>].review]}
    /\ UNCHANGED << vessels, class_reviews, review_decisions,
                    idempotency_keys, review_audit >>

(* Faulty: no test of the role; a draft may be decided.                    *)
DecideByAnyone(actor, r, decision) ==
    /\ decision \in Decisions
    /\ r \in DOMAIN class_reviews
    /\ class_reviews[r].status = "submitted"

DecideDraft(actor, r, decision) ==
    /\ actor \in Surveyors
    /\ decision \in Decisions
    /\ r \in DOMAIN class_reviews
    /\ class_reviews[r].status \in {"draft", "submitted"}

DecideCheck(actor, r, decision) ==
    /\ actor \in Surveyors
    /\ decision \in Decisions
    /\ r \in DOMAIN class_reviews
    /\ class_reviews[r].status = "submitted"

DecideWrite(actor, r, decision, version) ==
    /\ class_reviews[r].version = version
    /\ class_reviews' = [class_reviews EXCEPT ![r] = Advance(@, decision)]
    /\ review_decisions' = review_decisions \cup
           {[review |-> r, reviewer |-> actor, decision |-> decision]}
    /\ review_audit' = [review_audit EXCEPT ![r] = Append(@, "decide")]
    /\ UNCHANGED << vessels, idempotency_keys, replies >>

DecideReview(actor, r, decision, version) ==
    DecideCheck(actor, r, decision) /\ DecideWrite(actor, r, decision, version)

(* Twenty-four hours after the submission the clock passes expires_at; the *)
(* row stays.                                                              *)
KeyExpires(actor, k) ==
    /\ LiveKey(actor, k)
    /\ idempotency_keys' = [idempotency_keys EXCEPT ![<< actor, k >>].live = FALSE]
    /\ UNCHANGED << vessels, class_reviews, review_decisions,
                    review_audit, replies >>

ReviewNext ==
    \E actor \in Users :
        \/ \E v \in Vessels : RegisterVessel(actor, v)
        \/ \E r \in Reviews, v \in Vessels : CreateReview(actor, r, v)
        \/ \E r \in Reviews, k \in Keys \cup {NoKey}, n \in Versions :
              SubmitReview(actor, r, k, n)
        \/ \E k \in Keys : ReplaySubmit(actor, k)
        \/ \E r \in Reviews, d \in Decisions, n \in Versions :
              DecideReview(actor, r, d, n)
        \/ \E k \in Keys : KeyExpires(actor, k)

ReviewSpec == ReviewInit /\ [][ReviewNext]_reviewVars

-----------------------------------------------------------------------------
(* Every row has the columns the schema gives it, every id is known, and a *)
(* row id is used only once its INSERT ran.                                *)
ReviewTypeOK ==
    /\ vessels \subseteq Vessels
    /\ DOMAIN class_reviews \subseteq Reviews
    /\ class_reviews \in [DOMAIN class_reviews -> ReviewRow]
    /\ review_decisions \subseteq DecisionRow
    /\ DOMAIN idempotency_keys \subseteq Users \X Keys
    /\ idempotency_keys \in [DOMAIN idempotency_keys -> KeyRow]
    /\ review_audit \in [Reviews -> Seq({"create", "submit", "decide"})]
    /\ replies \subseteq Reply

Decided(r) == r \in DOMAIN class_reviews /\ class_reviews[r].status \in Decisions

(* The status column and the decision rows tell the same story: a review   *)
(* is decided exactly when a decision row exists for it, there is only one *)
(* such row, it carries the status, and its author is a surveyor and not   *)
(* the coordinator who drafted the review (DecideReview's two writes).     *)
DecisionConsistent ==
    /\ \A r \in Reviews :
          Decided(r) <=> \E d \in review_decisions : d.review = r
    /\ \A d \in review_decisions :
          /\ class_reviews[d.review].status = d.decision
          /\ d.reviewer \in Surveyors
          /\ d.reviewer # class_reviews[d.review].submitted_by
          /\ \A e \in review_decisions : e.review = d.review => e = d

(* Whatever a client does with an idempotency key (retries it, sends it    *)
(* with another review, or reuses it after it expired), every successful   *)
(* answer it ever gets for that key names the same review, and that review *)
(* has left draft (SubmitReview's lookup, its INSERT of the key and the    *)
(* UNIQUE constraint).                                                     *)
KeyNamesOneReview ==
    \A x \in replies :
        /\ x.review \in DOMAIN class_reviews
        /\ class_reviews[x.review].status # "draft"
        /\ \A y \in replies :
              (x.actor = y.actor /\ x.key = y.key) => x.review = y.review

(* The audit trail that a review in its status must have.                  *)
ReviewTrail(r) ==
    IF r \notin DOMAIN class_reviews THEN << >>
    ELSE IF class_reviews[r].status = "draft" THEN << "create" >>
    ELSE IF class_reviews[r].status = "submitted" THEN << "create", "submit" >>
    ELSE << "create", "submit", "decide" >>

(* Each state change of a review leaves exactly one audit event, in the    *)
(* order of the flow: the trail of a review can be told from its status    *)
(* and version, and no trail exists for a review that does not.            *)
ReviewAudited ==
    \A r \in Reviews :
        /\ review_audit[r] = ReviewTrail(r)
        /\ r \in DOMAIN class_reviews =>
              class_reviews[r].version = Len(review_audit[r])

(* The documented flow: draft to submitted to approved or rejected.        *)
ReviewFlow == {<< "draft", "submitted" >>, << "submitted", "approved" >>,
               << "submitted", "rejected" >>}

ReviewRowsMove ==
    \A r \in DOMAIN class_reviews :
        /\ r \in DOMAIN class_reviews'
        /\ LET old == class_reviews[r]
               new == class_reviews'[r]
           IN  \/ new = old
               \/ /\ << old.status, new.status >> \in ReviewFlow
                  /\ new = [old EXCEPT !.status = new.status,
                                       !.version = old.version + 1]

(* A review is never deleted or moved to another vessel; it changes only   *)
(* along the flow, and every change takes the next version, so a client    *)
(* that holds a version knows the row it will overwrite.                   *)
ReviewHistory == [][ReviewRowsMove]_reviewVars
=============================================================================
