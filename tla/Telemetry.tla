------------------------------ MODULE Telemetry ------------------------------
(***************************************************************************)
(* Telemetry and shore stations: the telemetry service, the store's        *)
(* telemetry.go, and the worker's staleness check: what it does to the     *)
(* stations, and how it comes to an end.  When its job is claimed and      *)
(* settled is the subject of WorkerJobs; here it is one row, `check'.      *)
(*                                                                         *)
(* A request reads the clock before it opens its transaction, so a sample  *)
(* may be stored with any instant up to the present one as its received_at,*)
(* and samples may be stored in another order than that of their instants. *)
(***************************************************************************)
EXTENDS Operations

CONSTANTS
    Stations,   \* shore station identities: a unique code
    Sequences,  \* sequence numbers of samples
    Times,      \* the instants the clock shows
    MaxAge,     \* max_age_seconds of the staleness check
    MaxAttempts,\* max_attempts of the staleness check
    Never,      \* last_seen_at is NULL; no UPDATE lies ahead of the check
    Checking    \* whether a worker runs the staleness check at all

ASSUME TimesAssumption ==
    /\ Times \subseteq Instant
    /\ MaxAge \in Nat \ {0} /\ MaxAttempts \in Nat \ {0}
    /\ \A t \in Times : t.sec >= MaxAge
ASSUME NeverAssumption == Never \notin Instant /\ Checking \in BOOLEAN

VARIABLES
    shore_stations,     \* station -> row
    telemetry_samples,  \* << vessel, station, sequence >> -> row
    clock,              \* the present instant
    cutoff,             \* what the running check will compare with
    check               \* the job of the staleness check

checkVars == << cutoff, check >>
telemetryVars == << shore_stations, telemetry_samples, clock, checkVars >>

StationRow == [status : {"offline", "online", "stale"},
               last_seen : Times \cup {Never}]
SampleRow == [leg : LegRefs, received : Times]
CheckRow == [status : {"waiting", "running", "stranded", "failed"},
             attempts : 0..MaxAttempts]
SampleKeys == Vessels \X Stations \X Sequences

-----------------------------------------------------------------------------
TelemetryInit ==
    /\ shore_stations = EmptyTable
    /\ telemetry_samples = EmptyTable
    /\ clock \in Times /\ \A t \in Times : ~ Before(t, clock)
    /\ cutoff = Never
    /\ check = [status |-> "waiting", attempts |-> 0]

RegisterStation(actor, s) ==
    /\ actor \in ShoreOperators
    /\ s \notin DOMAIN shore_stations
    /\ shore_stations' = Insert(shore_stations, s,
           [status |-> "offline", last_seen |-> Never])
    /\ UNCHANGED << telemetry_samples, clock, checkVars >>

(* Faulty: a leg of the vessel in any status will do.                      *)
IngestOnAnyLeg(actor, v, s, leg, now) ==
    /\ actor \in ShoreOperators
    /\ now \in Times /\ ~ Before(clock, now)
    /\ v \in vessels
    /\ s \in DOMAIN shore_stations
    /\ LegFits(leg, v)

(* now is what the request read from the clock before it began.            *)
IngestCheck(actor, v, s, leg, now) ==
    /\ actor \in ShoreOperators
    /\ now \in Times /\ ~ Before(clock, now)
    /\ v \in vessels
    /\ s \in DOMAIN shore_stations
    /\ LegFits(leg, v)
    /\ leg # NoLeg => voyage_legs[leg].status \in Active

(* UNIQUE(vessel_id, station_id, sequence).                                *)
SequenceFree(v, s, n) == << v, s, n >> \notin DOMAIN telemetry_samples

(* Faulty: a repeated sample is ignored, but refreshes the station.        *)
IngestOrIgnore(v, s, n, leg, now) ==
    /\ telemetry_samples' =
           IF SequenceFree(v, s, n)
           THEN Insert(telemetry_samples, << v, s, n >>,
                       [leg |-> leg, received |-> now])
           ELSE telemetry_samples
    /\ shore_stations' = [shore_stations EXCEPT
           ![s] = [status |-> "online", last_seen |-> now]]
    /\ UNCHANGED << clock, checkVars >>

IngestWrite(v, s, n, leg, now) ==
    /\ SequenceFree(v, s, n)
    /\ telemetry_samples' = Insert(telemetry_samples, << v, s, n >>,
           [leg |-> leg, received |-> now])
    /\ shore_stations' = [shore_stations EXCEPT
           ![s] = [status |-> "online", last_seen |-> now]]
    /\ UNCHANGED << clock, checkVars >>

IngestTelemetry(actor, v, s, n, leg, now) ==
    IngestCheck(actor, v, s, leg, now) /\ IngestWrite(v, s, n, leg, now)

(* The worker claims the check, and execute computes the cutoff ...        *)
StartCheck ==
    /\ Checking
    /\ check.status = "waiting"
    /\ check' = [status |-> "running", attempts |-> check.attempts + 1]
    /\ cutoff' = [clock EXCEPT !.sec = @ - MaxAge]
    /\ UNCHANGED << shore_stations, telemetry_samples, clock >>

(* Faulty: the comparison the wrong way round; no comparison.              *)
LapsedSwapped(row) ==
    /\ row.status = "online"
    /\ row.last_seen = Never \/ SqlBefore(cutoff, row.last_seen)

LapsedOnline(row) == row.status = "online"

(* status = 'online' AND (last_seen_at IS NULL OR last_seen_at < cutoff)   *)
Lapsed(row) ==
    /\ row.status = "online"
    /\ row.last_seen = Never \/ SqlBefore(row.last_seen, cutoff)

(* ... and the store updates the stations in one statement, which may find *)
(* the clock and the stations further on.                                  *)
MarkStaleStations ==
    /\ cutoff # Never
    /\ cutoff' = Never
    /\ shore_stations' = [s \in DOMAIN shore_stations |->
           IF Lapsed(shore_stations[s])
           THEN [shore_stations[s] EXCEPT !.status = "stale"]
           ELSE shore_stations[s]]
    /\ UNCHANGED << telemetry_samples, clock, check >>

(* RescheduleJob.                                                          *)
RescheduleCheck ==
    /\ check.status = "running" /\ cutoff = Never
    /\ check' = [status |-> "waiting", attempts |-> 0]
    /\ UNCHANGED << shore_stations, telemetry_samples, clock, cutoff >>

(* The UPDATE fails, and FailJob has the check tried again or gives it up. *)
CheckFails ==
    /\ cutoff # Never
    /\ cutoff' = Never
    /\ check' = [check EXCEPT !.status =
           IF check.attempts >= MaxAttempts THEN "failed" ELSE "waiting"]
    /\ UNCHANGED << shore_stations, telemetry_samples, clock >>

(* The process stops while the check runs, before or after the UPDATE, or  *)
(* the write that should settle the check fails: its job stays running,    *)
(* and nobody claims it again (StrandedForEver of WorkerJobsProofs).       *)
CheckStranded ==
    /\ check.status = "running"
    /\ check' = [check EXCEPT !.status = "stranded"]
    /\ cutoff' = Never
    /\ UNCHANGED << shore_stations, telemetry_samples, clock >>

(* A server that starts inserts a new check if the old one has failed.     *)
EnsureCheck ==
    /\ check.status = "failed"
    /\ check' = [status |-> "waiting", attempts |-> 0]
    /\ UNCHANGED << shore_stations, telemetry_samples, clock, cutoff >>

Tick ==
    /\ clock' \in Times /\ Before(clock, clock')
    /\ UNCHANGED << shore_stations, telemetry_samples, checkVars >>

(* What the check commits to the queue.                                    *)
CheckCommits == StartCheck \/ RescheduleCheck \/ CheckFails \/ EnsureCheck

CheckNext == CheckCommits \/ MarkStaleStations \/ CheckStranded

TelemetryNext ==
    \/ \E actor \in Staff, s \in Stations :
          \/ RegisterStation(actor, s)
          \/ \E v \in Vessels, n \in Sequences, leg \in LegRefs, now \in Times :
                IngestTelemetry(actor, v, s, n, leg, now)
    \/ CheckNext
    \/ Tick

(* Time goes on; a check that waits is claimed (ChecksGoOn of WorkerJobs); *)
(* and a worker that has claimed it goes on until it has settled it, unless*)
(* the check is stranded.  The UPDATE is not assumed to succeed, nor that a*)
(* check that has failed for good is ever replaced.                        *)
TelemetryFairness ==
    /\ WF_<< telemetryVars, vars >>(Tick /\ UNCHANGED vars)
    /\ WF_<< telemetryVars, vars >>(StartCheck /\ UNCHANGED vars)
    /\ WF_<< telemetryVars, vars >>
          ((MarkStaleStations \/ CheckFails \/ RescheduleCheck) /\ UNCHANGED vars)

-----------------------------------------------------------------------------
(* Rows have the columns of the schema, and a sample names a station.      *)
TelemetryTypeOK ==
    /\ DOMAIN shore_stations \subseteq Stations
    /\ shore_stations \in [DOMAIN shore_stations -> StationRow]
    /\ DOMAIN telemetry_samples \subseteq SampleKeys
    /\ telemetry_samples \in [DOMAIN telemetry_samples -> SampleRow]
    /\ \A k \in DOMAIN telemetry_samples : k[2] \in DOMAIN shore_stations
    /\ clock \in Times
    /\ cutoff \in Instant \cup {Never}
    /\ cutoff # Never => check.status = "running"
    /\ check \in CheckRow
    /\ check.status = "waiting" => check.attempts < MaxAttempts

SamplesOf(s) == {k \in DOMAIN telemetry_samples : k[2] = s}

(* A sample and the freshness of its station are stored together or not at *)
(* all: a station is offline, and was never seen, exactly as long as it    *)
(* has no sample, and its last_seen_at is the received_at of one of its    *)
(* samples.  Refused, repeated and cancelled samples leave no trace, and   *)
(* no check touches a station that has not been seen (IngestTelemetry      *)
(* against MarkStaleStations).                                             *)
FreshnessFromSamples ==
    \A s \in DOMAIN shore_stations :
        LET row == shore_stations[s]
        IN  IF SamplesOf(s) = {} THEN row = [status |-> "offline", last_seen |-> Never]
            ELSE /\ row.status # "offline"
                 /\ \E k \in SamplesOf(s) :
                       row.last_seen = telemetry_samples[k].received

(* A station is stale only if it was last seen at least MaxAge ago, to the *)
(* second, however the check, its cutoff computed before, and the samples  *)
(* interleave (MarkStaleStations compares text of varying length).         *)
StaleIsOld ==
    \A s \in DOMAIN shore_stations :
        shore_stations[s].status = "stale" =>
            shore_stations[s].last_seen.sec + MaxAge <= clock.sec

(* Samples are never changed or lost, and one is stored only while the leg *)
(* it names is active, although the leg was read before (IngestTelemetry   *)
(* against CompleteLeg).                                                   *)
SampledWhileActive ==
    [][/\ DOMAIN telemetry_samples \subseteq DOMAIN telemetry_samples'
       /\ \A k \in DOMAIN telemetry_samples' :
             IF k \in DOMAIN telemetry_samples
             THEN telemetry_samples'[k] = telemetry_samples[k]
             ELSE LET leg == telemetry_samples'[k].leg
                  IN  leg # NoLeg =>
                        /\ LegFits(leg, k[1])
                        /\ voyage_legs[leg].status \in Active
      ]_<< telemetryVars, vars >>

Silent(s) ==
    /\ s \in DOMAIN shore_stations
    /\ shore_stations[s].status = "online"
    /\ shore_stations[s].last_seen.sec + MaxAge < clock.sec

(* A station that has been silent for longer than MaxAge does not stay     *)
(* online: it is marked stale or heard of again, unless the check has used *)
(* up its attempts or is stranded (Worker.execute, FailJob).  An UPDATE    *)
(* that fails, and a check that lost its race with a sample, only delay it.*)
SilentGoesStale ==
    \A s \in Stations :
        Silent(s) ~> ~ Silent(s) \/ check.status \in {"failed", "stranded"}
=============================================================================
