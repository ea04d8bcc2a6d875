--------------------------- MODULE TelemetryProofs ---------------------------
(***************************************************************************)
(* Proofs about stations, samples and the staleness check inside the whole *)
(* service, for any stations, sequences and instants.                      *)
(***************************************************************************)
EXTENDS TrialService, TrialPlanProofs

(* Text order never contradicts the order of seconds (the other half of    *)
(* SecondsDecideText).                                                     *)
LEMMA TextKeepsSeconds ==
    ASSUME NEW s \in Instant, NEW t \in Instant, SqlBefore(s, t)
    PROVE  s.sec <= t.sec
<1>1. ASSUME NEW u \in Instant
      PROVE  /\ 1 \in DOMAIN FormatTime(u) /\ FormatTime(u)[1] = u.sec
             /\ FormatTime(u) \in Seq(Int)
  <2>1. FractionText(u.frac) \in Seq(Int)
    BY DEF FractionText, Instant, Dot, Digit
  <2>2. << u.sec >> \in Seq(Int) /\ << Zulu >> \in Seq(Int)
    BY DEF Instant, Zulu
  <2> HIDE DEF FractionText
  <2>3. << u.sec >> \o FractionText(u.frac) \in Seq(Int)
        /\ Len(<< u.sec >> \o FractionText(u.frac)) = 1 + Len(FractionText(u.frac))
        /\ (<< u.sec >> \o FractionText(u.frac))[1] = u.sec
    BY <2>1, <2>2
  <2> QED BY <2>1, <2>2, <2>3 DEF FormatTime
<1> DEFINE a == FormatTime(s)
           b == FormatTime(t)
<1>2. /\ 1 \in DOMAIN a /\ a[1] = s.sec /\ a \in Seq(Int)
      /\ b[1] = t.sec /\ b \in Seq(Int)
      /\ TextLess(a, b)
    BY <1>1 DEF SqlBefore
<1>3. s.sec \in Int /\ t.sec \in Int
    BY DEF Instant
<1> HIDE DEF a, b
<1>4. CASE \E i \in DOMAIN a \cap DOMAIN b :
              a[i] < b[i] /\ \A j \in 1..(i - 1) : a[j] = b[j]
  <2>1. PICK i \in DOMAIN a \cap DOMAIN b :
            a[i] < b[i] /\ \A j \in 1..(i - 1) : a[j] = b[j]
    BY <1>4
  <2>2. i \in Nat /\ i >= 1
    BY <1>2, <2>1
  <2>3. CASE i = 1
    BY <1>2, <1>3, <2>1, <2>3
  <2>4. CASE i # 1
    <3>1. 1 \in 1..(i - 1)
      BY <2>2, <2>4
    <3> QED BY <1>2, <1>3, <2>1, <3>1
  <2> QED BY <2>3, <2>4
<1>5. CASE \A j \in DOMAIN a : a[j] = b[j]
    BY <1>2, <1>3, <1>5
<1> QED BY <1>2, <1>4, <1>5 DEF TextLess

(* The cutoff of a running check lies MaxAge back, or more by now.         *)
CutoffIsOld == cutoff # Never => cutoff.sec + MaxAge <= clock.sec

TelemetryIInv ==
    /\ TelemetryTypeOK
    /\ FreshnessFromSamples
    /\ CutoffIsOld
    /\ StaleIsOld

LEMMA TelemetryInitInv == TelemetryInit => TelemetryIInv
<1> SUFFICES ASSUME TelemetryInit PROVE TelemetryIInv
    OBVIOUS
<1>1. /\ check.status = "waiting" /\ check.attempts = 0 /\ check \in CheckRow
      /\ check.attempts < MaxAttempts
    BY TimesAssumption DEF TelemetryInit, CheckRow
<1> QED BY <1>1 DEF TelemetryInit, EmptyTable, TelemetryIInv, TelemetryTypeOK,
           FreshnessFromSamples, CutoffIsOld, StaleIsOld

(* A station that has been seen shows an instant, one that is online has   *)
(* been seen.                                                              *)
LEMMA SeenAtInstant ==
    ASSUME TelemetryIInv, NEW s \in DOMAIN shore_stations
    PROVE  /\ shore_stations[s] \in StationRow
           /\ shore_stations[s].status # "offline" =>
                 shore_stations[s].last_seen \in Times
BY DEF TelemetryIInv, TelemetryTypeOK, FreshnessFromSamples, SamplesOf,
       SampleRow, StationRow

(* A new station is offline and has no samples.                            *)
LEMMA RegisterInv ==
    ASSUME TelemetryIInv, NEW a \in Staff, NEW s \in Stations, RegisterStation(a, s)
    PROVE  TelemetryIInv'
<1> USE DEF TelemetryIInv
<1> DEFINE row == [status |-> "offline", last_seen |-> Never]
<1>1. /\ s \notin DOMAIN shore_stations
      /\ shore_stations' = Insert(shore_stations, s, row)
      /\ UNCHANGED << telemetry_samples, clock, cutoff, check >>
    BY DEF RegisterStation, checkVars
<1>2. row \in StationRow
    BY DEF StationRow
<1>3. /\ DOMAIN shore_stations' = DOMAIN shore_stations \cup {s}
      /\ shore_stations'[s] = row
      /\ \A x \in DOMAIN shore_stations : shore_stations'[x] = shore_stations[x]
      /\ shore_stations' \in [DOMAIN shore_stations' -> StationRow]
    BY <1>1, <1>2 DEF Insert, TelemetryTypeOK
<1>4. TelemetryTypeOK'
    BY <1>1, <1>3 DEF TelemetryTypeOK
<1>5. FreshnessFromSamples'
  <2>1. SamplesOf(s) = {}
    BY <1>1 DEF SamplesOf, TelemetryTypeOK
  <2>2. \A x : SamplesOf(x)' = SamplesOf(x)
    BY <1>1 DEF SamplesOf
  <2> QED BY <1>1, <1>3, <2>1, <2>2 DEF FreshnessFromSamples
<1>6. StaleIsOld'
    BY <1>1, <1>3 DEF StaleIsOld
<1>7. CutoffIsOld'
    BY <1>1 DEF CutoffIsOld
<1> QED BY <1>4, <1>5, <1>6, <1>7

(* A sample and the freshness it brings.                                   *)
LEMMA IngestInv ==
    ASSUME TelemetryIInv, NEW a \in Staff, NEW v \in Vessels, NEW s \in Stations,
           NEW n \in Sequences, NEW leg \in LegRefs, NEW now \in Times,
           IngestTelemetry(a, v, s, n, leg, now)
    PROVE  TelemetryIInv'
<1> USE DEF TelemetryIInv
<1> DEFINE key == << v, s, n >>
           sample == [leg |-> leg, received |-> now]
           row == [status |-> "online", last_seen |-> now]
<1>1. /\ s \in DOMAIN shore_stations /\ key \notin DOMAIN telemetry_samples
      /\ telemetry_samples' = Insert(telemetry_samples, key, sample)
      /\ shore_stations' = [shore_stations EXCEPT ![s] = row]
      /\ UNCHANGED << clock, cutoff, check >>
    BY DEF IngestTelemetry, IngestCheck, IngestWrite, SequenceFree, checkVars
<1>2. row \in StationRow /\ sample \in SampleRow /\ key \in SampleKeys
      /\ key[2] = s
    BY DEF StationRow, SampleRow, SampleKeys
<1>3. row.status = "online" /\ row.last_seen = now /\ sample.received = now
    OBVIOUS
<1> HIDE DEF key, sample, row
<1>4. /\ DOMAIN telemetry_samples' = DOMAIN telemetry_samples \cup {key}
      /\ telemetry_samples'[key] = sample
      /\ \A k \in DOMAIN telemetry_samples : telemetry_samples'[k] = telemetry_samples[k]
      /\ telemetry_samples' \in [DOMAIN telemetry_samples' -> SampleRow]
    BY <1>1, <1>2 DEF Insert, TelemetryTypeOK
<1>5. /\ DOMAIN shore_stations' = DOMAIN shore_stations
      /\ shore_stations'[s] = row
      /\ \A x \in DOMAIN shore_stations : x # s => shore_stations'[x] = shore_stations[x]
      /\ shore_stations' \in [DOMAIN shore_stations' -> StationRow]
    BY <1>1, <1>2 DEF TelemetryTypeOK
<1>6. TelemetryTypeOK'
    BY <1>1, <1>2, <1>4, <1>5 DEF TelemetryTypeOK
<1>7. FreshnessFromSamples'
  <2>1. key \in SamplesOf(s)'
    BY <1>2, <1>4 DEF SamplesOf
  <2>2. ASSUME NEW x \in DOMAIN shore_stations, x # s
        PROVE  SamplesOf(x)' = SamplesOf(x)
    BY <1>2, <1>4, <2>2 DEF SamplesOf
  <2>3. \A x, k : k \in SamplesOf(x) =>
            k \in DOMAIN telemetry_samples /\ telemetry_samples'[k] = telemetry_samples[k]
    BY <1>4 DEF SamplesOf
  <2> QED BY <1>3, <1>4, <1>5, <2>1, <2>2, <2>3 DEF FreshnessFromSamples
<1>8. StaleIsOld'
    BY <1>1, <1>3, <1>5 DEF StaleIsOld
<1>9. CutoffIsOld'
    BY <1>1 DEF CutoffIsOld
<1> QED BY <1>6, <1>7, <1>8, <1>9

(* The check marks only stations whose last sample is old to the second.   *)
LEMMA MarkInv ==
    ASSUME TelemetryIInv, MarkStaleStations
    PROVE  TelemetryIInv'
<1> USE DEF TelemetryIInv
<1> DEFINE stale(s) == [shore_stations[s] EXCEPT !.status = "stale"]
<1>1. /\ cutoff # Never /\ cutoff' = Never
      /\ DOMAIN shore_stations' = DOMAIN shore_stations
      /\ \A s \in DOMAIN shore_stations :
            shore_stations'[s] = IF Lapsed(shore_stations[s]) THEN stale(s)
                                 ELSE shore_stations[s]
      /\ shore_stations' = [s \in DOMAIN shore_stations |->
            IF Lapsed(shore_stations[s]) THEN stale(s) ELSE shore_stations[s]]
      /\ UNCHANGED << telemetry_samples, clock, check >>
    BY DEF MarkStaleStations
<1>2. ASSUME NEW s \in DOMAIN shore_stations
      PROVE  /\ stale(s) \in StationRow
             /\ stale(s).status = "stale"
             /\ stale(s).last_seen = shore_stations[s].last_seen
    BY DEF TelemetryTypeOK, StationRow
<1> HIDE DEF stale
<1>3. TelemetryTypeOK'
    BY <1>1, <1>2 DEF TelemetryTypeOK
<1>4. ASSUME NEW s \in DOMAIN shore_stations, Lapsed(shore_stations[s])
      PROVE  /\ SamplesOf(s) # {}
             /\ shore_stations[s].last_seen.sec + MaxAge <= clock.sec
  <2>1. shore_stations[s].status = "online"
    BY <1>4 DEF Lapsed
  <2>2. shore_stations[s].last_seen \in Instant
    BY <2>1, SeenAtInstant, TimesAssumption
  <2>3. SqlBefore(shore_stations[s].last_seen, cutoff)
    BY <1>4, <2>2, NeverAssumption DEF Lapsed
  <2>4. cutoff \in Instant
    BY <1>1 DEF TelemetryTypeOK
  <2>5. shore_stations[s].last_seen.sec <= cutoff.sec
    BY <2>2, <2>3, <2>4, TextKeepsSeconds
  <2>6. cutoff.sec + MaxAge <= clock.sec
    BY <1>1 DEF CutoffIsOld
  <2>7. /\ shore_stations[s].last_seen.sec \in Int /\ cutoff.sec \in Int
        /\ clock.sec \in Int /\ MaxAge \in Int
    BY <2>2, <2>4, TimesAssumption DEF Instant, TelemetryTypeOK
  <2>8. SamplesOf(s) # {}
    BY <2>1 DEF FreshnessFromSamples
  <2> QED BY <2>5, <2>6, <2>7, <2>8
<1>5. FreshnessFromSamples'
  <2>1. \A x : SamplesOf(x)' = SamplesOf(x)
    BY <1>1 DEF SamplesOf
  <2>2. ASSUME NEW s \in DOMAIN shore_stations
        PROVE  /\ shore_stations'[s].last_seen = shore_stations[s].last_seen
               /\ SamplesOf(s) = {} => shore_stations'[s] = shore_stations[s]
               /\ SamplesOf(s) # {} => shore_stations'[s].status # "offline"
    BY <1>1, <1>2, <1>4 DEF FreshnessFromSamples
  <2> QED BY <1>1, <2>1, <2>2 DEF FreshnessFromSamples
<1>6. StaleIsOld'
    BY <1>1, <1>2, <1>4 DEF StaleIsOld
<1>7. CutoffIsOld'
    BY <1>1 DEF CutoffIsOld
<1> QED BY <1>3, <1>5, <1>6, <1>7

(* The row of the check keeps its columns and its count of attempts.       *)
LEMMA CheckRowKept ==
    ASSUME TelemetryTypeOK, CheckCommits \/ CheckStranded
    PROVE  /\ check' \in CheckRow
           /\ check'.status = "waiting" => check'.attempts < MaxAttempts
           /\ cutoff' # Never => check'.status = "running"
<1>1. /\ check \in CheckRow /\ MaxAttempts \in Nat \ {0}
      /\ cutoff # Never => check.status = "running"
      /\ check.status = "waiting" => check.attempts < MaxAttempts
    BY TimesAssumption DEF TelemetryTypeOK
<1>2. CASE StartCheck
  <2>1. check.attempts + 1 \in 0..MaxAttempts
    BY <1>1, <1>2 DEF StartCheck, CheckRow
  <2>2. check' = [status |-> "running", attempts |-> check.attempts + 1]
    BY <1>2 DEF StartCheck
  <2> QED BY <2>1, <2>2 DEF CheckRow
<1>3. CASE RescheduleCheck \/ EnsureCheck
  <2>1. check' = [status |-> "waiting", attempts |-> 0] /\ cutoff' = cutoff
    BY <1>3 DEF RescheduleCheck, EnsureCheck
  <2>2. cutoff = Never
    BY <1>1, <1>3 DEF RescheduleCheck, EnsureCheck
  <2> QED BY <1>1, <2>1, <2>2 DEF CheckRow
<1>4. CASE CheckFails
  <2> DEFINE status == IF check.attempts >= MaxAttempts THEN "failed" ELSE "waiting"
  <2>1. check' = [check EXCEPT !.status = status] /\ cutoff' = Never
    BY <1>4 DEF CheckFails
  <2>2. status \in {"waiting", "failed"}
        /\ (status = "waiting" => check.attempts < MaxAttempts)
    BY <1>1 DEF CheckRow
  <2> HIDE DEF status
  <2> QED BY <1>1, <2>1, <2>2 DEF CheckRow
<1>5. CASE CheckStranded
    BY <1>1, <1>5 DEF CheckStranded, CheckRow
<1> QED BY <1>2, <1>3, <1>4, <1>5 DEF CheckCommits

(* The clock and the check's own row touch no station.                     *)
LEMMA ClockInv ==
    ASSUME TelemetryIInv,
           CheckCommits \/ CheckStranded \/ Tick \/ UNCHANGED telemetryVars
    PROVE  TelemetryIInv'
<1> USE DEF TelemetryIInv
<1>1. UNCHANGED << shore_stations, telemetry_samples >>
    BY DEF CheckCommits, StartCheck, RescheduleCheck, CheckFails, EnsureCheck,
           CheckStranded, Tick, telemetryVars
<1>2. /\ clock' \in Times /\ clock.sec <= clock'.sec
      /\ cutoff' \in Instant \cup {Never}
      /\ CutoffIsOld'
  <2>1. clock \in Times /\ clock \in Instant /\ MaxAge \in Nat /\ clock.sec >= MaxAge
    BY TimesAssumption DEF TelemetryTypeOK
  <2>2. CASE StartCheck
    <3>1. /\ clock' = clock
          /\ cutoff' = [sec |-> clock.sec - MaxAge, frac |-> clock.frac]
      BY <2>1, <2>2 DEF StartCheck, Instant
    <3>2. cutoff'.sec = clock.sec - MaxAge /\ cutoff' \in Instant
      BY <2>1, <3>1 DEF Instant
    <3> QED BY <2>1, <3>1, <3>2 DEF CutoffIsOld, Instant
  <2>3. CASE UNCHANGED clock /\ cutoff' \in {cutoff, Never}
    BY <2>1, <2>3 DEF TelemetryTypeOK, CutoffIsOld, Instant
  <2>4. CASE Tick
    <3>1. clock' \in Times /\ Before(clock, clock') /\ cutoff' = cutoff
      BY <2>4 DEF Tick, checkVars
    <3>2. clock' \in Instant /\ cutoff \in Instant \cup {Never}
      BY <3>1, TimesAssumption DEF TelemetryTypeOK
    <3>3. clock.sec <= clock'.sec
      BY <2>1, <3>1, <3>2 DEF Before, Instant
    <3>4. CutoffIsOld'
      BY <2>1, <3>1, <3>2, <3>3 DEF CutoffIsOld, Instant
    <3> QED BY <3>1, <3>2, <3>3, <3>4
  <2> QED BY <2>2, <2>3, <2>4 DEF CheckCommits, RescheduleCheck, CheckFails,
             EnsureCheck, CheckStranded, telemetryVars, checkVars
<1>3. TelemetryTypeOK'
  <2>1. CASE CheckCommits \/ CheckStranded
    BY <1>1, <1>2, <2>1, CheckRowKept DEF TelemetryTypeOK
  <2>2. CASE Tick \/ UNCHANGED telemetryVars
    BY <1>1, <1>2, <2>2 DEF Tick, telemetryVars, checkVars, TelemetryTypeOK
  <2> QED BY <2>1, <2>2
<1>4. FreshnessFromSamples'
    BY <1>1 DEF FreshnessFromSamples, SamplesOf
<1>5. StaleIsOld'
  <2>1. ASSUME NEW s \in DOMAIN shore_stations, shore_stations[s].status = "stale"
        PROVE  shore_stations[s].last_seen.sec + MaxAge <= clock'.sec
    <3>1. shore_stations[s].last_seen \in Instant
      BY <2>1, SeenAtInstant, TimesAssumption
    <3>2. shore_stations[s].last_seen.sec + MaxAge <= clock.sec
      BY <2>1 DEF StaleIsOld
    <3>3. clock \in Instant /\ clock' \in Instant /\ MaxAge \in Nat
      BY <1>2, TimesAssumption DEF TelemetryTypeOK
    <3> QED BY <1>2, <3>1, <3>2, <3>3 DEF Instant
  <2> QED BY <1>1, <2>1 DEF StaleIsOld
<1> QED BY <1>2, <1>3, <1>4, <1>5

LEMMA TelemetryStepInv ==
    ASSUME TelemetryIInv, [TelemetryNext]_telemetryVars
    PROVE  TelemetryIInv'
BY RegisterInv, IngestInv, MarkInv, ClockInv DEF TelemetryNext, CheckNext

(* The invariant of stations and samples holds in every reachable state of *)
(* the service.                                                            *)
THEOREM TelemetryInductive == SystemSpec => []TelemetryIInv
<1>1. SystemInit => TelemetryIInv
    BY TelemetryInitInv DEF SystemInit
<1>2. TelemetryIInv /\ [SystemNext]_systemVars => TelemetryIInv'
  <2>1. [SystemNext]_systemVars => [TelemetryNext]_telemetryVars
    BY DEF SystemNext, systemVars
  <2> QED BY <2>1, TelemetryStepInv
<1> QED BY <1>1, <1>2, PTL DEF SystemSpec

(* A station's freshness always comes from one of its stored samples       *)
(* (IngestTelemetry's two writes against MarkStaleStations).               *)
THEOREM StationsFresh == SystemSpec => []FreshnessFromSamples
<1>1. TelemetryIInv => FreshnessFromSamples
    BY DEF TelemetryIInv
<1> QED BY TelemetryInductive, <1>1, PTL

(* Only a station last seen at least MaxAge ago is stale, for any instants *)
(* whatever their fractions of a second (MarkStaleStations on text).       *)
THEOREM StaleStationsOld == SystemSpec => []StaleIsOld
<1>1. TelemetryIInv => StaleIsOld
    BY DEF TelemetryIInv
<1> QED BY TelemetryInductive, <1>1, PTL

(* Samples are never changed or lost, and one is stored only while the leg *)
(* it names is active (IngestTelemetry against CompleteLeg).               *)
THEOREM SamplesOfActiveLegs == SystemSpec => SampledWhileActive
<1> DEFINE Stored ==
        /\ DOMAIN telemetry_samples \subseteq DOMAIN telemetry_samples'
        /\ \A k \in DOMAIN telemetry_samples' :
              IF k \in DOMAIN telemetry_samples
              THEN telemetry_samples'[k] = telemetry_samples[k]
              ELSE LET leg == telemetry_samples'[k].leg
                   IN  leg # NoLeg =>
                         /\ LegFits(leg, k[1])
                         /\ voyage_legs[leg].status \in Active
<1>1. ASSUME NEW a \in Staff, NEW v \in Vessels, NEW s \in Stations,
             NEW n \in Sequences, NEW leg \in LegRefs, NEW now \in Times,
             IngestTelemetry(a, v, s, n, leg, now)
      PROVE  Stored
    BY <1>1 DEF IngestTelemetry, IngestCheck, IngestWrite, SequenceFree, Insert
<1>2. ASSUME UNCHANGED telemetry_samples
      PROVE  Stored
    BY <1>2
<1>3. [SystemNext]_systemVars => [Stored]_<< telemetryVars, vars >>
    BY <1>1, <1>2 DEF SystemNext, systemVars, telemetryVars, TelemetryNext,
       CheckNext, CheckCommits, RegisterStation, StartCheck, RescheduleCheck,
       CheckFails, EnsureCheck, MarkStaleStations, CheckStranded, Tick
<1> QED BY <1>3, PTL DEF SystemSpec, SampledWhileActive
=============================================================================
