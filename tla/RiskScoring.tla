---------------------------- MODULE RiskScoring -----------------------------
(***************************************************************************)
(* What a payload scores: the features as the model sees them, the four    *)
(* detectors of DetectorRegistry, the inference engine over the user's     *)
(* stored days, the fusion, smoothing and corroboration of RiskAggregator  *)
(* and the averages BaselineEngine learns, for one user and one worker on  *)
(* the server that Training's artifacts are put on.  Analysis has the      *)
(* workers, their races and their retries; here the numbers are not chosen *)
(* but computed.                                                           *)
(*                                                                         *)
(* Scores are in tenths of a point, confidences in percent, risks and      *)
(* probabilities in thousandths, averages whole numbers.  The keystroke    *)
(* detector is left out: RiskAggregator has no source its name belongs to. *)
(* TamperDetector and AuthBurstDetector read features that are no columns  *)
(* of the model, so that neither ever scores.                              *)
(***************************************************************************)
EXTENDS Training, Heuristics

CONSTANTS
  Kinds,        \* the payloads an agent may send
  FeaturesOf,   \* their features, by name
  TextKinds,    \* those with a feature that is text
  ProfileOf,    \* their system_profile
  RiskOf,       \* overall_score of predict_current_risk for their features
  ProbOf,       \* the largest of the five threat probabilities for their features
  Predict,      \* what RedRVFL expects after the days of a window, by their payloads
  SameName,     \* whether the agents register under their hostname
  MinDays,      \* _MIN_RVFL_HISTORY_DAYS
  Warm,         \* the samples for full confidence
  Reach,        \* how many payloads the feature rows of a history query cover
  MaxPayloads, MaxWaiting, MaxDay, MaxFaults  \* bounds

ScoringAssumption ==
  /\ MinDays = Window + 1 /\ {Warm, Reach, MaxDay} \subseteq Nat \ {0} /\ MaxFaults \in Nat
  /\ SameName \in BOOLEAN /\ TextKinds \subseteq Kinds
  /\ \A kind \in Kinds : Range(FeaturesOf[kind]) \subseteq Nat
  /\ RiskOf \in [Kinds -> 0 .. 1000] /\ ProbOf \in [Kinds -> 0 .. 1000]
  /\ Predict \in [[1 .. Window -> Kinds] -> 0 .. 1000]
ASSUME ScoringAssumption

VARIABLES
  artifacts,  \* the model files the process found: "none", "columns", "all"
  today,      \* the day
  stored,     \* the payloads stored, in the order of their arrival
  waiting,    \* the places in stored of those still to be analysed
  verdict,    \* the verdict that is not saved yet
  recent,     \* the scores above 0 saved within four hours
  baseline,   \* the user's baseline
  learnt,     \* history: what was learnt, and on which day
  faults

serving == <<artifacts, today, stored, waiting, verdict, recent, baseline, learnt, faults>>

Detectors == {"tamper_detector", "auth_burst", "zscore", "advanced_pipeline"}
NoVerdict == [of |-> 0, score |-> 0, level |-> "low", mode |-> "none", shows |-> {},
              samples |-> 0, unfailed |-> "low"]
NoBaseline == [count |-> 0, means |-> <<>>, stds |-> <<>>, sums |-> <<>>, counts |-> <<>>, date |-> 0]

-----------------------------------------------------------------------------
(* Features *)

\* FEATURE_ALIASES, and file_access_count from its parts.
Alias(c) ==
  CASE c = "first_usb_usage_time" -> "first_usb_time"
    [] c = "daily_unique_filename_count" -> "unique_filename_count"
    [] c = "daily_new_filename_count" -> "new_filename_count"
    [] c = "daily_http_request_count" -> "http_count"
    [] c = "daily_unique_domain_count" -> "unique_domain_count"
    [] c = "daily_new_domain_count" -> "new_domain_count"
    [] c = "daily_external_domain_ratio" -> "external_domain_ratio"
    [] c = "daily_device_connect_count" -> "usb_connect_count"
    [] c = "daily_unique_pc_count" -> "unique_pc_count"
    [] c = "suspicious_url_count" -> "watchlisted_url_count"
    [] OTHER -> c
Accesses(f) == Value(f, "file_open_count") + Value(f, "file_write_count") + Value(f, "file_delete_count")
ModelColumns == UNION Range(Columns)
Known(f) == {c \in ModelColumns : {c, Alias(c)} \cap DOMAIN f # {} \/ c = "file_access_count"}
Ordered(f) ==
  [c \in ModelColumns |->
    CASE c \in DOMAIN f -> f[c]
      [] c \notin DOMAIN f /\ c = "file_access_count" -> Accesses(f)
      [] OTHER -> Value(f, Alias(c))]

OrderedOf == [kind \in Kinds |-> Ordered(FeaturesOf[kind])]
LearntOf == [kind \in Kinds |-> [c \in Known(FeaturesOf[kind]) |-> OrderedOf[kind][c]]]
HeuristicsOf == [kind \in Kinds |-> Heuristics(FeaturesOf[kind], ProfileOf[kind])]

Inactive == {kind \in Kinds : \A c \in ModelColumns : OrderedOf[kind][c] = 0}

\* Without its files the model has no columns, and no payload any activity.
Idle(kind) ==
  /\ artifacts = "none" \/ kind \in Inactive
  /\ Value(FeaturesOf[kind], "manual_agent_stop_flag") = 0

-----------------------------------------------------------------------------
(* The days the engine is given *)

\* list_daily_feature_vectors: of each day the query reaches, the oldest payload, for its
\* values overwrite those of the later ones; oldest day first.
StoredDays ==
  LET reached == SubSeq(stored, Max({1, Len(stored) - Reach + 1}), Len(stored))
      days == InOrder({p.day : p \in Range(reached)})
      vector(d) == reached[Min({i \in DOMAIN reached : reached[i].day = d})] IN
  [i \in 1 .. Len(days) |-> vector(days[i])]
LastDays(n) == IF Len(StoredDays) <= n THEN StoredDays ELSE SubSeq(StoredDays, Len(StoredDays) - n + 1, Len(StoredDays))

\* _build_daily_sequence: reversed turns the oldest day to the front into the last one,
\* the loop stops at a feature float() cannot read, and today's features come last.
DailySequence(p) ==
  LET newest == IF SameName THEN Reverse(LastDays(MinDays)) ELSE <<>>
      bad == {i \in 1 .. Len(newest) : newest[i].kind \in TextKinds}
      good == IF bad = {} THEN newest ELSE SubSeq(newest, 1, Min(bad) - 1) IN
  Append(good, [p EXCEPT !.day = today])

Risks(sequence) == [i \in 1 .. Len(sequence) |-> RiskOf[sequence[i].kind]]

\* The features predict_user_risk computes for the latest entry.
ServedTrend(p) == Trend(Risks(DailySequence(p)), Len(DailySequence(p)))

\* The square of what RedRVFL is wrong by for the last entry, in millionths.
Fused(kind) == (3 * RiskOf[kind] + 7 * ProbOf[kind]) \div 10
Drift(sequence) ==
  LET n == Len(sequence)
      off == Fused(sequence[n].kind) - Predict[[j \in 1 .. Window |-> sequence[n - Window - 1 + j].kind]] IN
  off * off

-----------------------------------------------------------------------------
(* The detectors *)

BaselineConfidence(cold) == IF baseline.count = 0 THEN cold ELSE Min({(100 * baseline.count) \div Warm, 100})
Mean(c) == IF c \in DOMAIN baseline.means THEN baseline.means[c] ELSE 0
Std(c) == Max({IF c \in DOMAIN baseline.stds THEN baseline.stds[c] ELSE 10, 10, Mean(c) \div 4})

\* The columns more than eight deviations above the mean.
Spikes(f) ==
  IF baseline.count = 0 THEN {}
  ELSE {c \in ModelColumns \ {"daily_device_usage_flag"} : f[c] - Mean(c) > 8 * Std(c)}

Silent(conf) == [score |-> 0, conf |-> conf, features |-> {}, mode |-> "none"]
ZScore(f) ==
  [Silent(IF baseline.count = 0 THEN 0 ELSE BaselineConfidence(10)) EXCEPT
     !.score = IF Spikes(f) = {} THEN 0
               ELSE Max({Min({1000, (50 * (f[c] - Mean(c))) \div Std(c)}) : c \in Spikes(f)}),
     !.features = Spikes(f)]

\* Variant: the score of a day without history is as sure as one with it.
Pipeline_Sure(p) ==
  LET sequence == DailySequence(p) IN
  CASE artifacts # "all" -> Silent(0)
    [] artifacts = "all" /\ Len(sequence) < MinDays ->
         [Silent(BaselineConfidence(30)) EXCEPT !.score = RiskOf[p.kind], !.mode = "if_only"]
    [] OTHER -> [Silent(BaselineConfidence(30)) EXCEPT !.score = Min({1000, Drift(sequence) \div 100}),
                                                !.mode = "full"]

\* AdvancedPipelineDetector: silent without the engine, the isolation forests at half the
\* confidence without history, and the drift.
Pipeline(p) ==
  LET sequence == DailySequence(p) IN
  CASE artifacts # "all" -> Silent(0)
    [] artifacts = "all" /\ Len(sequence) < MinDays ->
         [Silent(BaselineConfidence(30) \div 2) EXCEPT !.score = RiskOf[p.kind], !.mode = "if_only"]
    [] OTHER -> [Silent(BaselineConfidence(30)) EXCEPT !.score = Min({1000, Drift(sequence) \div 100}),
                                                !.mode = "full"]

\* Variant: a detector that raises is taken for sure of the worst.
Failed_Sure == [Silent(100) EXCEPT !.score = 900]

\* run_all: a detector that raises scores 0 with confidence 0.
Failed == Silent(0)

RunAll(p, failed) ==
  LET result(d) ==
        CASE d \in failed -> Failed
          [] d \notin failed /\ d = "tamper_detector" -> Silent(100)
          [] d \notin failed /\ d = "auth_burst" -> Silent(IF baseline.count = 0 THEN 0 ELSE BaselineConfidence(10))
          [] d \notin failed /\ d = "zscore" -> ZScore(OrderedOf[p.kind])
          [] d \notin failed /\ d = "advanced_pipeline" -> Pipeline(p) IN
  [d \in Detectors |-> result(d)]

-----------------------------------------------------------------------------
(* RiskAggregator *)

Watermark ==
  [file_access_count |-> 10000, sensitive_file_access |-> 100, unusual_file_access_ratio |-> 750,
   file_delete_count |-> 500, daily_file_delete_count |-> 500, file_sharing_site_visits |-> 100,
   job_search_site_visits |-> 50, usb_connect_count |-> 100,
   daily_files_to_removable_count |-> 200, external_drive_file_copy |-> 100,
   large_usb_transfer |-> 50, usb_file_transfer_count |-> 100, after_hours_logon |-> 50,
   daily_failed_login_ratio |-> 750, edr_failed_auth_ratio_window |-> 750,
   edr_auth_burst_score |-> 75]
Usb == {"usb_connect_count", "daily_files_to_removable_count", "external_drive_file_copy",
        "large_usb_transfer", "usb_file_transfer_count"}
Deletes == {"file_delete_count", "daily_file_delete_count"}
Logins == {"after_hours_logon", "daily_failed_login_ratio", "edr_failed_auth_ratio_window",
           "edr_auth_burst_score"}
Sensitive == {"sensitive_file_access", "unusual_file_access_ratio"}

\* The features that cross a watermark or are an anomaly of a detector.
Anomalous(f, results) ==
  {c \in DOMAIN f \cap DOMAIN Watermark : f[c] >= Watermark[c]}
    \cup UNION {results[d].features : d \in Detectors}

\* _map_cert_scenarios: the severities of the scenarios.
CertScenarios(shows, groups) ==
  LET show(s) == shows \cap s # {}
      scenario(first, second, severity) ==
        IF ~first THEN {} ELSE IF second THEN {severity} ELSE {"LOW"} IN
  UNION {scenario(show(Usb), "job_search_site_visits" \in shows, "CRITICAL"),
         scenario(show(Deletes), show(Logins), "CRITICAL"),
         scenario("file_sharing_site_visits" \in shows,
                  show(Sensitive) \/ "FILE_EXFIL_GROUP" \in groups, "HIGH")}

\* _verify_critical_corroboration; the second condition, heuristics of 50, is out of reach.
Corroborated(ml, z, heuristics, cert) ==
  \/ ml.score >= 750 /\ ml.conf >= 80 /\ (heuristics.score >= 100 \/ z.score >= 250 \/ cert # {})
  \/ ml.score >= 850 /\ ml.conf >= 85
  \/ cert \cap {"CRITICAL", "HIGH"} # {}

\* conviction_boost in thousandths.
Boost(score, conf) ==
  IF score < 400 THEN 1000 ELSE 1000 + ((score - 400) * (score - 400) * conf) \div 18000

\* A source without a sign of its own has a confidence all the same.
AtLeast(result, floor) == [score |-> result.score, conf |-> Max({result.conf, floor})]

\* The mean of ml_pipeline, z_score, auth_burst and heuristics, weighted 14 : 2 : 1 : 3.
Mixed(ml, z, auth, heuristics) ==
  LET weight(w, source) == w * Boost(source.score, source.conf)
      total == weight(14, ml) + weight(2, z) + weight(1, auth) + weight(3, heuristics) IN
  (weight(14, ml) * ml.score + weight(2, z) * z.score + weight(1, auth) * auth.score
    + weight(3, heuristics) * heuristics.score) \div total

Smoothed(score, past) == IF past = 0 THEN score ELSE (85 * score + 15 * Min({past, 1000})) \div 100

Level(score) ==
  CASE score >= 850 -> "critical" [] score \in 600 .. 849 -> "high"
    [] score \in 350 .. 599 -> "medium" [] OTHER -> "low"
Rank(level) == CHOOSE i \in 1 .. 4 : <<"low", "medium", "high", "critical">>[i] = level

\* Variant: a verdict nothing corroborates keeps its score.
Aggregate_Uncapped(kind, h, results, past) ==
  LET ml == AtLeast(results["advanced_pipeline"], 75)
      z == AtLeast(results["zscore"], 85)
      heuristics == [score |-> h.score, conf |-> IF h.count > 0 THEN 85 ELSE 40] IN
  Smoothed(Mixed(ml, z, AtLeast(results["auth_burst"], 80), heuristics), past)

\* aggregate_detectors, h what the rules found: a score of 35 or more that is not corroborated
\* is 10 at most.
Aggregate(kind, h, results, past) ==
  LET ml == AtLeast(results["advanced_pipeline"], 75)
      z == AtLeast(results["zscore"], 85)
      heuristics == [score |-> h.score, conf |-> IF h.count > 0 THEN 85 ELSE 40]
      score == Smoothed(Mixed(ml, z, AtLeast(results["auth_burst"], 80), heuristics), past)
      cert == CertScenarios(Anomalous(FeaturesOf[kind], results), h.groups) IN
  IF score >= 350 /\ ~Corroborated(ml, z, heuristics, cert) THEN Min({score, 100}) ELSE score

-----------------------------------------------------------------------------
(* BaselineEngine *)

\* The exponential average over 30 days; a feature's first average is its first value.
Averaged(old, new) == (29 * old + 2 * new) \div 31
Entry(f, c, default) == IF c \in DOMAIN f THEN f[c] ELSE default
Plus(f, g) == [c \in DOMAIN f \cup DOMAIN g |-> Entry(f, c, 0) + Entry(g, c, 0)]
Distance(a, b) == IF a >= b THEN a - b ELSE b - a

\* Variant: the deviation has no floor.
Merged_NoFloor(b) ==
  LET day == [c \in DOMAIN b.sums |-> b.sums[c] \div b.counts[c]]
      means == [c \in DOMAIN day \cup DOMAIN b.means |->
                 IF c \in DOMAIN day THEN Averaged(Entry(b.means, c, day[c]), day[c]) ELSE b.means[c]]
      stds == [c \in DOMAIN day \cup DOMAIN b.stds |->
                IF c \in DOMAIN day THEN Averaged(Entry(b.stds, c, 10), Distance(day[c], means[c]))
                ELSE b.stds[c]] IN
  [b EXCEPT !.means = means, !.stds = stds, !.sums = <<>>, !.counts = <<>>]

\* The day's averages join the long-term ones.
Merged(b) ==
  LET day == [c \in DOMAIN b.sums |-> b.sums[c] \div b.counts[c]]
      means == [c \in DOMAIN day \cup DOMAIN b.means |->
                 IF c \in DOMAIN day THEN Averaged(Entry(b.means, c, day[c]), day[c]) ELSE b.means[c]]
      stds == [c \in DOMAIN day \cup DOMAIN b.stds |->
                IF c \notin DOMAIN day THEN b.stds[c]
                ELSE Max({Averaged(Entry(b.stds, c, 10), Distance(day[c], means[c])),
                          means[c] \div 4, 10})] IN
  [b EXCEPT !.means = means, !.stds = stds, !.sums = <<>>, !.counts = <<>>]

\* Variant: the sums of a day stay in the buffer after the merge.
Updated_Keeps(b, f) ==
  LET base == IF b.date \notin {0, today}
              THEN [b EXCEPT !.means = Merged(b).means, !.stds = Merged(b).stds] ELSE b IN
  [base EXCEPT !.count = @ + 1, !.date = today,
     !.sums = Plus(@, f), !.counts = Plus(@, [c \in DOMAIN f |-> 1])]

\* _update_single_baseline.
Updated(b, f) ==
  LET base == IF b.date \notin {0, today} THEN Merged(b) ELSE b IN
  [base EXCEPT !.count = @ + 1, !.date = today,
     !.sums = Plus(@, f), !.counts = Plus(@, [c \in DOMAIN f |-> 1])]

-----------------------------------------------------------------------------
(* The server *)

ServingInit ==
  /\ artifacts = "none" /\ today = 1 /\ stored = <<>> /\ waiting = {}
  /\ verdict = NoVerdict /\ recent = <<>> /\ baseline = NoBaseline /\ learnt = <<>> /\ faults = 0

Served == stage = "served" /\ UNCHANGED pipeline
Free == verdict = NoVerdict

\* The deployed files may be all or some; the process finds them when it starts.
Start ==
  /\ Deploy /\ artifacts' \in {"none", "columns", "all"}
  /\ UNCHANGED <<today, stored, waiting, verdict, recent, baseline, learnt, faults>>

Store(kind) ==
  /\ Served /\ Len(stored) < MaxPayloads /\ Cardinality(waiting) < MaxWaiting
  /\ stored' = Append(stored, [day |-> today, kind |-> kind])
  /\ waiting' = waiting \cup {Len(stored')}
  /\ UNCHANGED <<artifacts, today, verdict, recent, baseline, learnt, faults>>

NextDay ==
  /\ Served /\ today < MaxDay /\ today' = today + 1 /\ recent' = <<>>
  /\ UNCHANGED <<artifacts, stored, waiting, verdict, baseline, learnt, faults>>

HoursPass ==
  /\ Served /\ recent # <<>> /\ recent' = Tail(recent)
  /\ UNCHANGED <<artifacts, today, stored, waiting, verdict, baseline, learnt, faults>>

\* A payload without activity scores 0, to which no later verdict looks, and is not
\* learnt from.
JudgeIdle(i) ==
  /\ Served /\ Free /\ i \in waiting /\ Idle(stored[i].kind)
  /\ waiting' = waiting \ {i}
  /\ UNCHANGED <<artifacts, today, stored, verdict, recent, baseline, learnt, faults>>

\* The detectors, the memory of the last hours, which may not be readable, and the fusion.
Judge(i, failed) ==
  /\ Served /\ Free /\ i \in waiting /\ ~Idle(stored[i].kind)
  /\ LET p == stored[i] IN
     \E results \in {RunAll(p, failed)}, intact \in {RunAll(p, {})}, h \in {HeuristicsOf[p.kind]},
        past \in {0, Max({0} \cup Range(recent))} :
       \E score \in {Aggregate(p.kind, h, results, past)} :
         /\ faults' = faults + Cardinality(failed)
              + IF past = 0 /\ recent # <<>> THEN 1 ELSE 0
         /\ faults' <= MaxFaults
         /\ verdict' =
              [of |-> i, score |-> score, level |-> Level(score),
               mode |-> results["advanced_pipeline"].mode,
               shows |-> Anomalous(FeaturesOf[p.kind], results), samples |-> baseline.count,
               unfailed |-> Level(Aggregate(p.kind, h, intact, past))]
  /\ UNCHANGED <<artifacts, today, stored, waiting, recent, baseline, learnt>>

\* A payload of level high or critical is not learnt from; then the verdict is saved.
Finish ==
  /\ Served /\ ~Free
  /\ LET f == LearntOf[stored[verdict.of].kind] IN
     IF verdict.level \in {"high", "critical"} THEN UNCHANGED <<baseline, learnt>>
     ELSE /\ baseline' = Updated(baseline, f)
          /\ learnt' = Append(learnt, [day |-> today, features |-> f])
  /\ waiting' = waiting \ {verdict.of}
  /\ recent' = IF verdict.score > 0 THEN Append(recent, verdict.score) ELSE recent
  /\ verdict' = NoVerdict
  /\ UNCHANGED <<artifacts, today, stored, faults>>

\* A verdict that is not saved is lost, and its payload delivered again; the process may
\* find more files than before.
Restart ==
  /\ Served /\ faults < MaxFaults /\ faults' = faults + 1
  /\ artifacts' \in {artifacts, "all"} /\ verdict' = NoVerdict
  /\ UNCHANGED <<today, stored, waiting, recent, baseline, learnt>>

ServingNext ==
  \/ \E kind \in Kinds : Store(kind)
  \/ NextDay \/ HoursPass \/ Finish \/ Restart
  \/ \E i \in waiting : JudgeIdle(i) \/ \E failed \in SUBSET Detectors : Judge(i, failed)

Init == TrainingInit /\ ServingInit
Next ==
  \/ (ExtractFeatures \/ SplitUsers \/ FitModels \/ RankUsers \/ ReviewQueue \/ Die \/ NewLogs)
       /\ UNCHANGED serving
  \/ Start \/ ServingNext
vars == <<pipeline, serving>>
Spec == Init /\ [][Next]_vars

-----------------------------------------------------------------------------
(* Properties *)

\* The numbers stay in their ranges.
TypeOK ==
  /\ stage \in {"start", "extracted", "split", "fitted", "ranked", "reviewed", "served"}
  /\ train \subseteq DOMAIN Scenario /\ Range(risk) \subseteq 0 .. 1000
  /\ optimal \in Nat /\ Range(ranked) \subseteq DOMAIN Scenario
  /\ artifacts \in {"none", "columns", "all"} /\ today \in 1 .. MaxDay
  /\ waiting \subseteq 1 .. Len(stored) /\ faults \in 0 .. MaxFaults
  /\ verdict.score \in 0 .. 1000 /\ Range(recent) \subseteq 0 .. 1000
  /\ DOMAIN baseline.sums = DOMAIN baseline.counts /\ DOMAIN baseline.means = DOMAIN baseline.stds
  /\ \A c \in DOMAIN baseline.stds : baseline.stds[c] >= 10
  /\ baseline.count = Len(learnt)

\* A verdict of medium or worse has a witness (_verify_critical_corroboration): the two
\* halves of a kill chain among the anomalous features, or the drift over a full history
\* that the user's samples give confidence in; never the rules, a spike or a single day
\* alone.  Today counts twice in a history that is full.
RaisedNeedsWitness ==
  Rank(verdict.level) > 1 =>
    \/ \E chain \in {<<Usb, {"job_search_site_visits"}>>, <<Deletes, Logins>>,
                     <<{"file_sharing_site_visits"}, Sensitive>>} :
         verdict.shows \cap chain[1] # {} /\ verdict.shows \cap chain[2] # {}
    \/ /\ "file_sharing_site_visits" \in verdict.shows
       /\ "FILE_EXFIL_GROUP" \in HeuristicsOf[stored[verdict.of].kind].groups
    \/ /\ verdict.mode = "full" /\ 5 * verdict.samples >= 4 * Warm /\ artifacts = "all"
       /\ Cardinality({stored[i].day : i \in 1 .. Len(stored)}) >= MinDays - 1

\* A detector that fails never raises the level of a verdict: with the result it would
\* have given the level were the same or worse (run_all, aggregate_detectors).
FaultsOnlyLower == Rank(verdict.level) <= Rank(verdict.unfailed)

\* The entries of a day with the feature c, what they add up to, and their mean.
Shown(entries, day, c) == {i \in DOMAIN entries : entries[i].day = day /\ c \in DOMAIN entries[i].features}
Total(entries, day, c) ==
  LET sum[n \in 0 .. Len(entries)] ==
        CASE n = 0 -> 0
          [] n # 0 /\ n \in Shown(entries, day, c) -> sum[n - 1] + entries[n].features[c]
          [] OTHER -> sum[n - 1] IN
  sum[Len(entries)]
DayMean(entries, day, c) == Total(entries, day, c) \div Cardinality(Shown(entries, day, c))

\* The days with the feature before the last one, and its average over them.
DaysWith(entries, last, c) ==
  {d \in {e.day : e \in Range(entries)} \ {last} : Shown(entries, d, c) # {}}
LongMean(entries, last, c) ==
  LET days == InOrder(DaysWith(entries, last, c))
      mean[n \in 0 .. Len(days)] ==
        IF n = 0 THEN DayMean(entries, days[1], c)
        ELSE Averaged(mean[n - 1], DayMean(entries, days[n], c)) IN
  mean[Len(days)]

\* The averages a payload is measured against are those of the days before the last one
\* learnt on: of each day the mean of what was learnt, and of nothing twice.
MeansOfEarlierDays ==
  \A c \in DOMAIN baseline.means \cup UNION {DOMAIN l.features : l \in Range(learnt)} :
    IF DaysWith(learnt, baseline.date, c) = {} THEN c \notin DOMAIN baseline.means
    ELSE c \in DOMAIN baseline.means /\ baseline.means[c] = LongMean(learnt, baseline.date, c)

\* The trend served for a payload of today is the one training computes from the
\* same days (inference.py: "computing daily risk metrics and rolling features (delta,
\* mean, std) on-the-fly to match training").
ServedLikeTrained ==
  \A i \in waiting :
    LET before == SelectSeq(LastDays(MinDays), LAMBDA p : p.day < today) IN
    ( /\ artifacts = "all" /\ SameName /\ stored[i].day = today /\ Len(before) >= 2
      /\ {p.kind : p \in Range(stored)} \cap TextKinds = {} )
      => LET asTrained == Append(Risks(before), RiskOf[stored[i].kind]) IN
         ServedTrend(stored[i]).delta = Trend(asTrained, Len(asTrained)).delta
=============================================================================
