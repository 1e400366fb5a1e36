------------------------------ MODULE Training ------------------------------
(***************************************************************************)
(* The offline pipeline (model/run_new_model.py) from the raw logs to the  *)
(* review queue: the four extractors and their merge, the domain risks,    *)
(* the split of the users, the trend of the daily risk, the sequences for  *)
(* RedRVFL and the ranking of the test users.  One action is one stage.    *)
(* The process may end at any stage, with an error or killed, and a later  *)
(* run reuses the features the earlier one saved.                          *)
(*                                                                         *)
(* A log is a sequence of lines in the order of its file; a line has the   *)
(* fields user, day, hour, kind (the activity) and what (the PC, the name  *)
(* of the file, the URL).  A row is a user's day.  Ratios and risks are in *)
(* thousandths.  Entropies, the estimators and the plots are left out; a   *)
(* sequence is named by the days whose fused risk it holds.                *)
(***************************************************************************)
EXTENDS Integers, FiniteSets, SequencesExt

CONSTANTS
  Logs,      \* the INPUT_LOGS there may be
  Host,      \* the domain of each URL of http.csv
  Weekend,   \* the days that are a Saturday or a Sunday
  Scenario,  \* insider_labels.csv: the threat_scenario of each user
  Window,    \* sequence_length
  Step       \* how much the review queue grows at a time

LogLine == [user : DOMAIN Scenario, day : Nat, hour : 0 .. 23, kind : STRING, what : STRING]
TrainingAssumption ==
  /\ Window \in Nat \ {0} /\ Step \in Nat \ {0} /\ IsFiniteSet(DOMAIN Scenario)
  /\ Logs \subseteq [logon : Seq(LogLine), file : Seq(LogLine), device : Seq(LogLine), http : Seq(LogLine)]
ASSUME TrainingAssumption

VARIABLES
  stage,     \* the last stage that is through
  log,       \* the INPUT_LOGS
  saved,     \* raw_features.csv, once there is one: its rows and, as history, their log
  rows,      \* feature_df
  train,     \* the train users
  risk,      \* overall_risk of each row
  fitted,    \* the sequences the scalers and RedRVFL were fitted on
  ranked,    \* the test users with their score_v2, best first
  optimal    \* optimal_k

pipeline == <<stage, log, saved, rows, train, risk, fitted, ranked, optimal>>

NoRows == <<>>
NoFile == <<>>
NoLogs == [logon |-> <<>>, file |-> <<>>, device |-> <<>>, http |-> <<>>]

-----------------------------------------------------------------------------
(* Extraction *)

Key(e) == <<e.user, e.day>>
Keys(lines) == {Key(e) : e \in Range(lines)}
Only(lines, Test(_)) == SelectSeq(lines, Test)
OfDay(lines, k) == Only(lines, LAMBDA e : Key(e) = k)
Whats(lines, k) == {e.what : e \in Range(OfDay(lines, k))}
AfterHours(e) == e.hour < 7 \/ e.hour >= 18
Hours(lines) == {e.hour : e \in Range(lines)}
First(hours) == IF hours = {} THEN 0 ELSE Min(hours)
Latest(hours) == IF hours = {} THEN 0 ELSE Max(hours)
Ratio(n, of) == (1000 * n) \div (IF of = 0 THEN 1 ELSE of)

LogonFeatures(lines) ==
  [k \in Keys(lines) |->
    LET logons == Only(OfDay(lines, k), LAMBDA e : e.kind = "Logon")
        logoffs == Only(OfDay(lines, k), LAMBDA e : e.kind = "Logoff")
        late == Len(Only(logons, AfterHours)) IN
    [logon_count |-> Len(logons), logoff_count |-> Len(logoffs),
     unique_pc_count |-> Cardinality(Whats(lines, k)),
     daily_unique_pc_count |-> Cardinality(Whats(lines, k)),
     after_hours_logon |-> late, daily_after_hours_logon_ratio |-> Ratio(late, Len(logons)),
     first_logon_time |-> First(Hours(logons)), last_logoff_time |-> Latest(Hours(logoffs)),
     weekend_logon |-> IF k[2] \in Weekend THEN 1 ELSE 0]]

\* The numbers of a set as a sequence, the smallest first.
InOrder(set) == [i \in 1 .. Cardinality(set) |-> CHOOSE n \in set : Cardinality({m \in set : m <= n}) = i]

UsersIn(lines) == {e.user : e \in Range(lines)}

\* How many of the items of each row are new to its user, when the days of each user are
\* taken in the given order.
NewItems(order, items) ==
  [k \in DOMAIN items |->
    LET days == order[k[1]] IN
    Cardinality({x \in items[k] : \A i, j \in DOMAIN days :
                   i < j /\ days[j] = k[2] => x \notin items[<<k[1], days[i]>>]})]

\* groupby sorts the groups by user and day.
ByDay(lines) == [u \in UsersIn(lines) |-> InOrder({k[2] : k \in {x \in Keys(lines) : x[1] = u}})]

\* user_day_data: the rows in the order in which the file first shows them.
FirstLine(lines, k) == Min({i \in DOMAIN lines : Key(lines[i]) = k})
AsMet(lines) ==
  [u \in UsersIn(lines) |->
    LET starts == InOrder({FirstLine(lines, k) : k \in {x \in Keys(lines) : x[1] = u}}) IN
    [n \in DOMAIN starts |-> lines[starts[n]].day]]

\* Variant: the groups of the file log are not sorted.
FileFeatures_AsMet(lines) ==
  LET new == NewItems(AsMet(lines), [k \in Keys(lines) |-> Whats(lines, k)]) IN
  [k \in Keys(lines) |->
    [file_access_count |-> Len(OfDay(lines, k)),
     daily_unique_filename_count |-> Cardinality(Whats(lines, k)),
     daily_new_filename_count |-> new[k]]]

FileFeatures(lines) ==
  LET new == NewItems(ByDay(lines), [k \in Keys(lines) |-> Whats(lines, k)]) IN
  [k \in Keys(lines) |->
    [file_access_count |-> Len(OfDay(lines, k)),
     daily_unique_filename_count |-> Cardinality(Whats(lines, k)),
     daily_new_filename_count |-> new[k]]]

DeviceFeatures(lines) ==
  [k \in Keys(lines) |->
    LET connects == Only(OfDay(lines, k), LAMBDA e : e.kind = "Connect") IN
    [usb_connect_count |-> Len(connects), daily_device_connect_count |-> Len(connects),
     usb_disconnect_count |-> Len(Only(OfDay(lines, k), LAMBDA e : e.kind = "Disconnect")),
     after_hours_usb_usage |-> Len(Only(OfDay(lines, k), AfterHours)),
     daily_device_usage_flag |-> 1, first_usb_usage_time |-> First(Hours(connects))]]

Domains(lines, k) == {Host[url] : url \in Whats(lines, k)}
Visits(lines, k, domains) == Len(Only(OfDay(lines, k), LAMBDA e : Host[e.what] \in domains))

HttpFeatures(lines) ==
  LET new == NewItems(AsMet(lines), [k \in Keys(lines) |-> Domains(lines, k)]) IN
  [k \in Keys(lines) |->
    LET count == Len(OfDay(lines, k))
        domains == Domains(lines, k) IN
    [http_count |-> count, daily_http_request_count |-> count,
     unique_url_count |-> Cardinality(Whats(lines, k)),
     suspicious_url_count |-> Visits(lines, k, {"wikileaks.org", "dropbox.com",
                                                "mediafire.com", "rapidshare.com"}),
     file_sharing_site_visits |-> Visits(lines, k, {"dropbox.com", "box.com",
                                                    "mediafire.com", "rapidshare.com"}),
     job_search_site_visits |-> Visits(lines, k, {"monster.com", "indeed.com",
                                                  "careerbuilder.com", "dice.com"}),
     http_after_hours |-> Len(Only(OfDay(lines, k), AfterHours)),
     daily_unique_domain_count |-> Cardinality(domains),
     daily_new_domain_count |-> new[k],
     daily_external_domain_ratio |-> Ratio(Cardinality(domains \ {""}), Cardinality(domains))]]

\* feature_schema.py, which feature_columns_IF.json repeats.
Columns ==
  [logon |-> {"logon_count", "logoff_count", "unique_pc_count", "daily_unique_pc_count",
              "after_hours_logon", "daily_after_hours_logon_ratio", "first_logon_time",
              "last_logoff_time", "weekend_logon"},
   file |-> {"file_access_count", "daily_unique_filename_count", "daily_new_filename_count"},
   device |-> {"usb_connect_count", "usb_disconnect_count", "after_hours_usb_usage",
               "daily_device_connect_count", "daily_device_usage_flag", "first_usb_usage_time"},
   http |-> {"http_count", "daily_http_request_count", "unique_url_count",
             "suspicious_url_count", "file_sharing_site_visits", "job_search_site_visits",
             "http_after_hours", "daily_unique_domain_count", "daily_new_domain_count",
             "daily_external_domain_ratio"}]

\* The outer merge of the four tables; what a row has no value for is 0.
Extract(logs) ==
  LET tables == [logon |-> LogonFeatures(logs.logon), file |-> FileFeatures(logs.file),
                 device |-> DeviceFeatures(logs.device), http |-> HttpFeatures(logs.http)] IN
  [k \in UNION {DOMAIN tables[d] : d \in DOMAIN tables} |->
    [c \in UNION Range(Columns) |->
      LET d == CHOOSE x \in DOMAIN Columns : c \in Columns[x] IN
      IF k \in DOMAIN tables[d] THEN tables[d][k][c] ELSE 0]]

-----------------------------------------------------------------------------
(* Risks, users, sequences *)

\* An isolation forest fitted on all rows, a stand-in for it: a row is the more of an
\* outlier the more of the domain's features exceed their mean.
Forest(table, k, columns) ==
  100 * (1 + Cardinality({c \in columns :
    table[k][c] * Cardinality(DOMAIN table)
      > MapThenSumSet(LAMBDA x : table[x][c], DOMAIN table)}))

\* The weights of the domains from SHAP, in thousandths.
Weighted(table, k) ==
  (174 * Forest(table, k, Columns.file) + 25 * Forest(table, k, Columns.device)
    + 614 * Forest(table, k, Columns.http) + 187 * Forest(table, k, Columns.logon)) \div 1000

\* The divisor is the largest risk of a train row; a test row may exceed it and counts as 1.
OverallRisk(table, users) ==
  LET most == Max({Weighted(table, k) : k \in {x \in DOMAIN table : x[1] \in users}}) IN
  [k \in DOMAIN table |-> Min({1000, (1000 * Weighted(table, k)) \div most})]

DaysOf(table, user) == InOrder({k[2] : k \in {x \in DOMAIN table : x[1] = user}})

\* add_risk_trend_features for the i-th of a user's rows: the change since the row before,
\* and the rows whose mean and deviation are taken, as many as a sequence has.
Trend(series, i) ==
  [delta |-> IF i = 1 THEN 0 ELSE series[i] - series[i - 1],
   over |-> SubSeq(series, Max({1, i - Window + 1}), i)]

UsersOf(scenario) == {u \in DOMAIN Scenario : Scenario[u] = scenario}

\* Variant: the share is rounded up.
SplitSize_Up(n) == (4 * n + 4) \div 5

SplitSize(n) == (4 * n) \div 5

Insiders == {u \in DOMAIN Scenario : Scenario[u] # "normal"}
Test == DOMAIN Scenario \ train

\* Variant: a sequence ends with the row it is to predict.
Sequences_Leaky(table, users) ==
  UNION {LET days == DaysOf(table, u) IN
         {[user |-> u, days |-> SubSeq(days, i - Window + 1, i), target |-> days[i]] :
            i \in Window + 1 .. Len(days)} : u \in users}

\* create_sequences: a user with Window rows or less has none.
Sequences(table, users) ==
  UNION {LET days == DaysOf(table, u) IN
         {[user |-> u, days |-> SubSeq(days, i - Window, i - 1), target |-> days[i]] :
            i \in Window + 1 .. Len(days)} : u \in users}

Found(queue, k) == Cardinality({i \in 1 .. k : queue[i] \in Insiders})

\* The queue grows until all ranked insiders are in it; it stays at 10, two steps, when
\* there are none or the last of them comes after the last full step.
OptimalK(queue) ==
  LET full == {k \in 1 .. Len(queue) : /\ k % Step = 0
                                       /\ Found(queue, k) = Found(queue, Len(queue))} IN
  IF Found(queue, Len(queue)) = 0 \/ full = {} THEN 2 * Step ELSE Min(full)

-----------------------------------------------------------------------------
TrainingInit ==
  /\ stage = "start" /\ log \in Logs /\ saved = NoFile
  /\ rows = NoRows /\ train = {} /\ risk = <<>> /\ fitted = {}
  /\ ranked = <<>> /\ optimal = 0

\* Stage 1: raw_features.csv is used when there is one, whatever log it was made from.
ExtractFeatures ==
  /\ stage = "start" /\ stage' = "extracted"
  /\ saved' = IF saved = NoFile THEN <<[of |-> log, rows |-> Extract(log)]>> ELSE saved
  /\ rows' = saved'[1].rows
  /\ UNCHANGED <<log, train, risk, fitted, ranked, optimal>>

\* Stage 2: stratified_user_split shuffles the users of each scenario; without a day of a
\* normal train user the percentile of their risks raises.
SplitUsers ==
  /\ stage = "extracted" /\ stage' = "split"
  /\ train' \in {users \in SUBSET DOMAIN Scenario :
       \A s \in Range(Scenario) :
         Cardinality(users \cap UsersOf(s)) = SplitSize(Cardinality(UsersOf(s)))}
  /\ \E k \in DOMAIN rows : k[1] \in train' \ Insiders
  /\ risk' = OverallRisk(rows, train')
  /\ UNCHANGED <<log, saved, rows, fitted, ranked, optimal>>

\* Stages 3 and 4: without one sequence the fit of the scaler raises.
FitModels ==
  /\ stage = "split" /\ stage' = "fitted"
  /\ fitted' = Sequences(rows, train) /\ fitted' # {}
  /\ UNCHANGED <<log, saved, rows, train, risk, ranked, optimal>>

\* The users with sequences, by a score of their errors: any order.  Only that of the
\* test users matters.
RankUsers ==
  /\ stage = "fitted" /\ stage' = "ranked"
  /\ ranked' \in SetToSeqs({s.user : s \in Sequences(rows, Test)})
  /\ UNCHANGED <<log, saved, rows, train, risk, fitted, optimal>>

\* Stage 5.
ReviewQueue ==
  /\ stage = "ranked" /\ stage' = "reviewed"
  /\ optimal' = OptimalK(ranked)
  /\ UNCHANGED <<log, saved, rows, train, risk, fitted, ranked>>

\* The process ends; its files stay.
Forget ==
  /\ rows' = NoRows /\ train' = {} /\ risk' = <<>> /\ fitted' = {}
  /\ ranked' = <<>> /\ optimal' = 0
Die == stage \notin {"start", "served"} /\ stage' = "start" /\ Forget /\ UNCHANGED <<log, saved>>
NewLogs == stage = "start" /\ log' \in Logs \ {log} /\ UNCHANGED <<stage, saved, rows, train, risk, fitted, ranked, optimal>>

\* The artifacts are put where the server looks for them, and the training is over.
Deploy ==
  /\ stage = "reviewed" /\ stage' = "served" /\ Forget
  /\ saved' = NoFile /\ log' = NoLogs

TrainingNext ==
  \/ ExtractFeatures \/ SplitUsers \/ FitModels \/ RankUsers \/ ReviewQueue
  \/ Die \/ NewLogs \/ Deploy

-----------------------------------------------------------------------------
(* Properties *)

\* What a row of the user had that none of the user's earlier days had.
NewTo(k, lines, items(_)) ==
  {x \in items(k) : \A j \in Keys(lines) : j[1] = k[1] /\ j[2] < k[2] => x \notin items(j)}

Chronological(lines) ==
  \A i, j \in 1 .. Len(lines) :
    i < j /\ lines[i].user = lines[j].user => lines[i].day <= lines[j].day

\* The features in use are of a log, the present one or that of the run whose file is
\* reused, and count as new what the user's earlier days did not show: for files
\* whatever the order of the lines, for domains when the lines are in order of time.
FeaturesOfALog ==
  rows # NoRows =>
    LET of == saved[1].of IN
    /\ \A k \in Keys(of.file) : rows[k]["daily_new_filename_count"]
         = Cardinality(NewTo(k, of.file, LAMBDA x : Whats(of.file, x)))
    /\ Chronological(of.http) =>
         \A k \in Keys(of.http) : rows[k]["daily_new_domain_count"]
           = Cardinality(NewTo(k, of.http, LAMBDA x : Domains(of.http, x)))

\* The models look back only, from one user's row to the rows just before it, and at
\* train users only; a scenario with two users or more is trained and tested.
TrainedOnThePast ==
  /\ \A s \in fitted :
       /\ s.user \in train /\ s.user \notin Test
       /\ \A i \in 1 .. Window : s.days[i] < s.target
       /\ Cardinality({k \in DOMAIN rows : k[1] = s.user /\ k[2] >= s.days[1] /\ k[2] < s.target}) = Window
  /\ stage = "split" => \A s \in Range(Scenario) : Cardinality(UsersOf(s)) >= 2 =>
       UsersOf(s) \cap train # {} /\ UsersOf(s) \cap Test # {}

\* An insider of the test users who is not in the reported queue has too short a history,
\* or the queue has its default length and misses one after the last full step.
QueueHoldsInsiders ==
  stage = "reviewed" =>
    \A u \in Insiders \cap Test :
      \/ u \in Range(SubSeq(ranked, 1, Min({optimal, Len(ranked)})))
      \/ Cardinality({k \in DOMAIN rows : k[1] = u}) <= Window
      \/ optimal = 2 * Step /\ Found(ranked, (Len(ranked) \div Step) * Step) < Found(ranked, Len(ranked))

\* The training keeps time in order and the users apart (run_new_model.py).
TrainedOnTheLogs == FeaturesOfALog /\ TrainedOnThePast /\ QueueHoldsInsiders
=============================================================================
