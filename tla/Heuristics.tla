----------------------------- MODULE Heuristics -----------------------------
(***************************************************************************)
(* The rule engine (heuristics/): which scenarios a payload's features     *)
(* show, and the score detect_insider_threat makes of them.  Pure          *)
(* operators over a feature vector, a function from feature names to       *)
(* numbers.  Ratios and entropies are in thousandths, times in hours, the  *)
(* score in tenths of a point.  A text feature that a rule reads is a      *)
(* number here: the profile is a field of its own, "trusted_process" says  *)
(* that the process is one of TRUSTED_BUILD_PROCESSES and "benign_path"    *)
(* that the path matches one of BENIGN_PATH_PATTERNS.                      *)
(***************************************************************************)
EXTENDS Integers, FiniteSets, SequencesExt

\* safe_get: a feature that is missing, None or NaN counts as 0.
Value(f, name) == IF name \in DOMAIN f THEN f[name] ELSE 0

LogonScenarios(f) ==
  LET v(name) == Value(f, name) IN
  {s \in {"After-Hours Midnight Access", "Multi-PC Lateral Movement", "Normal Daily Login",
          "Short Repeated Sessions", "Possible Account Sharing"} :
    CASE s = "After-Hours Midnight Access" ->
           /\ v("after_hours_logon") >= 50
           /\ v("first_logon_time") <= 2 \/ v("logon_count") >= 100
      [] s = "Multi-PC Lateral Movement" ->
           \/ v("unique_pc_count") >= 100
           \/ v("daily_unique_pc_count") >= 100 /\ v("daily_pc_access_entropy") >= 5500
      [] s = "Normal Daily Login" ->
           /\ v("logon_count") <= 50 /\ v("unique_pc_count") <= 10
           /\ v("after_hours_logon") <= 25 /\ v("weekend_logon") <= 25
      [] s = "Short Repeated Sessions" ->
           /\ v("logon_count") >= 300 /\ v("logoff_count") >= 300
           /\ v("logon_count") - v("logoff_count") \in -20 .. 20
      [] s = "Possible Account Sharing" ->
           /\ v("logon_count") >= 100 /\ v("unique_pc_count") >= 50
           /\ v("daily_after_hours_logon_ratio") > 950}

FileScenarios(f) ==
  LET v(name) == Value(f, name)
      regular == v("after_hours_file_access") <= 50 /\ v("weekend_file_access") <= 50 IN
  {s \in {"Bulk File Collection", "Normal Document Editing", "Anomalous File Access Pattern",
          "Credential File Hunting", "Possible New Employee Onboarding",
          "After-Hours File Activity", "Weekend File Collection Activity"} :
    CASE s = "Bulk File Collection" ->
           v("file_access_count") >= 20000 /\ v("daily_unique_filename_count") >= 5000
      [] s = "Normal Document Editing" ->
           /\ v("file_access_count") \in 1 .. 2500
           /\ v("daily_unique_filename_count") \in 1 .. 2500 /\ regular
      [] s = "Anomalous File Access Pattern" ->
           /\ v("daily_file_access_entropy") >= 6500 /\ v("daily_new_filename_count") >= 2500
           /\ v("daily_repeat_file_ratio") <= 5 /\ v("file_access_count") >= 5000
      [] s = "Credential File Hunting" ->
           /\ v("daily_new_filename_count") >= 3000 /\ v("daily_repeat_file_ratio") <= 5
           /\ v("daily_unique_filename_count") >= 3000
      [] s = "Possible New Employee Onboarding" ->
           /\ v("file_access_count") \in 10 .. 10000
           /\ v("daily_unique_filename_count") \in 10 .. 10000
           /\ regular /\ v("daily_repeat_file_ratio") < 850
      [] s = "After-Hours File Activity" ->
           v("after_hours_file_access") >= 100 /\ v("file_access_count") >= 5000
      [] s = "Weekend File Collection Activity" ->
           v("weekend_file_access") >= 100 /\ v("file_access_count") >= 5000}

HttpScenarios(f) ==
  LET v(name) == Value(f, name)
      clean == v("suspicious_url_count") <= 5 /\ v("file_sharing_site_visits") <= 50 IN
  {s \in {"Normal Work Browsing", "Cloud Storage Exfiltration", "Research on Dark Web Tools",
          "Personal Email File Forwarding", "Malware C2 Communication", "Online Training Course",
          "Excessive Personal Browsing", "Tor Network Access Attempt",
          "Social Media During Work Hours", "Phishing Site Visit"} :
    CASE s = "Normal Work Browsing" ->
           /\ v("http_count") > 0 /\ clean /\ v("job_search_site_visits") <= 25
           /\ v("http_after_hours") <= 50 /\ v("unique_url_count") <= 2000
      [] s = "Cloud Storage Exfiltration" ->
           v("file_sharing_site_visits") >= 200 /\ v("http_after_hours") >= 50
      [] s = "Research on Dark Web Tools" ->
           v("suspicious_url_count") >= 100 /\ v("unique_url_count") <= 5
      [] s = "Personal Email File Forwarding" ->
           /\ v("file_sharing_site_visits") >= 300 /\ v("http_after_hours") >= 50
           /\ v("daily_external_domain_ratio") >= 980
      [] s = "Malware C2 Communication" ->
           /\ v("http_count") >= 5000 /\ v("unique_url_count") <= 2
           /\ v("suspicious_url_count") >= 30
      [] s = "Online Training Course" ->
           /\ v("suspicious_url_count") <= 5 /\ v("unique_url_count") \in 10 .. 2000
           /\ v("job_search_site_visits") \in 1 .. 50
      [] s = "Excessive Personal Browsing" -> v("http_count") >= 50 /\ clean
      [] s = "Tor Network Access Attempt" ->
           v("suspicious_url_count") >= 100 /\ v("http_after_hours") >= 50
      [] s = "Social Media During Work Hours" ->
           v("http_count") <= 5000 /\ clean /\ v("job_search_site_visits") <= 50
      [] s = "Phishing Site Visit" ->
           /\ v("suspicious_url_count") >= 50 /\ v("unique_url_count") <= 5
           /\ v("http_count") <= 50}

DeviceScenarios(f) ==
  IF Value(f, "usb_connect_count") >= 300 /\ Value(f, "usb_disconnect_count") >= 300
  THEN {"Repeated Short USB Connects"} ELSE {}

Detections(f) ==
  UNION {LogonScenarios(f), FileScenarios(f), HttpScenarios(f), DeviceScenarios(f)}

\* The score and the confidence (in percent) the rules give with each scenario.
Benign == {"Normal Daily Login", "Normal Document Editing", "Possible New Employee Onboarding",
           "Normal Work Browsing", "Online Training Course", "Excessive Personal Browsing",
           "Social Media During Work Hours"}
Grave == {"Bulk File Collection", "Credential File Hunting", "Cloud Storage Exfiltration",
          "Personal Email File Forwarding"}
Gravest == {"Multi-PC Lateral Movement", "Malware C2 Communication"}
Points(s) == CASE s \in Benign -> 0 [] s \in Grave -> 15 [] s \in Gravest -> 20 [] OTHER -> 10
Confidence(s) ==
  CASE s = "Possible Account Sharing" -> 40
    [] s \in Grave \cup Gravest \cup {"Repeated Short USB Connects"} -> 90
    [] OTHER -> 70

\* _infer_domain reads the domain off the scenario's name: a name that holds none of its
\* words is of the file domain, that of a logon at midnight and of a phishing site too.
Domain(s) ==
  CASE s = "Repeated Short USB Connects" -> "DEVICE"
    [] s \in {"Multi-PC Lateral Movement", "Short Repeated Sessions",
              "Possible Account Sharing"} -> "LOGON"
    [] s \in {"Normal Work Browsing", "Cloud Storage Exfiltration",
              "Excessive Personal Browsing", "Tor Network Access Attempt"} -> "HTTP"
    [] OTHER -> "FILE"

\* CORRELATION_GROUPS; a group of one scenario, named there or not, has the scenario's name.
Group(s) ==
  CASE s \in {"Bulk File Collection", "Credential File Hunting",
              "After-Hours File Activity"} -> "FILE_EXFIL_GROUP"
    [] s \in {"Multi-PC Lateral Movement", "Possible Account Sharing"} -> "LOGON_ASSET_GROUP"
    [] OTHER -> s

\* PROFILE_SENSITIVITY, in percent.
Sensitivity(profile, domain) ==
  LET row(file, http, logon, device) ==
        [FILE |-> file, HTTP |-> http, LOGON |-> logon, DEVICE |-> device][domain] IN
  CASE profile = "OFFICE_WORKER" -> 100
    [] profile = "DEVELOPER" -> row(35, 60, 70, 80)
    [] profile = "SYSADMIN" -> row(60, 70, 30, 70)
    [] profile = "DATA_ENGINEER" -> row(40, 30, 60, 70)
    [] profile = "MEDIA_CREATOR" -> row(40, 50, 80, 30)
    [] OTHER -> 80

\* The discounts for a build tool and for a path of build output, in percent: no scenario
\* has one of the names of HTTP_EXFIL_GROUP, so that its discount is never given.
Discount(f, s) ==
  ((IF Value(f, "trusted_process") = 1 /\ Domain(s) = "FILE" THEN 20 ELSE 100)
    * (IF Value(f, "benign_path") = 1 THEN 25 ELSE 100)) \div 100

\* effective_score * confidence_weight, in units of 10^-4.
Weight(f, profile, s) ==
  (Points(s) * Confidence(s) * Sensitivity(profile, Domain(s)) * Discount(f, s)) \div 100

\* The n-th strongest of the scenarios of a group.
Nth(weights, n) ==
  Max({0} \cup {v \in Range(weights) : Cardinality({s \in DOMAIN weights : weights[s] >= v}) >= n})

\* A group's strongest scenario counts in full, each next one a fifth of the last share; no
\* group has more than three.
GroupScore(weights) == Nth(weights, 1) + Nth(weights, 2) \div 5 + Nth(weights, 3) \div 25

DomainWeight == [FILE |-> 7, DEVICE |-> 6, LOGON |-> 4, HTTP |-> 3]
Over(f) == f.FILE + f.DEVICE + f.LOGON + f.HTTP

\* detect_insider_threat.  A scenario without points makes its domain an active one all
\* the same.  The bonus for three domains at 35 points is left out: no group has 20.
Heuristics(f, profile) ==
  LET found == Detections(f)
      active == {Domain(s) : s \in found}
      score(g) == GroupScore([s \in {x \in found : Group(x) = g} |-> Weight(f, profile, s)])
      peak == [d \in DOMAIN DomainWeight |->
                Max({0} \cup {score(g) : g \in {Group(s) : s \in {x \in found : Domain(x) = d}}})]
      risk == CASE active = {} -> 0
                [] Cardinality(active) = 1 -> (2 * Over(peak)) \div 5
                [] OTHER -> Over([d \in DOMAIN peak |-> peak[d] * DomainWeight[d]])
                              \div Over([d \in DOMAIN peak |-> IF d \in active THEN DomainWeight[d] ELSE 0]) IN
  [score |-> risk \div 1000, count |-> Cardinality(found),
   groups |-> {Group(s) : s \in found}]
=============================================================================
