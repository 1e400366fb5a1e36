--------------------------- MODULE MCRiskScoring ----------------------------
(* Instances of RiskScoring for TLC. *)
EXTENDS RiskScoring

CONSTANTS u1, u2, u3, u4, u5

Roles == u1 :> "normal" @@ u2 :> "normal" @@ u3 :> "usb_exfil" @@ u4 :> "usb_exfil"
           @@ u5 :> "sabotage"

Line(user, day, hour, kind, what) ==
  [user |-> user, day |-> day, hour |-> hour, kind |-> kind, what |-> what]
Logons(user, days) == [d \in 1 .. days |-> Line(user, d, 8, "Logon", "pc1")]
Visit(user, day, url) == Line(user, day, 20, "Visit", url)
Open(user, day, name) == Line(user, day, 9, "Open", name)
Hosts == [job |-> "dice.com", share |-> "dropbox.com"]

\* Three days and more of every user but the last; the lines of the second log are not
\* in order of time.
Ordinary ==
  [logon |-> Logons(u1, 3) \o Logons(u2, 4) \o Logons(u3, 3) \o Logons(u4, 3) \o Logons(u5, 2),
   file |-> <<Open(u3, 1, "f"), Open(u3, 2, "f"), Open(u3, 2, "g"), Open(u1, 1, "f")>>,
   device |-> <<Line(u3, 2, 19, "Connect", "usb"), Line(u3, 2, 20, "Disconnect", "usb")>>,
   http |-> <<Visit(u3, 1, "job"), Visit(u3, 2, "share"), Visit(u3, 3, "share")>>]
Disordered ==
  [logon |-> Logons(u1, 3) \o Logons(u3, 4) \o Logons(u4, 3) \o Logons(u5, 3),
   file |-> <<Open(u4, 2, "f"), Open(u4, 1, "f"), Open(u4, 2, "g")>>,
   device |-> <<>>,
   http |-> <<Visit(u4, 3, "job"), Visit(u4, 1, "job")>>]
TwoLogs == {Ordinary, Disordered}
OneLog == {Ordinary}
Sundays == {4}

\* A quiet day, one with a text feature, a burst of requests, a kill chain and no activity.
FiveKinds == {"quiet", "note", "burst", "exfil", "idle"}
Quiet == [logon_count |-> 2, http_count |-> 20, file_open_count |-> 5, unique_pc_count |-> 1]
Features ==
  [quiet |-> Quiet, note |-> Quiet,
   burst |-> [Quiet EXCEPT !.http_count = 2000] @@ [unique_url_count |-> 900],
   exfil |-> Quiet @@ [usb_connect_count |-> 400, usb_disconnect_count |-> 400,
                       job_search_site_visits |-> 60],
   idle |-> [logon_count |-> 0]]
Profiles == [k \in FiveKinds |-> IF k = "exfil" THEN "OFFICE_WORKER" ELSE "DEFAULT"]
Risk == [quiet |-> 300, note |-> 300, burst |-> 900, exfil |-> 950, idle |-> 100]
Prob == [quiet |-> 50, note |-> 50, burst |-> 900, exfil |-> 990, idle |-> 0]
Notes == {"note"}
MeanOfTwo == [before \in [1 .. 2 -> FiveKinds] |-> (Fused(before[1]) + Fused(before[2])) \div 2]

\* Two kinds only, one of which is a risk.
TwoKinds == {"quiet", "burst"}
Risk2 == [k \in TwoKinds |-> Risk[k]]
Prob2 == [k \in TwoKinds |-> Prob[k]]
Mean2 == [before \in [1 .. 2 -> TwoKinds] |-> (Fused(before[1]) + Fused(before[2])) \div 2]
Nothing == {}
=============================================================================
