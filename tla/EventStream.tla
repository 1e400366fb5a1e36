----------------------------- MODULE EventStream -----------------------------
(***************************************************************************)
(* A verdict's way to the dashboard: the worker that saved it publishes it *)
(* (EventBroadcaster), through Redis or straight into the queues of the    *)
(* open streams, a generator sends it to the browser, and the browser      *)
(* lists it and asks for a new summary (useRealTimeStream).  One server    *)
(* process, the topic "threats", one browser.                              *)
(*                                                                         *)
(* An event is the number of its verdict.  A summary is known by how many  *)
(* verdicts were stored when it was read.  Queue.put_nowait and get_nowait *)
(* are the steps of a dispatch; the 15 seconds of a generator's wait and   *)
(* the two intervals of the poll are left out.                             *)
(***************************************************************************)
EXTENDS Integers, FiniteSets, SequencesExt

CONSTANTS
  Workers,      \* the threads that publish
  QueueSize,    \* maxsize of a subscriber's queue
  LiveSize,     \* how many live threats the browser keeps
  MaxEvents, MaxStreams, MaxInFlight, MaxFaults  \* bounds

ASSUME StreamAssumption == {QueueSize, LiveSize} \subseteq Nat \ {0} /\ "listener" \notin Workers

VARIABLES
  hooked,     \* whether Redis answered when the process started
  listener,   \* the Redis listener: "on", "off" without its connection, "dead"
  bus,        \* the events on the listener's connection
  saved,      \* how many verdicts are stored
  sender,     \* what each worker and the listener is dispatching
  queues,     \* the queue of each stream that is subscribed, by the stream's number
  begun,      \* the streams whose generator has begun
  streams,    \* how many streams there have been
  stream,     \* the browser's stream; 0 when it has none
  mode,       \* connectionMode
  live,       \* liveThreats, newest first
  requests,   \* the refreshes under way: Asked, then the summary they bring
  summary,    \* the summary shown
  auto,       \* autoRefresh
  shown,      \* history: the events that reached the browser
  steady,     \* history: the events nothing has come in the way of
  doubled,    \* history: the events published twice
  streamFaults

server == <<hooked, listener, bus, saved, sender, queues, begun, streams>>
browser == <<stream, mode, live, requests, summary, auto>>
streamVars == <<server, browser, shown, steady, doubled, streamFaults>>

Asked == -1
Idle == [event |-> 0, step |-> "idle", todo |-> {}]
Senders == Workers \cup {"listener"}

StreamInit ==
  /\ hooked \in BOOLEAN /\ listener \in (IF hooked THEN {"on", "dead"} ELSE {"dead"})
  /\ bus = <<>> /\ saved = 0 /\ sender = [d \in Senders |-> Idle]
  /\ queues = <<>> /\ begun = {} /\ streams = 0 /\ stream = 0 /\ mode = "polling"
  /\ live = <<>> /\ requests = <<Asked>> /\ summary = 0 /\ auto = TRUE
  /\ shown = {} /\ steady = {} /\ doubled = {} /\ streamFaults = 0

Fault == streamFaults < MaxFaults /\ streamFaults' = streamFaults + 1
NoFault == UNCHANGED streamFaults
Disturbed == steady' = steady \cap shown
Undisturbed == UNCHANGED steady

-----------------------------------------------------------------------------
(* Publishing *)

\* The verdict is stored before its event is published (process_payload).
Save(w) ==
  /\ sender[w] = Idle /\ saved < MaxEvents
  /\ saved' = saved + 1
  /\ sender' = [sender EXCEPT ![w] = [event |-> saved', step |-> "publish", todo |-> {}]]
  /\ steady' = IF /\ stream # 0 /\ (hooked => listener = "on")
                  /\ \A d \in Senders : sender[d].step \notin {"pop", "again"}
               THEN steady \cup {saved'} ELSE steady
  /\ NoFault /\ UNCHANGED <<hooked, listener, bus, queues, begun, streams, browser, shown, doubled>>

\* _dispatch_local works on a copy of the list of subscribers.
Dispatch(e) ==
  IF DOMAIN queues = {} THEN Idle ELSE [event |-> e, step |-> "put", todo |-> DOMAIN queues]

\* Variant: an event that Redis did not take goes nowhere.
Fallback_None(e) == Idle

\* What publish does with an event that Redis did not take.
Fallback(e) == Dispatch(e)

\* Redis has the event for those who listen now; or Redis fails, and with a timeout it may
\* have the event all the same.
Publish(w) ==
  /\ sender[w].step = "publish"
  /\ LET e == sender[w].event
         heard == IF listener = "on" THEN Append(bus, e) ELSE bus IN
     \/ /\ hooked /\ bus' = heard /\ sender' = [sender EXCEPT ![w] = Idle]
        /\ NoFault /\ UNCHANGED doubled
     \/ /\ ~hooked /\ sender' = [sender EXCEPT ![w] = Dispatch(e)]
        /\ NoFault /\ UNCHANGED <<bus, doubled>>
     \/ /\ hooked /\ Fault /\ bus' \in {bus, heard}
        /\ sender' = [sender EXCEPT ![w] = Fallback(e)]
        /\ doubled' = IF bus' = bus THEN doubled ELSE doubled \cup {e}
  /\ Undisturbed
  /\ UNCHANGED <<hooked, listener, saved, queues, begun, streams, browser, shown>>

Listen ==
  /\ listener = "on" /\ sender["listener"] = Idle /\ bus # <<>>
  /\ bus' = Tail(bus) /\ sender' = [sender EXCEPT !["listener"] = Dispatch(Head(bus))]
  /\ Undisturbed /\ NoFault
  /\ UNCHANGED <<hooked, listener, saved, queues, begun, streams, browser, shown, doubled>>

\* What was on the connection is lost with it; the next get_message subscribes again.
LoseListener ==
  /\ listener = "on" /\ listener' = "off" /\ bus' = <<>> /\ Fault /\ Disturbed
  /\ UNCHANGED <<hooked, saved, sender, queues, begun, streams, browser, shown, doubled>>
RestoreListener ==
  /\ listener = "off" /\ listener' = "on" /\ NoFault /\ Undisturbed
  /\ UNCHANGED <<hooked, bus, saved, sender, queues, begun, streams, browser, shown, doubled>>

\* The dispatch to the first queue it has left, in its steps: put_nowait; when the queue is
\* full, get_nowait and put_nowait once more, and an error of either drops the event.
Target(d) == Min(sender[d].todo)
Queue(d) == IF Target(d) \in DOMAIN queues THEN queues[Target(d)] ELSE <<>>
Proceed(d) ==
  LET left == sender[d].todo \ {Target(d)} IN
  sender' = [sender EXCEPT ![d] = IF left = {} THEN Idle ELSE [@ EXCEPT !.step = "put", !.todo = left]]
Become(d, q) == queues' = IF Target(d) \in DOMAIN queues THEN [queues EXCEPT ![Target(d)] = q] ELSE queues

Put(d) ==
  /\ sender[d].step = "put"
  /\ IF Len(Queue(d)) < QueueSize
     THEN Become(d, Append(Queue(d), sender[d].event)) /\ Proceed(d) /\ Undisturbed
     ELSE /\ sender' = [sender EXCEPT ![d].step = "pop"] /\ UNCHANGED queues
          /\ IF Target(d) = stream THEN Disturbed ELSE Undisturbed
  /\ NoFault /\ UNCHANGED <<hooked, listener, bus, saved, begun, streams, browser, shown, doubled>>
Pop(d) ==
  /\ sender[d].step = "pop"
  /\ IF Queue(d) = <<>> THEN Proceed(d) /\ UNCHANGED queues
     ELSE Become(d, Tail(Queue(d))) /\ sender' = [sender EXCEPT ![d].step = "again"]
  /\ Undisturbed /\ NoFault
  /\ UNCHANGED <<hooked, listener, bus, saved, begun, streams, browser, shown, doubled>>
Again(d) ==
  /\ sender[d].step = "again" /\ Proceed(d)
  /\ IF Len(Queue(d)) < QueueSize THEN Become(d, Append(Queue(d), sender[d].event)) ELSE UNCHANGED queues
  /\ Undisturbed /\ NoFault
  /\ UNCHANGED <<hooked, listener, bus, saved, begun, streams, browser, shown, doubled>>

-----------------------------------------------------------------------------
(* The stream *)

\* The handler subscribes before the generator runs.
Connect ==
  /\ stream = 0 /\ streams < MaxStreams
  /\ streams' = streams + 1 /\ stream' = streams'
  /\ queues' = [s \in DOMAIN queues \cup {streams'} |-> IF s = streams' THEN <<>> ELSE queues[s]]
  /\ Undisturbed /\ NoFault
  /\ UNCHANGED <<hooked, listener, bus, saved, sender, begun, mode, live, requests, summary, auto, shown, doubled>>
Open ==
  /\ stream # 0 /\ mode # "sse" /\ mode' = "sse" /\ Undisturbed /\ NoFault
  /\ UNCHANGED <<server, stream, live, requests, summary, auto, shown, doubled>>
Begin ==
  /\ stream # 0 /\ stream \notin begun /\ begun' = begun \cup {stream} /\ Undisturbed /\ NoFault
  /\ UNCHANGED <<hooked, listener, bus, saved, sender, queues, streams, browser, shown, doubled>>

\* refreshAll, within the bound on the requests.
Refreshed == IF Len(requests) < MaxInFlight THEN Append(requests, Asked) ELSE requests

\* The generator's next event is listed, and the summary asked for.
Send ==
  /\ stream \in begun /\ queues[stream] # <<>>
  /\ LET e == Head(queues[stream]) IN
     /\ live' = SubSeq(<<e>> \o live, 1, Min({LiveSize, Len(live) + 1})) /\ shown' = shown \cup {e}
  /\ queues' = [queues EXCEPT ![stream] = Tail(@)] /\ requests' = Refreshed
  /\ Undisturbed /\ NoFault
  /\ UNCHANGED <<hooked, listener, bus, saved, sender, begun, streams, stream, mode, summary, auto, doubled>>

Cut ==
  /\ stream # 0 /\ stream' = 0 /\ mode' = "polling" /\ Fault /\ Disturbed
  /\ UNCHANGED <<server, live, requests, summary, auto, shown, doubled>>

\* A generator that has begun finds out, and gives its queue up; one that has not never does.
Unsubscribe(id) ==
  /\ id \in begun \cap DOMAIN queues /\ id # stream
  /\ queues' = [s \in DOMAIN queues \ {id} |-> queues[s]] /\ Undisturbed /\ NoFault
  /\ UNCHANGED <<hooked, listener, bus, saved, sender, begun, streams, browser, shown, doubled>>

RestartServer ==
  /\ Fault /\ Disturbed /\ hooked' \in BOOLEAN /\ listener' \in (IF hooked' THEN {"on", "dead"} ELSE {"dead"})
  /\ bus' = <<>> /\ sender' = [d \in Senders |-> Idle] /\ queues' = <<>>
  /\ stream' = 0 /\ mode' = "polling"
  /\ UNCHANGED <<saved, begun, streams, live, requests, summary, auto, shown, doubled>>

-----------------------------------------------------------------------------
(* The summary *)

\* Variant: with an open stream there is no poll.
Poll_FallbackOnly ==
  /\ auto /\ mode = "polling" /\ Len(requests) < MaxInFlight /\ requests' = Refreshed
  /\ Undisturbed /\ NoFault
  /\ UNCHANGED <<server, stream, mode, live, summary, auto, shown, doubled>>

\* Every 30 seconds, or every 3 without a stream.
Poll ==
  /\ auto /\ Len(requests) < MaxInFlight /\ requests' = Refreshed
  /\ Undisturbed /\ NoFault
  /\ UNCHANGED <<server, stream, mode, live, summary, auto, shown, doubled>>

\* dashboard_summary reads the verdicts, and its answer arrives, after another perhaps; or
\* the request fails and the summary stays.
Answer(i) ==
  /\ requests[i] = Asked /\ requests' = [requests EXCEPT ![i] = saved] /\ Undisturbed /\ NoFault
  /\ UNCHANGED <<server, stream, mode, live, summary, auto, shown, doubled>>
Arrive(i) ==
  /\ requests[i] # Asked /\ summary' = requests[i] /\ requests' = RemoveAt(requests, i)
  /\ Undisturbed /\ NoFault
  /\ UNCHANGED <<server, stream, mode, live, auto, shown, doubled>>
Fail(i) ==
  /\ Fault /\ requests' = RemoveAt(requests, i) /\ Undisturbed
  /\ UNCHANGED <<server, stream, mode, live, summary, auto, shown, doubled>>

ToggleAutoRefresh ==
  /\ auto' = ~auto /\ Undisturbed /\ NoFault
  /\ UNCHANGED <<server, stream, mode, live, requests, summary, shown, doubled>>

StreamNext ==
  \/ \E w \in Workers : Save(w) \/ Publish(w)
  \/ Listen \/ LoseListener \/ RestoreListener
  \/ \E d \in Senders : Put(d) \/ Pop(d) \/ Again(d)
  \/ Connect \/ Open \/ Begin \/ Send \/ Cut \/ RestartServer
  \/ \E id \in 1 .. streams : Unsubscribe(id)
  \/ Poll \/ ToggleAutoRefresh
  \/ \E i \in 1 .. Len(requests) : Answer(i) \/ Arrive(i) \/ Fail(i)

StreamSpec == StreamInit /\ [][StreamNext]_streamVars

\* The interval fires as long as it is set, and a request is answered and its answer
\* arrives, unless it fails.
StreamFairness ==
  /\ WF_streamVars(Poll)
  /\ \A i \in 1 .. MaxInFlight :
       WF_streamVars(i <= Len(requests) /\ (Answer(i) \/ Arrive(i)))

-----------------------------------------------------------------------------
(* Properties *)

\* An event that is published while the browser's stream is open and the listener, if it
\* is needed, on its connection, and before either breaks or a queue overflows, is shown
\* or on its way (publish, _dispatch_local); twice only when Redis took it and reported
\* an error.
EventsArrive ==
  /\ \A e \in steady \ shown :
       \/ stream # 0 /\ \E i \in 1 .. Len(queues[stream]) : queues[stream][i] = e
       \/ e \in Range(bus) \/ \E d \in Senders : sender[d].event = e
  /\ \A i, j \in 1 .. Len(live) : i < j /\ live[i] = live[j] => live[i] \in doubled

\* While the page refreshes itself the summary becomes that of all verdicts and stays it,
\* whatever events were lost and in whatever order answers arrive (useRealTimeStream).
SummarySettles == <>[]auto => <>[](summary = saved)
=============================================================================
