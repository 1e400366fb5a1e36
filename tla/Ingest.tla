------------------------------- MODULE Ingest -------------------------------
(***************************************************************************)
(* Telemetry ingestion: POST /api/logs (server/api/ingest.py) down to      *)
(* HybridStorage.store_raw_payload and the enqueueing of the analysis.     *)
(*                                                                         *)
(* An agent, or the network, may deliver an envelope any number of times   *)
(* to any replica.  A replica runs a request from the duplicate check to   *)
(* the reply without giving up its event loop, so it has one request at a  *)
(* time between these two; requests of different replicas interleave at    *)
(* every call to a database.  Each replica found ClickHouse reachable when *)
(* it started, or stores its telemetry in PostgreSQL.                      *)
(***************************************************************************)
EXTENDS Naturals, FiniteSets

CONSTANTS
  Replicas,     \* the server processes
  Envelopes,    \* the encrypted envelopes agents may send
  Texts,        \* the payloads in them
  Ids, Times,   \* their payload_id and collected_at
  TextOf,       \* the payload in each envelope
  IdOf, TimeOf, \* the payload_id and the collected_at of each payload
  Secrets,      \* the payloads in which the scrubber finds something to redact
  ClickHouse,   \* what is_connected() may be after a start of a replica
  MaxRequests,  \* bound: requests received
  MaxFaults     \* bound: failed calls and crashes

ASSUME IngestAssumption ==
  /\ TextOf \in [Envelopes -> Texts]
  /\ IdOf \in [Texts -> Ids] /\ TimeOf \in [Texts -> Times]
  /\ Secrets \subseteq Texts
  /\ ClickHouse \subseteq BOOLEAN
  /\ MaxRequests \in Nat /\ MaxFaults \in Nat

VARIABLES
  connected,  \* is_connected() of each replica
  pc,         \* the call each replica makes next
  req,        \* the envelope of its request
  body,       \* the decrypted payload of its request: the text, scrubbed or not
  rows,       \* raw_payloads in PostgreSQL
  handed,     \* what was given to the ClickHouse batchers: an envelope and a body
  tasks,      \* the bodies enqueued for ml_inference
  lastSeen,   \* last_payload_id in the agents table
  expired,    \* the envelopes outside the replay window
  requests, faults,
  accepted,   \* history: the envelopes answered with 202
  refused,    \* history: the envelopes refused as duplicates
  unstored,   \* history: the envelopes whose storing failed and was only logged
  unqueued,   \* history: the envelopes whose task was not queued
  prior       \* history: the rows with the payload_id when the request was received

databases == <<rows, handed, tasks, lastSeen>>
history == <<accepted, refused, unstored, unqueued>>
vars == <<connected, pc, req, body, databases, expired, requests, faults, history, prior>>

NoRequest == [envelope |-> "none"]
NoBody == [text |-> "none", clean |-> TRUE]
Body == [text : Texts, clean : BOOLEAN]
Row == [id : Ids, time : Times, envelope : Envelopes, body : Body]
Processing == {"check", "upsert", "store", "enqueue"}

Id(e) == IdOf[TextOf[e]]
Time(e) == TimeOf[TextOf[e]]
RowsOf(id) == {row \in rows : row.id = id}

Init ==
  /\ connected \in [Replicas -> ClickHouse]
  /\ pc = [r \in Replicas |-> "idle"]
  /\ req = [r \in Replicas |-> NoRequest]
  /\ body = [r \in Replicas |-> NoBody]
  /\ rows = {} /\ handed = {} /\ tasks = {} /\ lastSeen = {}
  /\ expired = {}
  /\ requests = 0 /\ faults = 0
  /\ accepted = {} /\ refused = {} /\ unstored = {} /\ unqueued = {}
  /\ prior = [r \in Replicas |-> {}]

Fault == faults < MaxFaults /\ faults' = faults + 1
NoFault == UNCHANGED faults
Goto(r, label) == pc' = [pc EXCEPT ![r] = label]

\* Variant: the payload of the last request stays referenced.
Done_KeepsBody(r) ==
  /\ Goto(r, "idle")
  /\ req' = [req EXCEPT ![r] = NoRequest]
  /\ prior' = [prior EXCEPT ![r] = {}]
  /\ UNCHANGED body

\* The request ends: its payload and what was known of it are forgotten.
Done(r) ==
  /\ Goto(r, "idle")
  /\ req' = [req EXCEPT ![r] = NoRequest]
  /\ body' = [body EXCEPT ![r] = NoBody]
  /\ prior' = [prior EXCEPT ![r] = {}]

\* created_at or collected_at falls out of the replay window.
Expire(e) ==
  /\ e \notin expired
  /\ expired' = expired \cup {e}
  /\ UNCHANGED <<connected, pc, req, body, databases, requests, faults, history, prior>>

\* Authentication, decryption, validation and freshness; what fails one of them is
\* answered with an error and changes nothing.
Receive(r, e) ==
  /\ pc[r] = "idle" /\ e \notin expired
  /\ requests < MaxRequests /\ requests' = requests + 1
  /\ req' = [req EXCEPT ![r] = [envelope |-> e]]
  /\ body' = [body EXCEPT ![r] = [text |-> TextOf[e], clean |-> TextOf[e] \notin Secrets]]
  /\ prior' = [prior EXCEPT ![r] = RowsOf(Id(e))]
  /\ Goto(r, "check")
  /\ UNCHANGED <<connected, databases, expired, faults, history>>

\* Variant: only the hash of the decrypted payload is compared.
Identical_TextOnly(row, e, b) == row.body = b

\* Variant: every payload_id that is known is a replay.
Identical_Never(row, e, b) == FALSE

\* The hashes of the ciphertext and of the decrypted payload are those of the row.
Identical(row, e, b) == row.envelope = e /\ row.body = b

\* _check_duplicate_policy: get_payload reads PostgreSQL only, and one row of the id.
CheckDuplicate(r) ==
  LET e == req[r].envelope IN
  /\ pc[r] = "check"
  /\ \/ /\ NoFault
        /\ \/ RowsOf(Id(e)) = {}
           \/ \E row \in RowsOf(Id(e)) : Identical(row, e, body[r])
        /\ Goto(r, "upsert")
        /\ UNCHANGED <<req, body, prior, refused>>
     \/ /\ NoFault
        /\ \E row \in RowsOf(Id(e)) : ~Identical(row, e, body[r])
        /\ refused' = refused \cup {e}
        /\ Done(r)
     \/ Fault /\ Done(r) /\ UNCHANGED refused  \* 503
  /\ UNCHANGED <<connected, databases, expired, requests, accepted, unstored, unqueued>>

\* Variant: the scrubber works on a copy of the payload that is stored later only.
Scrubbed_NotYet(b) == b

\* pii_and_secret_scrubber redacts the payload in place.
Scrubbed(b) == [b EXCEPT !.clean = TRUE]

\* HybridStorage.store_raw_payload: the interceptors and the agents table, whose
\* errors are only logged.
UpsertAgent(r) ==
  /\ pc[r] = "upsert"
  /\ body' = [body EXCEPT ![r] = Scrubbed(@)]
  /\ \/ NoFault /\ lastSeen' = {Id(req[r].envelope)}
     \/ Fault /\ UNCHANGED lastSeen
  /\ Goto(r, "store")
  /\ UNCHANGED <<connected, req, rows, handed, tasks, expired, requests, history, prior>>

\* Variant: the conflict is on the payload_id alone.
Inserted_IdOnly(row) == IF \E old \in rows : old.id = row.id THEN rows ELSE rows \cup {row}

\* INSERT ... ON CONFLICT (payload_id, received_at) DO NOTHING.
Inserted(row) ==
  IF \E old \in rows : old.id = row.id /\ old.time = row.time THEN rows ELSE rows \cup {row}

StoreFails(r) ==
  /\ Fault
  /\ unstored' = unstored \cup {req[r].envelope}
  /\ UNCHANGED <<rows, handed, lastSeen>>

\* TelemetryRepository.store_payload: ClickHouse, else PostgreSQL; an error is logged.
\* The insert into PostgreSQL is one transaction with a second upsert of the agent.
Store(r) ==
  LET e == req[r].envelope IN
  /\ pc[r] = "store"
  /\ \/ /\ NoFault /\ connected[r]
        /\ handed' = handed \cup {[envelope |-> e, body |-> body[r]]}
        /\ UNCHANGED <<rows, lastSeen, unstored>>
     \/ /\ NoFault /\ ~connected[r]
        /\ rows' = Inserted([id |-> Id(e), time |-> Time(e), envelope |-> e, body |-> body[r]])
        /\ lastSeen' = {Id(e)}
        /\ UNCHANGED <<handed, unstored>>
     \/ StoreFails(r)
  /\ Goto(r, "enqueue")
  /\ UNCHANGED <<connected, req, body, tasks, expired, requests, accepted, refused, unqueued, prior>>

\* enqueue returns None on an error and nobody looks: the answer is 202 either way.
Enqueue(r) ==
  /\ pc[r] = "enqueue"
  /\ \/ NoFault /\ tasks' = tasks \cup {body[r]} /\ UNCHANGED unqueued
     \/ Fault /\ unqueued' = unqueued \cup {req[r].envelope} /\ UNCHANGED tasks
  /\ accepted' = accepted \cup {req[r].envelope}
  /\ Done(r)
  /\ UNCHANGED <<connected, rows, handed, lastSeen, expired, requests, refused, unstored>>

\* A replica dies and starts again; what ClickHouse's batcher holds is that module's.
CrashRestart(r) ==
  /\ Fault
  /\ Done(r)
  /\ \E up \in ClickHouse : connected' = [connected EXCEPT ![r] = up]
  /\ UNCHANGED <<databases, expired, requests, history>>

Next ==
  \/ \E e \in Envelopes : Expire(e)
  \/ \E r \in Replicas :
       \/ \E e \in Envelopes : Receive(r, e)
       \/ CheckDuplicate(r) \/ UpsertAgent(r) \/ Store(r) \/ Enqueue(r) \/ CrashRestart(r)

Spec == Init /\ [][Next]_vars

-----------------------------------------------------------------------------
(* Properties *)

TypeOK ==
  /\ connected \in [Replicas -> BOOLEAN]
  /\ pc \in [Replicas -> {"idle"} \cup Processing]
  /\ req \in [Replicas -> {NoRequest} \cup [envelope : Envelopes]]
  /\ body \in [Replicas -> {NoBody} \cup Body]
  /\ \A r \in Replicas : IF pc[r] \in Processing
                         THEN req[r].envelope \in Envelopes /\ body[r] \in Body
                         ELSE req[r] = NoRequest /\ body[r] = NoBody
  /\ rows \subseteq Row
  /\ handed \subseteq [envelope : Envelopes, body : Body]
  /\ tasks \subseteq Body
  /\ lastSeen \subseteq Ids
  /\ expired \subseteq Envelopes
  /\ requests \in 0 .. MaxRequests /\ faults \in 0 .. MaxFaults
  /\ accepted \subseteq Envelopes /\ refused \subseteq Envelopes
  /\ unstored \subseteq Envelopes /\ unqueued \subseteq Envelopes
  /\ prior \in [Replicas -> SUBSET Row]

Stored(e) ==
  \/ \E row \in rows : row.id = Id(e) /\ row.time = Time(e)
  \/ \E given \in handed : given.envelope = e

\* An agent that got its 202 may forget the payload: it, or a row with its payload_id
\* and collection time that was there first, is in one of the databases or the log
\* says that it could not be stored; and it will be analysed, or the log says
\* that it could not be queued.
AcceptedIsKept ==
  \A e \in accepted :
    /\ Stored(e) \/ e \in unstored
    /\ e \in unqueued \/ \E b \in tasks : b.text = TextOf[e]

\* A payload_id that PostgreSQL has when a request arrives lets only the same
\* envelope pass, whatever the other replicas do meanwhile: only requests that race
\* each other, or that went to ClickHouse, get past the check with a second one.
KnownIdIsGuarded ==
  \A r \in Replicas : pc[r] \in {"upsert", "store", "enqueue"} /\ prior[r] # {} =>
    \E row \in RowsOf(Id(req[r].envelope)) : row.envelope = req[r].envelope

\* An honest resend is not refused: a refusal means that PostgreSQL has the id from
\* another envelope, or that the scrubber changed the payload so that the resend of
\* the very same envelope no longer matches the hash that was stored.
RefusalJustified ==
  \A e \in refused :
    \E row \in RowsOf(Id(e)) : row.envelope # e \/ TextOf[e] \in Secrets

\* The duplicate check lets no known id pass with another payload and refuses nobody else.
DuplicatesDecided == KnownIdIsGuarded /\ RefusalJustified

\* Secrets are redacted before the payload reaches PostgreSQL, ClickHouse or the
\* queue, which gets the payload from the request and not from the storage.
SecretsRedacted ==
  /\ \A row \in rows : row.body.clean
  /\ \A given \in handed : given.body.clean
  /\ \A b \in tasks : b.clean

\* "submitting the same payload_id twice with differing ciphertext raises 400".
DuplicateIdRefused ==
  \A d, e \in accepted : Id(d) = Id(e) => d = e

=============================================================================
