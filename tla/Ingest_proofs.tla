---------------------------- MODULE Ingest_proofs ----------------------------
(***************************************************************************)
(* Proofs about Ingest, for every set of replicas and envelopes and every  *)
(* bound of requests and faults: what is accepted is kept, the duplicate   *)
(* check lets no known id pass with another payload, and no secret gets    *)
(* past the scrubber.                                                      *)
(***************************************************************************)
EXTENDS Ingest, TLAPS

USE IngestAssumption

-----------------------------------------------------------------------------
(* The inductive invariant *)

Fresh(e) == [text |-> TextOf[e], clean |-> TextOf[e] \notin Secrets]
Clean(e) == [text |-> TextOf[e], clean |-> TRUE]

\* What is stored belongs to one envelope, and was scrubbed.
RowsSound ==
  /\ \A row \in rows : row.id = Id(row.envelope) /\ row.body = Clean(row.envelope)
  /\ \A given \in handed : given.body = Clean(given.envelope)
  /\ \A b \in tasks : b.clean

\* The payload of a request is as it was decrypted until it is scrubbed, and stored or given
\* up when it is to be enqueued.
BodySound(r) ==
  /\ pc[r] \in {"check", "upsert"} => body[r] = Fresh(req[r].envelope)
  /\ pc[r] \in {"store", "enqueue"} => body[r] = Clean(req[r].envelope)
  /\ pc[r] = "enqueue" => Stored(req[r].envelope) \/ req[r].envelope \in unstored

\* The rows that were there when the request arrived still are.
PriorKept(r) ==
  pc[r] \in Processing => prior[r] \subseteq RowsOf(Id(req[r].envelope))

\* KnownIdIsGuarded for one request.
Guarded(r) ==
  pc[r] \in {"upsert", "store", "enqueue"} /\ prior[r] # {} =>
    \E row \in RowsOf(Id(req[r].envelope)) : row.envelope = req[r].envelope

IInv ==
  /\ TypeOK /\ RowsSound
  /\ \A r \in Replicas : BodySound(r) /\ PriorKept(r) /\ Guarded(r)
  /\ AcceptedIsKept /\ RefusalJustified

\* The fields of an envelope.
LEMMA EnvelopeFacts ==
  ASSUME NEW e \in Envelopes
  PROVE  /\ TextOf[e] \in Texts /\ Id(e) \in Ids /\ Time(e) \in Times
         /\ Fresh(e) \in Body /\ Clean(e) \in Body /\ Scrubbed(Fresh(e)) = Clean(e)
         /\ Clean(e).text = TextOf[e] /\ Clean(e).clean
         /\ Clean(e) # Fresh(e) => TextOf[e] \in Secrets
<1>1. TextOf[e] \in Texts /\ Id(e) \in Ids /\ Time(e) \in Times
  BY DEF Id, Time
<1>2. (TextOf[e] \notin Secrets) \in BOOLEAN
  OBVIOUS
<1>3. Fresh(e) \in Body /\ Clean(e) \in Body
  BY <1>1, <1>2 DEF Fresh, Clean, Body
<1>4. Scrubbed(Fresh(e)) = Clean(e)
  <2>1. ASSUME NEW b \in Body
        PROVE  Scrubbed(b) \in Body /\ Scrubbed(b).text = b.text /\ Scrubbed(b).clean = TRUE
    BY DEF Scrubbed, Body
  <2>2. ASSUME NEW b \in Body, NEW c \in Body, b.text = c.text, b.clean = c.clean
        PROVE  b = c
    BY <2>2 DEF Body
  <2>3. Fresh(e).text = TextOf[e] /\ Clean(e).text = TextOf[e] /\ Clean(e).clean = TRUE
    BY DEF Fresh, Clean
  <2> QED
    BY <1>3, <2>1, <2>2, <2>3
<1>5. TextOf[e] \notin Secrets => Clean(e) = Fresh(e)
  <2> SUFFICES ASSUME TextOf[e] \notin Secrets PROVE Clean(e) = Fresh(e)
    OBVIOUS
  <2>1. (TextOf[e] \notin Secrets) = TRUE
    OBVIOUS
  <2> QED
    BY <2>1, Zenon DEF Clean, Fresh
<1>6. Clean(e).text = TextOf[e] /\ Clean(e).clean
  BY DEF Clean
<1> QED
  BY <1>1, <1>3, <1>4, <1>5, <1>6

\* The invariant holds at first.
LEMMA InitInv == Init => IInv
<1> SUFFICES ASSUME Init PROVE IInv
  OBVIOUS
<1>1. TypeOK
  BY DEF Init, TypeOK, NoRequest, NoBody, Processing
<1>2. RowsSound /\ AcceptedIsKept /\ RefusalJustified
  BY DEF Init, RowsSound, AcceptedIsKept, RefusalJustified
<1>3. \A r \in Replicas : BodySound(r) /\ PriorKept(r) /\ Guarded(r)
  BY DEF Init, BodySound, PriorKept, Guarded, Processing
<1> QED
  BY <1>1, <1>2, <1>3 DEF IInv

-----------------------------------------------------------------------------
(* The steps *)

\* What is stored stays stored.
LEMMA StoredKept ==
  ASSUME rows \subseteq rows', handed \subseteq handed', NEW e, Stored(e)
  PROVE  Stored(e)'
BY DEF Stored, Id, Time

\* A request that is being worked on has an envelope and a payload.
LEMMA RequestFacts ==
  ASSUME IInv, NEW r \in Replicas, pc[r] \in Processing
  PROVE  req[r].envelope \in Envelopes /\ body[r] \in Body
BY DEF IInv, TypeOK

\* The other replicas are where they were.
Others(r) ==
  \A q \in Replicas : q # r =>
    pc'[q] = pc[q] /\ req'[q] = req[q] /\ body'[q] = body[q] /\ prior'[q] = prior[q]

\* The databases and the history only grow.
Grows ==
  /\ rows \subseteq rows' /\ handed \subseteq handed' /\ tasks \subseteq tasks'
  /\ unstored \subseteq unstored' /\ unqueued \subseteq unqueued'

\* A known id stays guarded.
LEMMA GuardKept ==
  ASSUME Grows, NEW r \in Replicas, UNCHANGED <<req[r], prior[r]>>,
         pc'[r] \in {"upsert", "store", "enqueue"} => pc[r] \in {"upsert", "store", "enqueue"},
         Guarded(r)
  PROVE  Guarded(r)'
<1> SUFFICES ASSUME pc'[r] \in {"upsert", "store", "enqueue"}, prior'[r] # {}
             PROVE  \E row \in rows' : row.id = Id(req'[r].envelope) /\ row.envelope = req'[r].envelope
  BY DEF Guarded, RowsOf
<1>1. PICK row \in RowsOf(Id(req[r].envelope)) : row.envelope = req[r].envelope
  BY DEF Guarded
<1>2. row \in rows' /\ row.id = Id(req[r].envelope)
  BY <1>1 DEF RowsOf, Grows
<1> QED
  BY <1>1, <1>2 DEF Id

\* What a step of one replica leaves true of the others and of the history.
LEMMA OthersKept ==
  ASSUME IInv, Grows, NEW r \in Replicas, Others(r)
  PROVE  \A q \in Replicas : q # r => BodySound(q)' /\ PriorKept(q)' /\ Guarded(q)'
<1>1. ASSUME NEW q \in Replicas, q # r
      PROVE  BodySound(q)' /\ PriorKept(q)'
  <2>1. UNCHANGED <<pc[q], req[q], body[q], prior[q]>>
    BY <1>1 DEF Others
  <2>2. BodySound(q) /\ PriorKept(q)
    BY DEF IInv
  <2>3. Stored(req[q].envelope) => Stored(req[q].envelope)'
    BY <2>1, StoredKept DEF Grows
  <2>4. BodySound(q)'
    BY <2>1, <2>2, <2>3 DEF BodySound, Grows, Fresh, Clean
  <2>5. PriorKept(q)'
    BY <2>1, <2>2 DEF PriorKept, RowsOf, Grows, Id
  <2> QED
    BY <2>4, <2>5
<1>2. ASSUME NEW q \in Replicas, q # r
      PROVE  Guarded(q)'
  <2>1. UNCHANGED <<pc[q], req[q], prior[q]>> /\ Guarded(q)
    BY <1>2 DEF Others, IInv
  <2> QED
    BY <2>1, GuardKept
<1> QED
  BY <1>1, <1>2

\* Nothing is taken back that was accepted or refused.
LEMMA HistoryKept ==
  ASSUME IInv, Grows
  PROVE  /\ UNCHANGED accepted => AcceptedIsKept'
         /\ UNCHANGED refused => RefusalJustified'
<1>1. ASSUME UNCHANGED accepted PROVE AcceptedIsKept'
  <2> SUFFICES ASSUME NEW e \in accepted
               PROVE  /\ Stored(e)' \/ e \in unstored'
                      /\ e \in unqueued' \/ \E b \in tasks' : b.text = TextOf[e]
    BY <1>1 DEF AcceptedIsKept
  <2>1. Stored(e) => Stored(e)'
    BY StoredKept DEF Grows
  <2> QED
    BY <2>1 DEF IInv, AcceptedIsKept, Grows
<1>2. ASSUME UNCHANGED refused PROVE RefusalJustified'
  BY <1>2 DEF IInv, RefusalJustified, RowsOf, Grows, Id
<1> QED
  BY <1>1, <1>2

\* The end of a request.
LEMMA DoneFacts ==
  ASSUME IInv, NEW r \in Replicas, Done(r)
  PROVE  /\ Others(r) /\ BodySound(r)' /\ PriorKept(r)' /\ Guarded(r)'
         /\ pc'[r] = "idle" /\ req'[r] = NoRequest /\ body'[r] = NoBody
         /\ pc' \in [Replicas -> {"idle"} \cup Processing]
         /\ req' \in [Replicas -> {NoRequest} \cup [envelope : Envelopes]]
         /\ body' \in [Replicas -> {NoBody} \cup Body]
         /\ prior' \in [Replicas -> SUBSET Row]
<1>1. /\ pc \in [Replicas -> {"idle"} \cup Processing]
      /\ req \in [Replicas -> {NoRequest} \cup [envelope : Envelopes]]
      /\ body \in [Replicas -> {NoBody} \cup Body]
      /\ prior \in [Replicas -> SUBSET Row]
  BY DEF IInv, TypeOK
<1>2. /\ pc' \in [Replicas -> {"idle"} \cup Processing] /\ pc'[r] = "idle"
      /\ \A q \in Replicas : q # r => pc'[q] = pc[q]
  BY <1>1 DEF Done, Goto
<1>3. /\ req' \in [Replicas -> {NoRequest} \cup [envelope : Envelopes]] /\ req'[r] = NoRequest
      /\ \A q \in Replicas : q # r => req'[q] = req[q]
  BY <1>1 DEF Done
<1>4. /\ body' \in [Replicas -> {NoBody} \cup Body] /\ body'[r] = NoBody
      /\ \A q \in Replicas : q # r => body'[q] = body[q]
  BY <1>1 DEF Done
<1>5. /\ prior' \in [Replicas -> SUBSET Row]
      /\ \A q \in Replicas : q # r => prior'[q] = prior[q]
  BY <1>1 DEF Done
<1>6. BodySound(r)' /\ PriorKept(r)' /\ Guarded(r)'
  BY <1>2 DEF BodySound, PriorKept, Guarded, Processing
<1> QED
  BY <1>2, <1>3, <1>4, <1>5, <1>6 DEF Others

-----------------------------------------------------------------------------
\* Every step preserves the invariant.
LEMMA StepInv == IInv /\ [Next]_vars => IInv'
<1> SUFFICES ASSUME IInv, [Next]_vars PROVE IInv'
  OBVIOUS
<1> USE DEF databases, history
<1>t. TypeOK /\ RowsSound
  BY DEF IInv
<1>1. ASSUME NEW e \in Envelopes, Expire(e) PROVE IInv'
  <2>1. /\ UNCHANGED <<connected, pc, req, body, rows, handed, tasks, lastSeen, requests, faults,
                       accepted, refused, unstored, unqueued, prior>>
        /\ expired' = expired \cup {e}
    BY <1>1 DEF Expire
  <2>2. TypeOK'
    BY <1>t, <2>1 DEF TypeOK
  <2>3. RowsSound' /\ AcceptedIsKept' /\ RefusalJustified'
    BY <2>1 DEF IInv, RowsSound, AcceptedIsKept, RefusalJustified, Stored, RowsOf, Id, Time, Clean
  <2>4. \A r \in Replicas : BodySound(r)' /\ PriorKept(r)' /\ Guarded(r)'
    BY <2>1 DEF IInv, BodySound, PriorKept, Guarded, Stored, RowsOf, Id, Time, Fresh, Clean
  <2> QED
    BY <2>2, <2>3, <2>4 DEF IInv
<1>2. ASSUME NEW r \in Replicas, NEW e \in Envelopes, Receive(r, e) PROVE IInv'
  <2>1. /\ pc[r] = "idle" /\ requests < MaxRequests /\ requests' = requests + 1
        /\ req' = [req EXCEPT ![r] = [envelope |-> e]]
        /\ body' = [body EXCEPT ![r] = Fresh(e)]
        /\ prior' = [prior EXCEPT ![r] = RowsOf(Id(e))]
        /\ pc' = [pc EXCEPT ![r] = "check"]
        /\ UNCHANGED <<connected, rows, handed, tasks, lastSeen, expired, faults,
                       accepted, refused, unstored, unqueued>>
    BY <1>2 DEF Receive, Goto, Fresh
  <2>2. /\ pc'[r] = "check" /\ req'[r] = [envelope |-> e] /\ body'[r] = Fresh(e)
        /\ prior'[r] = RowsOf(Id(e)) /\ Others(r)
    BY <1>t, <2>1 DEF TypeOK, Others
  <2>3. TypeOK'
    <3>1. /\ pc' \in [Replicas -> {"idle"} \cup Processing]
          /\ req' \in [Replicas -> {NoRequest} \cup [envelope : Envelopes]]
          /\ requests' \in 0 .. MaxRequests
      BY <1>t, <2>1 DEF TypeOK, Processing
    <3>2. body' \in [Replicas -> {NoBody} \cup Body]
      BY <1>t, <2>1, EnvelopeFacts DEF TypeOK
    <3>3. prior' \in [Replicas -> SUBSET Row]
      BY <1>t, <2>1 DEF TypeOK, RowsOf
    <3>4. \A q \in Replicas : IF pc'[q] \in Processing
                              THEN req'[q].envelope \in Envelopes /\ body'[q] \in Body
                              ELSE req'[q] = NoRequest /\ body'[q] = NoBody
      BY <1>t, <2>2, EnvelopeFacts DEF TypeOK, Others, Processing
    <3> QED
      BY <1>t, <2>1, <3>1, <3>2, <3>3, <3>4 DEF TypeOK
  <2>4. Grows
    BY <2>1 DEF Grows
  <2>5. BodySound(r)' /\ PriorKept(r)'
    BY <2>1, <2>2 DEF BodySound, PriorKept, RowsOf, Fresh, Id
  <2>6. RowsSound'
    BY <1>t, <2>1 DEF RowsSound, Id, Clean
  <2>7. Guarded(r)'
    BY <2>2 DEF Guarded
  <2> QED
    BY <2>1, <2>2, <2>3, <2>4, <2>5, <2>6, <2>7, OthersKept, HistoryKept DEF IInv
<1>3. ASSUME NEW r \in Replicas, CheckDuplicate(r) PROVE IInv'
  <2>e. PICK e : e = req[r].envelope
    OBVIOUS
  <2>1. /\ pc[r] = "check" /\ faults' \in {faults, faults + 1}
        /\ faults' = faults + 1 => faults < MaxFaults
        /\ UNCHANGED <<connected, rows, handed, tasks, lastSeen, expired, requests, accepted,
                       unstored, unqueued>>
    BY <1>t, <1>3 DEF CheckDuplicate, Fault, NoFault, TypeOK
  <2>2. e \in Envelopes /\ body[r] = Fresh(e) /\ PriorKept(r)
    BY <2>e, <2>1, RequestFacts DEF IInv, BodySound, Processing
  <2>3. Grows
    BY <2>1 DEF Grows
  <2>4. RowsSound'
    BY <1>t, <2>1 DEF RowsSound, Id, Clean
  <2>5. faults' \in 0 .. MaxFaults
    BY <1>t, <2>1 DEF TypeOK
  <2>6. CASE /\ RowsOf(Id(e)) = {} \/ \E row \in RowsOf(Id(e)) : Identical(row, e, body[r])
             /\ Goto(r, "upsert")
             /\ UNCHANGED <<req, body, prior, refused>>
    <3>1. pc'[r] = "upsert" /\ Others(r)
      BY <1>t, <2>6 DEF TypeOK, Others, Goto
    <3>2. TypeOK'
      <4>1. pc' \in [Replicas -> {"idle"} \cup Processing]
        BY <1>t, <2>6 DEF TypeOK, Processing, Goto
      <4>2. \A q \in Replicas : pc'[q] \in Processing <=> pc[q] \in Processing
        BY <2>1, <3>1 DEF Others, Processing
      <4> QED
        BY <1>t, <2>1, <2>5, <2>6, <4>1, <4>2 DEF TypeOK
    <3>3. BodySound(r)' /\ PriorKept(r)'
      BY <2>e, <2>1, <2>2, <2>6, <3>1 DEF BodySound, PriorKept, RowsOf, Id, Fresh, Processing
    <3>4. prior[r] # {} => \E row \in RowsOf(Id(e)) : row.envelope = e
      BY <2>e, <2>1, <2>2, <2>6 DEF PriorKept, Identical, Processing
    <3>5. Guarded(r)'
      BY <2>e, <2>1, <2>6, <3>1, <3>4 DEF Guarded, RowsOf, Id
    <3> QED
      BY <2>1, <2>3, <2>4, <2>6, <3>1, <3>2, <3>3, <3>5, OthersKept, HistoryKept DEF IInv
  <2>7. CASE Done(r)
    <3>1. TypeOK'
      <4>1. refused' \subseteq Envelopes
        BY <1>t, <1>3, <2>2 DEF CheckDuplicate, TypeOK, Goto
      <4>2. \A q \in Replicas : IF pc'[q] \in Processing
                                THEN req'[q].envelope \in Envelopes /\ body'[q] \in Body
                                ELSE req'[q] = NoRequest /\ body'[q] = NoBody
        BY <1>t, <2>7, DoneFacts DEF TypeOK, Others, Processing
      <4> QED
        BY <1>t, <2>1, <2>5, <2>7, <4>1, <4>2, DoneFacts DEF TypeOK
    <3>3. RefusalJustified'
      <4>1. CASE UNCHANGED refused
        BY <2>3, <4>1, HistoryKept
      <4>2. CASE /\ \E row \in RowsOf(Id(e)) : ~Identical(row, e, body[r])
                 /\ refused' = refused \cup {e}
        <5>1. PICK row \in RowsOf(Id(e)) : ~Identical(row, e, body[r])
          BY <4>2
        <5>2. row.envelope # e \/ TextOf[e] \in Secrets
          <6>1. row.body = Clean(row.envelope)
            BY <1>t DEF RowsSound, RowsOf
          <6> QED
            BY <2>2, <5>1, <6>1, EnvelopeFacts DEF Identical
        <5> QED
          BY <2>1, <4>2, <5>2 DEF RefusalJustified, IInv, RowsOf, Id
      <4> QED
        BY <2>e, <1>3, <4>1, <4>2 DEF CheckDuplicate
    <3> QED
      BY <2>1, <2>3, <2>4, <2>7, <3>1, <3>3, DoneFacts, OthersKept, HistoryKept DEF IInv
  <2> QED
    BY <2>e, <1>3, <2>6, <2>7 DEF CheckDuplicate
<1>4. ASSUME NEW r \in Replicas, UpsertAgent(r) PROVE IInv'
  <2>e. PICK e : e = req[r].envelope
    OBVIOUS
  <2>1. /\ pc[r] = "upsert" /\ pc' = [pc EXCEPT ![r] = "store"]
        /\ body' = [body EXCEPT ![r] = Scrubbed(@)]
        /\ \/ lastSeen' = {Id(e)} /\ UNCHANGED faults
           \/ Fault /\ UNCHANGED lastSeen
        /\ UNCHANGED <<connected, req, rows, handed, tasks, expired, requests, accepted, refused,
                       unstored, unqueued, prior>>
    BY <2>e, <1>4 DEF UpsertAgent, Goto, NoFault
  <2>2. e \in Envelopes /\ body[r] = Fresh(e) /\ PriorKept(r)
    BY <2>e, <2>1, RequestFacts DEF IInv, BodySound, Processing
  <2>3. pc'[r] = "store" /\ body'[r] = Clean(e) /\ Others(r)
    BY <1>t, <2>1, <2>2, EnvelopeFacts DEF TypeOK, Others
  <2>4. TypeOK'
    <3>1. pc' \in [Replicas -> {"idle"} \cup Processing] /\ body' \in [Replicas -> {NoBody} \cup Body]
      BY <1>t, <2>1, <2>2, EnvelopeFacts DEF TypeOK, Processing
    <3>2. lastSeen' \subseteq Ids /\ faults' \in 0 .. MaxFaults
      BY <1>t, <2>1, <2>2, EnvelopeFacts DEF TypeOK, Fault
    <3>3. \A q \in Replicas : IF pc'[q] \in Processing
                              THEN req'[q].envelope \in Envelopes /\ body'[q] \in Body
                              ELSE req'[q] = NoRequest /\ body'[q] = NoBody
      BY <1>t, <2>1, <2>2, <2>3, EnvelopeFacts DEF TypeOK, Others, Processing
    <3> QED
      BY <1>t, <2>1, <3>1, <3>2, <3>3 DEF TypeOK
  <2>5. Grows
    BY <2>1 DEF Grows
  <2>6. RowsSound'
    BY <1>t, <2>1 DEF RowsSound, Id, Clean
  <2>7. BodySound(r)' /\ PriorKept(r)'
    BY <2>e, <2>1, <2>2, <2>3 DEF BodySound, PriorKept, RowsOf, Id, Clean, Processing
  <2>8. Guarded(r)'
    BY <2>1, <2>3, <2>5, GuardKept DEF IInv
  <2> QED
    BY <2>1, <2>3, <2>4, <2>5, <2>6, <2>7, <2>8, OthersKept, HistoryKept DEF IInv
<1>5. ASSUME NEW r \in Replicas, Store(r) PROVE IInv'
  <2>e. PICK e : e = req[r].envelope
    OBVIOUS
  <2>n. PICK new : new = [id |-> Id(e), time |-> Time(e), envelope |-> e, body |-> body[r]]
    OBVIOUS
  <2>1. /\ pc[r] = "store" /\ pc' = [pc EXCEPT ![r] = "enqueue"]
        /\ UNCHANGED <<connected, req, body, tasks, expired, requests, accepted, refused,
                       unqueued, prior>>
    BY <1>5 DEF Store, Goto
  <2>2. e \in Envelopes /\ body[r] = Clean(e) /\ PriorKept(r)
    BY <2>e, <2>1, RequestFacts DEF IInv, BodySound, Processing
  <2>3. pc'[r] = "enqueue" /\ Others(r)
    BY <1>t, <2>1 DEF TypeOK, Others
  <2>4. new \in Row /\ Clean(e) \in Body /\ Id(e) \in Ids
    BY <2>n, <2>2, EnvelopeFacts DEF Row
  <2>5. /\ rows' \in {rows, rows \cup {new}}
        /\ handed' \in {handed, handed \cup {[envelope |-> e, body |-> body[r]]}}
        /\ lastSeen' \in {lastSeen, {Id(e)}} /\ faults' \in 0 .. MaxFaults
        /\ unstored' \in {unstored, unstored \cup {e}}
        /\ Stored(e)' \/ e \in unstored'
    <3>1. CASE /\ NoFault /\ handed' = handed \cup {[envelope |-> e, body |-> body[r]]}
               /\ UNCHANGED <<rows, lastSeen, unstored>>
      <4>1. \E given \in handed' : given.envelope = e
        <5> DEFINE given == [envelope |-> e, body |-> body[r]]
        <5>1. given.envelope = e
          OBVIOUS
        <5>2. given \in handed'
          BY <3>1
        <5> QED
          BY <5>1, <5>2, Zenon
      <4> QED
        BY <1>t, <3>1, <4>1 DEF NoFault, Stored, TypeOK
    <3>2. CASE /\ NoFault /\ rows' = Inserted(new) /\ lastSeen' = {Id(e)}
               /\ UNCHANGED <<handed, unstored>>
      <4>1. rows' \in {rows, rows \cup {new}}
        BY <2>n, <3>2 DEF Inserted
      <4>2. \E row \in rows' : row.id = Id(e) /\ row.time = Time(e)
        BY <2>n, <3>2 DEF Inserted
      <4> QED
        BY <1>t, <3>2, <4>1, <4>2 DEF NoFault, Stored, TypeOK, Id, Time
    <3>3. CASE StoreFails(r)
      BY <2>e, <1>t, <3>3 DEF StoreFails, Fault, TypeOK
    <3> QED
      BY <2>e, <2>n, <1>5, <3>1, <3>2, <3>3 DEF Store
  <2>6. Grows
    BY <2>1, <2>5 DEF Grows
  <2>7. TypeOK'
    <3>1. pc' \in [Replicas -> {"idle"} \cup Processing]
      BY <1>t, <2>1 DEF TypeOK, Processing
    <3>2. /\ rows' \subseteq Row /\ handed' \subseteq [envelope : Envelopes, body : Body]
          /\ lastSeen' \subseteq Ids /\ unstored' \subseteq Envelopes
      BY <1>t, <2>2, <2>4, <2>5 DEF TypeOK
    <3>3. \A q \in Replicas : pc'[q] \in Processing <=> pc[q] \in Processing
      BY <2>1, <2>3 DEF Others, Processing
    <3> QED
      BY <1>t, <2>1, <2>5, <3>1, <3>2, <3>3 DEF TypeOK
  <2>8. RowsSound'
    <3>1. new.id = Id(new.envelope) /\ new.body = Clean(new.envelope)
      BY <2>n, <2>2
    <3>2. ASSUME NEW row \in rows' PROVE row.id = Id(row.envelope)' /\ row.body = Clean(row.envelope)'
      BY <1>t, <2>5, <3>1, <3>2 DEF RowsSound, Id, Clean
    <3>3. ASSUME NEW given \in handed' PROVE given.body = Clean(given.envelope)'
      <4>1. given \in handed \/ given = [envelope |-> e, body |-> Clean(e)]
        BY <2>2, <2>5, <3>3
      <4> QED
        BY <1>t, <4>1 DEF RowsSound
    <3> QED
      BY <1>t, <2>1, <3>2, <3>3 DEF RowsSound
  <2>9. BodySound(r)' /\ PriorKept(r)'
    BY <2>e, <2>1, <2>2, <2>3, <2>5, <2>6 DEF BodySound, PriorKept, RowsOf, Id, Clean, Processing, Grows
  <2>10. Guarded(r)'
    BY <2>1, <2>3, <2>6, GuardKept DEF IInv
  <2> QED
    BY <2>1, <2>3, <2>6, <2>7, <2>8, <2>9, <2>10, OthersKept, HistoryKept DEF IInv
<1>6. ASSUME NEW r \in Replicas, Enqueue(r) PROVE IInv'
  <2>e. PICK e : e = req[r].envelope
    OBVIOUS
  <2>1. /\ pc[r] = "enqueue" /\ Done(r) /\ accepted' = accepted \cup {e}
        /\ UNCHANGED <<connected, rows, handed, lastSeen, expired, requests, refused, unstored>>
        /\ \/ UNCHANGED faults /\ tasks' = tasks \cup {body[r]} /\ UNCHANGED unqueued
           \/ Fault /\ unqueued' = unqueued \cup {e} /\ UNCHANGED tasks
    BY <2>e, <1>6 DEF Enqueue, NoFault
  <2>2. e \in Envelopes /\ body[r] = Clean(e) /\ (Stored(e) \/ e \in unstored)
    BY <2>e, <2>1, RequestFacts DEF IInv, BodySound, Processing
  <2>3. Grows
    BY <2>1 DEF Grows
  <2>4. TypeOK'
    <3>1. tasks' \subseteq Body /\ unqueued' \subseteq Envelopes /\ accepted' \subseteq Envelopes
      BY <1>t, <2>1, <2>2, EnvelopeFacts DEF TypeOK
    <3>2. faults' \in 0 .. MaxFaults
      BY <1>t, <2>1 DEF TypeOK, Fault
    <3>3. \A q \in Replicas : IF pc'[q] \in Processing
                              THEN req'[q].envelope \in Envelopes /\ body'[q] \in Body
                              ELSE req'[q] = NoRequest /\ body'[q] = NoBody
      BY <1>t, <2>1, DoneFacts DEF TypeOK, Others, Processing
    <3> QED
      BY <1>t, <2>1, <3>1, <3>2, <3>3, DoneFacts DEF TypeOK
  <2>5. RowsSound'
    <3>1. body[r].clean
      BY <2>2 DEF Clean
    <3> QED
      BY <1>t, <2>1, <3>1 DEF RowsSound, Id, Clean
  <2>7. AcceptedIsKept'
    <3>1. Stored(e)' \/ e \in unstored'
      BY <2>1, <2>2 DEF Stored, Id, Time
    <3>2. e \in unqueued' \/ \E b \in tasks' : b.text = TextOf[e]
      BY <2>1, <2>2 DEF Clean
    <3>3. ASSUME NEW d \in accepted
          PROVE  /\ Stored(d)' \/ d \in unstored'
                 /\ d \in unqueued' \/ \E b \in tasks' : b.text = TextOf[d]
      <4>1. Stored(d) => Stored(d)'
        BY <2>3, StoredKept DEF Grows
      <4> QED
        BY <2>3, <4>1 DEF IInv, AcceptedIsKept, Grows
    <3> QED
      BY <2>1, <3>1, <3>2, <3>3 DEF AcceptedIsKept
  <2> QED
    BY <2>1, <2>3, <2>4, <2>5, <2>7, DoneFacts, OthersKept, HistoryKept DEF IInv
<1>7. ASSUME NEW r \in Replicas, CrashRestart(r) PROVE IInv'
  <2>1. /\ Fault /\ Done(r) /\ \E up \in ClickHouse : connected' = [connected EXCEPT ![r] = up]
        /\ UNCHANGED <<rows, handed, tasks, lastSeen, expired, requests, accepted, refused,
                       unstored, unqueued>>
    BY <1>7 DEF CrashRestart
  <2>2. Grows
    BY <2>1 DEF Grows
  <2>3. TypeOK'
    <3>1. connected' \in [Replicas -> BOOLEAN]
      BY <1>t, <2>1 DEF TypeOK
    <3>2. faults' \in 0 .. MaxFaults
      BY <1>t, <2>1 DEF TypeOK, Fault
    <3>3. \A q \in Replicas : IF pc'[q] \in Processing
                              THEN req'[q].envelope \in Envelopes /\ body'[q] \in Body
                              ELSE req'[q] = NoRequest /\ body'[q] = NoBody
      BY <1>t, <2>1, DoneFacts DEF TypeOK, Others, Processing
    <3> QED
      BY <1>t, <2>1, <3>1, <3>2, <3>3, DoneFacts DEF TypeOK
  <2>4. RowsSound'
    BY <1>t, <2>1 DEF RowsSound, Id, Clean
  <2> QED
    BY <2>1, <2>2, <2>3, <2>4, DoneFacts, OthersKept, HistoryKept DEF IInv
<1>8. CASE UNCHANGED vars
  <2>1. TypeOK' /\ RowsSound'
    BY <1>t, <1>8 DEF vars, TypeOK, RowsSound, Id, Clean
  <2>2. AcceptedIsKept' /\ RefusalJustified'
    BY <1>8 DEF vars, IInv, AcceptedIsKept, RefusalJustified, Stored, RowsOf, Id, Time
  <2>3. \A r \in Replicas : BodySound(r)' /\ PriorKept(r)' /\ Guarded(r)'
    BY <1>8 DEF vars, IInv, BodySound, PriorKept, Guarded, Stored, RowsOf, Id, Time, Fresh, Clean
  <2> QED
    BY <2>1, <2>2, <2>3 DEF IInv
<1> QED
  BY <1>1, <1>2, <1>3, <1>4, <1>5, <1>6, <1>7, <1>8 DEF Next

\* The invariant the theorems below follow from: what each step of ingest_logs knows of the
\* envelope it handles, and what the databases and the queue hold.
THEOREM Inductive == Spec => []IInv
BY InitInv, StepInv, PTL DEF Spec

\* Type correctness.
THEOREM TypeCorrect == Spec => []TypeOK
<1>1. IInv => TypeOK
  BY DEF IInv
<1> QED
  BY <1>1, Inductive, PTL

\* An agent that got its 202 may forget the payload, however many replicas take the envelope
\* at the same time and whatever call fails (ingest_logs, HybridStorage.store_raw_payload).
THEOREM NothingAcceptedIsLost == Spec => []AcceptedIsKept
<1>1. IInv => AcceptedIsKept
  BY DEF IInv
<1> QED
  BY <1>1, Inductive, PTL

\* The duplicate check lets nobody pass with another payload of an id that PostgreSQL had when
\* the request arrived, and refuses an honest resend only when the scrubber changed it.
THEOREM DuplicateCheckIsSound == Spec => []DuplicatesDecided
<1>1. IInv => DuplicatesDecided
  BY DEF IInv, Guarded, KnownIdIsGuarded, DuplicatesDecided
<1> QED
  BY <1>1, Inductive, PTL

\* No secret reaches a database or the queue (pii_and_secret_scrubber before both).
THEOREM SecretsStayOut == Spec => []SecretsRedacted
<1>1. ASSUME IInv PROVE SecretsRedacted
  <2>1. ASSUME NEW row \in rows PROVE row.body.clean
    BY <1>1, EnvelopeFacts DEF IInv, TypeOK, RowsSound, Row
  <2>2. ASSUME NEW given \in handed PROVE given.body.clean
    BY <1>1, EnvelopeFacts DEF IInv, TypeOK, RowsSound
  <2> QED
    BY <1>1, <2>1, <2>2 DEF IInv, RowsSound, SecretsRedacted
<1> QED
  BY <1>1, Inductive, PTL
=============================================================================
