------------------------- MODULE WebhookIngestProofs -------------------------
(***************************************************************************)
(* Proofs about WebhookIngest, for every number of requests, environments, *)
(* attempts and ticks.                                                     *)
(***************************************************************************)
EXTENDS WebhookIngest, EventKindProofs, TLAPS

(***************************************************************************)
(* Lemmas about the operators                                              *)
(***************************************************************************)

(* Integer division, as the day of a time uses it.                         *)
LEMMA Division ==
    ASSUME NEW a \in Nat, NEW n \in Nat \ {0}
    PROVE  /\ a \div n \in Nat
           /\ (a \div n) * n <= a
           /\ a < ((a \div n) + 1) * n
  OBVIOUS

(* A key has the type of a key.                                            *)
LEMMA KeyType ==
    ASSUME NEW service \in OptionalName, NEW api \in OptionalName,
           NEW time \in Nat, NEW id \in Nat \ {0}
    PROVE  BuildS3Key(service, api, time, id) \in Key
  <1>1. PartitionSegment(service) \in Segment /\ PartitionSegment(api) \in Segment
    BY NamesAssumption DEF PartitionSegment, OptionalName
  <1>2. JstPartitionDate(time) \in Nat
    <2>1. time + JstOffset \in Nat /\ TicksPerDay \in Nat \ {0}
      BY NumbersAssumption
    <2> QED
      BY <2>1, Division DEF JstPartitionDate
  <1> QED
    BY <1>1, <1>2 DEF BuildS3Key, Key

(* The object made of a webhook has the type of an object, keeps the body  *)
(* and the id, and is well placed.                                         *)
LEMMA ObjectOfWebhook ==
    ASSUME NEW body \in Body, body.form = "webhook", NEW time \in Nat, NEW id \in Nat \ {0}
    PROVE  /\ ObjectOf(body, time, id) \in Object
           /\ ObjectOf(body, time, id).key.event_id = id
           /\ ObjectOf(body, time, id).event.raw_payload = body
           /\ WellPlaced(ObjectOf(body, time, id))
  <1> DEFINE event == NormalizePayload(body, time)
             payload == body.payload
             kind == DeriveEventKind(payload.type, payload.old, payload.new)
  <1>1. payload \in Payload
    BY InputsAssumption
  <1>2. kind \in Kind \cup {NoKind}
    BY DeriveEventKindType
  <1>3. event = [received_at |-> time, service |-> payload.service, api |-> payload.api,
                 event_type |-> payload.type, event_kind |-> kind,
                 old_status |-> payload.old, new_status |-> payload.new,
                 raw_payload |-> body]
    BY DEF NormalizePayload
  <1>4. /\ payload.service \in OptionalName /\ payload.api \in OptionalName
        /\ payload.type \in EventType \cup {Null}
        /\ payload.old \in SUBSET Status /\ payload.new \in SUBSET Status
    BY <1>1 DEF Payload
  <1> HIDE DEF kind, payload
  <1>5. event \in Event
    BY <1>2, <1>3, <1>4 DEF Event
  <1>6. BuildS3Key(event.service, event.api, event.received_at, id) \in Key
    BY <1>3, <1>4, KeyType
  <1>7. ObjectOf(body, time, id)
          = [key |-> BuildS3Key(event.service, event.api, event.received_at, id),
             event |-> event]
    BY DEF ObjectOf
  <1>8. /\ event.raw_payload = body
        /\ BuildS3Key(event.service, event.api, event.received_at, id).event_id = id
    BY <1>3 DEF BuildS3Key
  <1> HIDE DEF event
  <1> QED
    BY <1>5, <1>6, <1>7, <1>8 DEF Object, WellPlaced

(* A key names one event id, and an object in the bucket has one.          *)
LEMMA ObjectType ==
    ASSUME NEW o \in Object
    PROVE  o.key \in Key /\ o.key.event_id \in Nat \ {0} /\ o.event \in Event
  BY DEF Object, Key

-----------------------------------------------------------------------------
(***************************************************************************)
(* The structure of an invocation: TypeOK, JobInv and RequestInv are       *)
(* inductive together.                                                     *)
(***************************************************************************)

LEMMA StructureInit == Init => Structure
  <1> SUFFICES ASSUME Init PROVE Structure
    OBVIOUS
  <1>1. TypeOK
    BY NumbersAssumption DEF Init, TypeOK
  <1>2. JobInv
    BY DEF Init, JobInv, Busy, Handling, Putting
  <1>3. RequestInv
    BY DEF Init, RequestInv
  <1> QED
    BY <1>1, <1>2, <1>3 DEF Structure

(* How an invocation ends, whatever its answer.                            *)
LEMMA StructureFinish ==
    ASSUME Structure,
           NEW i \in Instance, NEW status \in HttpStatus, NEW key \in Key \cup {Null},
           NEW p \in {"cold", "idle"},
           Busy(i), Finish(i, status, key, p),
           status \in {400, 401} => eventId[job[i]] = 0,
           stray' \subseteq Object, bucket' \subseteq Object,
           config' \in [Instance -> Environment \cup {Null}],
           \A j \in Instance : phase'[j] # "cold" => config'[j] = config[j],
           UNCHANGED <<clock, env, sender, ids>>
    PROVE  Structure'
  <1> USE DEF Structure
  <1>1. TypeOK /\ JobInv /\ RequestInv
    OBVIOUS
  <1>2. job[i] \in Request /\ delivery[job[i]] = "accepted"
    BY <1>1 DEF JobInv
  <1>3. [status |-> status, key |-> key] \in Response
    BY DEF Response
  <1>0. \E answer \in Response :
           /\ response' = [response EXCEPT ![job[i]] = answer]
           /\ response[job[i]] = Null => answer.status = status
           /\ response[job[i]] # Null => answer = response[job[i]]
    BY <1>1, <1>2, <1>3 DEF TypeOK, Finish
  <1>4. TypeOK'
    BY <1>0, <1>1, <1>2 DEF TypeOK, Finish, sender, ids
  <1>5. \A j \in Instance : Busy(j)' => j # i /\ Busy(j) /\ job'[j] = job[j] /\ put'[j] = put[j]
    BY <1>1 DEF TypeOK, Finish, Busy, Handling, Putting
  <1>6. \A j \in Instance : /\ Handling(j)' => Handling(j)
                            /\ Putting(j)' => Putting(j)
    BY <1>1, <1>5 DEF TypeOK, Finish, Busy, Handling, Putting
  <1>7. \A j \in Instance : Busy(j)' => response'[job[j]] = response[job[j]]
    BY <1>1, <1>2, <1>5 DEF TypeOK, JobInv, Finish
  <1>8. \A j \in Instance : phase'[j] # "cold" => phase[j] # "cold"
    BY <1>1 DEF TypeOK, Finish, Busy, Handling, Putting
  <1>9. JobInv'
    <2> SUFFICES ASSUME NEW j \in Instance
                 PROVE  /\ phase'[j] # "cold" => config'[j] \in Environment
                        /\ Busy(j)' => /\ job'[j] \in Request
                                       /\ delivery'[job'[j]] = "accepted"
                                       /\ Open(job[j])'
                                       /\ \A k \in Instance :
                                             Busy(k)' /\ job'[k] = job'[j] => k = j
                        /\ Handling(j)' => eventId'[job'[j]] = 0
                        /\ Putting(j)' => put'[j] \in Put
      BY DEF JobInv
    <2>1. phase'[j] # "cold" => config'[j] \in Environment
      BY <1>1, <1>8 DEF JobInv
    <2>2. eventId' = eventId /\ delivery' = delivery
      BY DEF sender, ids
    <2>3. Handling(j) => Busy(j)
      BY DEF Busy
    <2>4. Putting(j) => Busy(j)
      BY DEF Busy
    <2>5. (Handling(j)' => Busy(j)') /\ (Putting(j)' => Busy(j)')
      BY DEF Busy
    <2> QED
      <3>1. ASSUME Busy(j)' PROVE Open(job[j])'
        <4>1. Open(job[j]) /\ response'[job[j]] = response[job[j]] /\ job'[j] = job[j]
          BY <1>1, <1>5, <1>7, <3>1 DEF JobInv
        <4> QED
          BY <4>1 DEF Open
      <3> QED
        BY <1>1, <1>5, <1>6, <2>1, <2>2, <2>3, <2>4, <2>5, <3>1 DEF JobInv
  <1>10. RequestInv'
    <2>1. message' = message /\ delivery' = delivery /\ eventId' = eventId /\ lastId' = lastId
      BY DEF sender, ids
    <2>2. \A r \in Request : r # job[i] => response'[r] = response[r]
      BY <1>1 DEF TypeOK, Finish
    <2>3. response'[job[i]].status = status \/ response'[job[i]] = response[job[i]]
      BY <1>0, <1>1, <1>2 DEF TypeOK
    <2> QED
      BY <1>1, <1>2, <2>1, <2>2, <2>3 DEF RequestInv
  <1> QED
    BY <1>4, <1>9, <1>10

(* The message of a running invocation.                                    *)
LEMMA SentType ==
    ASSUME Structure, NEW i \in Instance, Busy(i)
    PROVE  /\ job[i] \in Request /\ Sent(i) \in Message /\ Sent(i).body \in Body
           /\ Sent(i).signature \in Signature \cup {Null}
           /\ config[i] \in Environment
  <1>1. job[i] \in Request /\ delivery[job[i]] = "accepted" /\ config[i] \in Environment
    BY DEF Structure, TypeOK, JobInv, Busy, Handling, Putting
  <1>2. Sent(i) \in Message
    BY <1>1 DEF Structure, RequestInv, Sent
  <1>3. Message \subseteq [signature : Signature \cup {Null}, body : Body]
    BY InputsAssumption
  <1> QED
    BY <1>1, <1>2, <1>3

(* Steps that start and end no invocation.                                 *)
LEMMA JobsKept ==
    ASSUME Structure, phase' = phase, config' = config, job' = job,
           response' = response, eventId' = eventId,
           \A r \in Request : delivery[r] = "accepted" => delivery'[r] = "accepted",
           \A i \in Instance : Putting(i) => put'[i] \in Put
    PROVE  JobInv'
  <1> SUFFICES ASSUME NEW i \in Instance
               PROVE  /\ phase'[i] # "cold" => config'[i] \in Environment
                      /\ Busy(i)' => /\ job'[i] \in Request
                                     /\ delivery'[job'[i]] = "accepted"
                                     /\ Open(job[i])'
                                     /\ \A j \in Instance :
                                           Busy(j)' /\ job'[j] = job'[i] => j = i
                      /\ Handling(i)' => eventId'[job'[i]] = 0
                      /\ Putting(i)' => put'[i] \in Put
    BY DEF JobInv
  <1>1. \A j \in Instance : /\ Busy(j)' <=> Busy(j)
                            /\ Handling(j)' <=> Handling(j)
                            /\ Putting(j)' <=> Putting(j)
    BY DEF Busy, Handling, Putting
  <1>2. Open(job[i])' <=> Open(job[i])
    BY DEF Open
  <1>3. JobInv
    BY DEF Structure
  <1> QED
    BY <1>1, <1>2, <1>3 DEF JobInv

LEMMA StructureNext == Structure /\ [Next]_vars => Structure'
  <1> SUFFICES ASSUME Structure, [Next]_vars PROVE Structure'
    OBVIOUS
  <1> USE DEF Structure
  <1>1. ASSUME Tick PROVE Structure'
    <2>0. clock' \in FirstTick .. LastTick
      <3>1. clock \in FirstTick .. LastTick /\ clock < LastTick /\ clock' = clock + 1
        BY <1>1 DEF Tick, TypeOK
      <3>2. FirstTick \in Nat /\ LastTick \in Nat
        BY NumbersAssumption
      <3> QED
        BY <3>1, <3>2
    <2>1. TypeOK'
      BY <1>1, <2>0 DEF Tick, TypeOK, sender, ids, lambda, store
    <2> QED
      BY <1>1, <2>1 DEF Tick, JobInv, RequestInv, Open, Busy, Handling, Putting,
                        sender, ids, lambda, store
  <1>2. ASSUME NEW e \in Environment, Deploy(e) PROVE Structure'
    <2>1. TypeOK' /\ RequestInv'
      BY <1>2 DEF Deploy, TypeOK, RequestInv, sender, ids, lambda, store
    <2>2. JobInv'
      BY <1>2, JobsKept DEF Deploy, JobInv, sender, ids, lambda
    <2> QED
      BY <2>1, <2>2
  <1>3. ASSUME NEW r \in Request, Lose(r) PROVE Structure'
    <2>1. TypeOK'
      BY <1>3 DEF Lose, TypeOK, ids, lambda, store
    <2>2. JobInv'
      BY <1>3, JobsKept DEF Lose, TypeOK, JobInv, ids, lambda
    <2>3. RequestInv'
      BY <1>3 DEF Lose, TypeOK, RequestInv, ids
    <2> QED
      BY <2>1, <2>2, <2>3
  <1>4. ASSUME NEW r \in Request, NEW m \in Message, Send(r, m) PROVE Structure'
    <2>1. TypeOK'
      BY <1>4 DEF Send, TypeOK, ids, lambda, store
    <2>2. JobInv'
      BY <1>4, JobsKept DEF Send, TypeOK, JobInv, ids, lambda
    <2>3. RequestInv'
      BY <1>4 DEF Send, TypeOK, RequestInv, ids
    <2> QED
      BY <2>1, <2>2, <2>3
  <1>5. ASSUME NEW o \in stray, StrayLands(o) \/ StrayDropped(o) PROVE Structure'
    <2>1. bucket' \subseteq Object /\ stray' \subseteq Object
      BY <1>5 DEF StrayLands, StrayDropped, Stored, TypeOK
    <2>2. UNCHANGED <<clock, env, sender, response, ids, lambda>>
      BY <1>5 DEF StrayLands, StrayDropped
    <2>3. TypeOK'
      BY <2>1, <2>2 DEF TypeOK, sender, ids, lambda
    <2>4. JobInv' /\ RequestInv'
      BY <2>2 DEF JobInv, RequestInv, Open, Busy, Handling, Putting, sender, ids, lambda
    <2> QED
      BY <2>3, <2>4
  <1>6. ASSUME NEW i \in Instance, ColdStart(i) \/ Recycle(i) PROVE Structure'
    <2>1. TypeOK'
      BY <1>6 DEF ColdStart, Recycle, TypeOK, sender, ids, store
    <2>2. JobInv'
      <3>1. /\ phase[i] \in {"cold", "idle"} /\ phase'[i] \in {"cold", "idle"}
            /\ phase'[i] # "cold" => config'[i] \in Environment
            /\ \A j \in Instance : j # i => phase'[j] = phase[j] /\ config'[j] = config[j]
            /\ UNCHANGED <<sender, response, ids, job, put>>
        BY <1>6 DEF ColdStart, Recycle, TypeOK
      <3>2. \A j \in Instance :
               /\ Busy(j)' => j # i /\ Busy(j)
               /\ Handling(j)' => j # i /\ Handling(j)
               /\ Putting(j)' => j # i /\ Putting(j)
        BY <3>1 DEF Busy, Handling, Putting
      <3>3. /\ delivery' = delivery /\ response' = response /\ eventId' = eventId
            /\ job' = job /\ put' = put
        BY <3>1 DEF sender, ids
      <3>4. \A j \in Instance : phase'[j] # "cold" => config'[j] \in Environment
        BY <3>1 DEF JobInv
      <3>5. ASSUME NEW j \in Instance
            PROVE  /\ Busy(j)' => /\ job'[j] \in Request
                                  /\ delivery'[job'[j]] = "accepted"
                                  /\ Open(job[j])'
                                  /\ \A k \in Instance :
                                        Busy(k)' /\ job'[k] = job'[j] => k = j
                   /\ Handling(j)' => eventId'[job'[j]] = 0
                   /\ Putting(j)' => put'[j] \in Put
        <4>1. JobInv
          OBVIOUS
        <4> QED
          BY <3>2, <3>3, <4>1 DEF JobInv, Open
      <3> QED
        BY <3>4, <3>5 DEF JobInv
    <2>3. RequestInv'
      BY <1>6 DEF ColdStart, Recycle, RequestInv, sender, ids
    <2> QED
      BY <2>1, <2>2, <2>3
  <1>7. ASSUME NEW i \in Instance, NEW r \in Request, Accept(i, r) PROVE Structure'
    <2>1. TypeOK'
      BY <1>7 DEF Accept, TypeOK, ids, store
    <2>2. JobInv'
      <3>1. /\ phase[i] = "idle" /\ delivery[r] = "in transit"
            /\ phase'[i] = "handling" /\ job'[i] = r /\ delivery'[r] = "accepted"
            /\ \A j \in Instance : j # i => phase'[j] = phase[j] /\ job'[j] = job[j]
            /\ \A q \in Request : q # r => delivery'[q] = delivery[q]
            /\ response' = response /\ eventId' = eventId
            /\ config' = config /\ put' = put
        BY <1>7 DEF Accept, TypeOK, ids
      <3>2. response[r] = Null /\ eventId[r] = 0 /\ config[i] \in Environment
        BY <3>1 DEF RequestInv, JobInv
      <3>3. \A j \in Instance : /\ Busy(j)' <=> Busy(j) \/ j = i
                                /\ Handling(j)' <=> Handling(j) \/ j = i
                                /\ Putting(j)' => Putting(j) /\ Busy(j) /\ j # i
                                /\ Busy(j) => j # i /\ job[j] # r
        BY <3>1 DEF Busy, Handling, Putting, JobInv
      <3>4. \A j \in Instance : Busy(j)' => Open(job[j])'
        <4>1. response'[r] = Null
          BY <3>1, <3>2
        <4>2. ASSUME NEW j \in Instance, Busy(j)', j # i
              PROVE  Open(job[j])'
          <5>1. Open(job[j]) /\ job'[j] = job[j] /\ response' = response
            BY <3>1, <3>3, <4>2 DEF JobInv
          <5> QED
            BY <5>1 DEF Open
        <4>3. Open(job[i])'
          BY <3>1, <4>1 DEF Open
        <4> QED
          BY <4>2, <4>3
      <3>5. ASSUME NEW j \in Instance, Busy(j)'
            PROVE  /\ job'[j] \in Request /\ delivery'[job'[j]] = "accepted"
                   /\ \A k \in Instance : Busy(k)' /\ job'[k] = job'[j] => k = j
        <4>1. CASE j = i
          BY <3>1, <3>3, <4>1
        <4>2. CASE j # i
          <5>1. /\ Busy(j) /\ job'[j] = job[j] /\ job[j] # r /\ job[j] \in Request
                /\ delivery[job[j]] = "accepted"
                /\ \A k \in Instance : Busy(k) /\ job[k] = job[j] => k = j
            BY <3>1, <3>3, <3>5, <4>2 DEF JobInv
          <5> QED
            BY <3>1, <3>3, <5>1
        <4> QED
          BY <4>1, <4>2
      <3>6. ASSUME NEW j \in Instance
            PROVE  /\ phase'[j] # "cold" => config'[j] \in Environment
                   /\ Handling(j)' => eventId'[job'[j]] = 0
                   /\ Putting(j)' => put'[j] \in Put
        BY <3>1, <3>2, <3>3 DEF JobInv
      <3> QED
        BY <3>4, <3>5, <3>6 DEF JobInv
    <2>3. RequestInv'
      BY <1>7 DEF Accept, TypeOK, RequestInv, ids
    <2> QED
      BY <2>1, <2>2, <2>3
  <1>8. ASSUME NEW i \in Instance,
               \/ InitFailed(i) \/ MissingSignature(i) \/ InvalidSignature(i)
               \/ InvalidPayload(i) \/ ParquetFails(i)
        PROVE  Structure'
    <2>1. PICK status \in {400, 401, 500} : Handling(i) /\ Refuse(i, status)
      BY <1>8 DEF InitFailed, MissingSignature, InvalidSignature, InvalidPayload, ParquetFails
    <2>2. Busy(i) /\ eventId[job[i]] = 0
      BY <2>1 DEF JobInv, Open, Busy
    <2>3. /\ Finish(i, status, Null, "idle")
          /\ UNCHANGED <<clock, env, sender, ids>>
          /\ stray' = stray /\ bucket' = bucket /\ config' = config
      BY <2>1 DEF Refuse, store
    <2>4. status \in HttpStatus
      BY DEF HttpStatus
    <2>5. /\ stray' \subseteq Object /\ bucket' \subseteq Object
          /\ config' \in [Instance -> Environment \cup {Null}]
      BY <2>3 DEF TypeOK
    <2> QED
      BY <2>2, <2>3, <2>4, <2>5, StructureFinish
  <1>9. ASSUME NEW i \in Instance, StartPut(i) PROVE Structure'
    <2>1. /\ Handling(i) /\ Sent(i).body.form = "webhook" /\ job[i] \in Request
          /\ Sent(i).body \in Body
      BY <1>9, SentType DEF StartPut, Busy
    <2> DEFINE object == ObjectOf(Sent(i).body, clock, lastId + 1)
    <2>2. object \in Object
      <3>1. clock \in Nat /\ lastId + 1 \in Nat \ {0}
        <4>1. clock \in FirstTick .. LastTick /\ lastId \in Nat /\ FirstTick \in Nat
              /\ LastTick \in Nat
          BY NumbersAssumption DEF TypeOK
        <4> QED
          BY <4>1
      <3> QED
        BY <2>1, <3>1, ObjectOfWebhook
    <2> HIDE DEF object
    <2>3. [object |-> object, attempt |-> 1, landed |-> FALSE] \in Put
      BY <2>2, NumbersAssumption DEF Put
    <2>4. /\ put' = [put EXCEPT ![i] = [object |-> object, attempt |-> 1, landed |-> FALSE]]
          /\ eventId' = [eventId EXCEPT ![job[i]] = lastId + 1]
          /\ lastId' = lastId + 1
          /\ phase' = [phase EXCEPT ![i] = "putting"]
          /\ UNCHANGED <<clock, env, message, delivery, response, config, job, bucket, stray>>
      BY <1>9 DEF StartPut, object, sender, store
    <2>5. TypeOK'
      <3>0. lastId \in Nat /\ eventId \in [Request -> Nat]
        BY DEF TypeOK
      <3>1. lastId' \in Nat /\ eventId' \in [Request -> Nat]
        BY <2>1, <2>4, <3>0
      <3>2. /\ put' \in [Instance -> Put \cup {Null}]
            /\ phase' \in [Instance -> {"cold", "idle", "handling", "putting"}]
        BY <2>3, <2>4 DEF TypeOK
      <3> QED
        BY <2>4, <3>1, <3>2 DEF TypeOK
    <2>6. JobInv'
      <3>1. /\ phase'[i] = "putting" /\ put'[i] \in Put
            /\ \A j \in Instance : j # i => phase'[j] = phase[j] /\ put'[j] = put[j]
            /\ \A q \in Request : q # job[i] => eventId'[q] = eventId[q]
            /\ response' = response /\ config' = config /\ job' = job
            /\ delivery' = delivery
        BY <2>1, <2>3, <2>4 DEF TypeOK
      <3>2. \A j \in Instance : /\ Busy(j)' <=> Busy(j)
                                /\ Handling(j)' => Handling(j) /\ Busy(j) /\ j # i
                                /\ Putting(j)' => Putting(j) \/ j = i
        BY <2>1, <3>1 DEF Busy, Handling, Putting
      <3>3. Busy(i) /\ phase[i] # "cold"
        BY <2>1 DEF Busy, Handling
      <3>4. \A j \in Instance : Busy(j)' => Open(job[j])'
        BY <3>1, <3>2 DEF Open, JobInv
      <3>5. \A j \in Instance : Handling(j)' => eventId'[job'[j]] = 0
        BY <3>1, <3>2, <3>3 DEF JobInv
      <3> QED
        BY <3>1, <3>2, <3>3, <3>4, <3>5 DEF JobInv
    <2>7. delivery[job[i]] = "accepted" /\ Open(job[i])
      BY <2>1 DEF JobInv, Busy
    <2>8. RequestInv'
      <3>1. lastId \in Nat /\ \A r \in Request : eventId[r] \in Nat /\ eventId[r] <= lastId
        BY DEF TypeOK, RequestInv
      <3>2. \A r \in Request :
               eventId'[r] = IF r = job[i] THEN lastId + 1 ELSE eventId[r]
        BY <2>1, <2>4 DEF TypeOK
      <3>3. \A r \in Request : eventId'[r] <= lastId'
        BY <2>4, <3>1, <3>2
      <3>4. \A r, s \in Request : eventId'[r] = eventId'[s] /\ eventId'[r] # 0 => r = s
        <4> SUFFICES ASSUME NEW r \in Request, NEW s \in Request,
                            eventId'[r] = eventId'[s], eventId'[r] # 0
                     PROVE  r = s
          OBVIOUS
        <4>1. CASE r # job[i] /\ s # job[i]
          BY <3>2, <4>1 DEF RequestInv
        <4>2. CASE r = job[i] \/ s = job[i]
          BY <3>1, <3>2, <4>2
        <4> QED
          BY <4>1, <4>2
      <3> QED
        BY <2>1, <2>4, <2>7, <3>2, <3>3, <3>4 DEF RequestInv, Open
    <2> QED
      BY <2>5, <2>6, <2>8
  <1>10. ASSUME NEW i \in Instance, PutLands(i) \/ RetryPut(i) PROVE Structure'
    <2>1. Putting(i) /\ put[i] \in Put
      BY <1>10 DEF PutLands, RetryPut, JobInv
    <2>2. put[i].object \in Object /\ put[i].attempt \in 1 .. MaxAttempts
      BY <2>1 DEF Put
    <2>3. PICK p \in Put : put' = [put EXCEPT ![i] = p]
      <3>1. CASE PutLands(i)
        <4>1. [put[i] EXCEPT !.landed = TRUE] \in Put
          BY <2>1 DEF Put
        <4> QED
          BY <3>1, <4>1 DEF PutLands
      <3>2. CASE RetryPut(i)
        <4>1. put[i].attempt + 1 \in 1 .. MaxAttempts
          BY <2>2, <3>2, NumbersAssumption DEF RetryPut
        <4>2. [put[i] EXCEPT !.attempt = @ + 1, !.landed = FALSE] \in Put
          BY <2>1, <4>1 DEF Put
        <4> QED
          BY <3>2, <4>2 DEF RetryPut
      <3> QED
        BY <1>10, <3>1, <3>2
    <2>4. UNCHANGED <<clock, env, sender, response, ids, phase, config, job>>
      BY <1>10 DEF PutLands, RetryPut
    <2>5. bucket' \subseteq Object /\ stray' \subseteq Object
      BY <1>10, <2>2 DEF PutLands, RetryPut, Abandon, Stored, TypeOK
    <2>6. TypeOK'
      BY <2>3, <2>4, <2>5 DEF TypeOK, sender, ids
    <2>7. JobInv'
      <3>1. \A j \in Instance : Putting(j) => put'[j] \in Put
        BY <2>3 DEF TypeOK, JobInv
      <3> QED
        BY <2>4, <3>1, JobsKept DEF sender, ids
    <2>8. RequestInv'
      BY <2>4 DEF RequestInv, sender, ids
    <2> QED
      BY <2>6, <2>7, <2>8
  <1>11. ASSUME NEW i \in Instance, PutSucceeds(i) \/ PutFails(i) \/ TimeOut(i)
         PROVE  Structure'
    <2>1. Busy(i)
      BY <1>11 DEF PutSucceeds, PutFails, TimeOut, Busy, Handling, Putting
    <2>2. Putting(i) => put[i].object \in Object /\ put[i].object.key \in Key
      BY DEF JobInv, Put, Object
    <2>3. stray' \subseteq Object /\ bucket' \subseteq Object
      BY <1>11, <2>2 DEF PutSucceeds, PutFails, TimeOut, Abandon, TypeOK, store
    <2>4. PICK status \in {200, 500, 504}, key \in Key \cup {Null}, p \in {"cold", "idle"} :
             Finish(i, status, key, p)
      BY <1>11, <2>2 DEF PutSucceeds, PutFails, TimeOut
    <2>5. /\ config' \in [Instance -> Environment \cup {Null}]
          /\ \A j \in Instance : phase'[j] # "cold" => config'[j] = config[j]
      <3>1. CASE PutSucceeds(i) \/ PutFails(i)
        <4>1. config' = config
          BY <3>1 DEF PutSucceeds, PutFails
        <4> QED
          BY <4>1 DEF TypeOK
      <3>2. CASE TimeOut(i)
        <4>1. config' = [config EXCEPT ![i] = Null] /\ phase' = [phase EXCEPT ![i] = "cold"]
          BY <3>2 DEF TimeOut, Finish
        <4>2. /\ config \in [Instance -> Environment \cup {Null}]
              /\ phase \in [Instance -> {"cold", "idle", "handling", "putting"}]
          BY DEF TypeOK
        <4> QED
          BY <4>1, <4>2
      <3> QED
        BY <1>11, <3>1, <3>2
    <2>6. UNCHANGED <<clock, env, sender, ids>>
      BY <1>11 DEF PutSucceeds, PutFails, TimeOut
    <2> QED
      BY <2>1, <2>3, <2>4, <2>5, <2>6, StructureFinish DEF HttpStatus
  <1>12. ASSUME NEW i \in Instance, GatewayTimeout(i) PROVE Structure'
    <2>1. /\ Busy(i) /\ job[i] \in Request /\ delivery[job[i]] = "accepted"
          /\ response[job[i]] = Null
      BY <1>12 DEF GatewayTimeout, JobInv, Busy, Handling, Putting
    <2>2. PICK answer \in Response : /\ response' = [response EXCEPT ![job[i]] = answer]
                                     /\ answer.status = 504
      <3>1. [status |-> 504, key |-> Null] \in Response
        BY DEF Response, HttpStatus
      <3> QED
        BY <1>12, <3>1 DEF GatewayTimeout
    <2>3. UNCHANGED <<clock, env, sender, ids, lambda, store>>
      BY <1>12 DEF GatewayTimeout
    <2>4. TypeOK'
      BY <2>1, <2>2, <2>3 DEF TypeOK, sender, ids, lambda, store
    <2>5. \A r \in Request : response'[r] = IF r = job[i] THEN answer ELSE response[r]
      <3>1. response \in [Request -> Response \cup {Null}]
        BY DEF TypeOK
      <3> QED
        BY <2>1, <2>2, <3>1
    <2>6. JobInv'
      <3>1. \A r \in Request : Open(r) => Open(r)'
        BY <2>2, <2>5 DEF Open
      <3>2. delivery' = delivery /\ eventId' = eventId /\ phase' = phase
            /\ config' = config /\ job' = job /\ put' = put
        BY <2>3 DEF sender, ids, lambda
      <3>3. \A j \in Instance : Busy(j) => Open(job[j])'
        BY <3>1, <3>2 DEF JobInv, Open
      <3> QED
        BY <3>2, <3>3 DEF JobInv, Busy, Handling, Putting
    <2>7. RequestInv'
      <3>1. message' = message /\ delivery' = delivery /\ eventId' = eventId /\ lastId' = lastId
        BY <2>3 DEF sender, ids
      <3> QED
        BY <2>1, <2>2, <2>5, <3>1 DEF RequestInv
    <2> QED
      BY <2>4, <2>6, <2>7
  <1>13. CASE UNCHANGED vars
    <2>1. TypeOK' /\ RequestInv'
      BY <1>13 DEF vars, TypeOK, RequestInv, sender, ids, lambda, store
    <2>2. JobInv'
      BY <1>13, JobsKept DEF vars, JobInv, sender, ids, lambda
    <2> QED
      BY <2>1, <2>2
  <1> QED
    BY <1>1, <1>2, <1>3, <1>4, <1>5, <1>6, <1>7, <1>8, <1>9, <1>10, <1>11, <1>12,
       <1>13
       DEF Next, Network, Invocation

(***************************************************************************)
(* Every variable keeps its type, every running invocation serves one      *)
(* accepted request of its own, and event ids are unique.                  *)
(***************************************************************************)
THEOREM StructureInvariant == Spec => []Structure
  <1>1. Init => Structure
    BY StructureInit
  <1>2. Structure /\ [Next]_vars => Structure'
    BY StructureNext
  <1> QED
    BY <1>1, <1>2, PTL DEF Spec

THEOREM TypeCorrect == Spec => []TypeOK
  <1>1. Structure => TypeOK
    BY DEF Structure
  <1> QED
    BY <1>1, StructureInvariant, PTL

-----------------------------------------------------------------------------
(***************************************************************************)
(* What has been written: WriteInv, on top of the structure.               *)
(***************************************************************************)

LEMMA WrittenType == ASSUME Structure PROVE Written \subseteq Object
  <1>1. InFlight \subseteq Object
    BY DEF Structure, JobInv, InFlight, Putting, Put
  <1> QED
    BY <1>1 DEF Structure, TypeOK, Written

(* An object that lands replaces no other: it is the only one of its id.   *)
LEMMA StoredGrows ==
    ASSUME IInv, NEW o \in Written
    PROVE  bucket \subseteq Stored(o) /\ Stored(o) \subseteq Written /\ o \in Stored(o)
  <1>1. \A p \in bucket : p.key = o.key => p = o
    BY DEF IInv, WriteInv, Written
  <1> QED
    BY <1>1 DEF Stored, Written

(* Steps that make no new object.                                          *)
LEMMA WritesKept ==
    ASSUME IInv, eventId' = eventId,
           \A r \in Request : eventId[r] # 0 => message'[r] = message[r],
           Written' \subseteq Written, bucket \subseteq bucket',
           \A i \in Instance :
               Putting(i)' => /\ Putting(i)
                              /\ job'[i] = job[i]
                              /\ put'[i].object = put[i].object
                              /\ put'[i].landed => put[i].object \in bucket',
           \A r \in Request :
               \/ response'[r] = response[r]
               \/ response'[r].status # 200
               \/ \E i \in Instance : /\ Putting(i) /\ put[i].landed /\ job[i] = r
                                      /\ response'[r].key = put[i].object.key
    PROVE  WriteInv'
  <1>1. Written \subseteq Object /\ WriteInv /\ Structure
    BY WrittenType DEF IInv
  <1>2. ASSUME NEW o \in Written, NEW r \in Request, MadeFor(o, r)
        PROVE  MadeFor(o, r)'
    <2>1. eventId[r] # 0
      BY <1>1, <1>2, ObjectType DEF MadeFor
    <2> QED
      BY <1>2, <2>1 DEF MadeFor
  <1>3. \A o \in Written' : WellPlaced(o)' /\ \E r \in Request : MadeFor(o, r)'
    <2> SUFFICES ASSUME NEW o \in Written'
                 PROVE  WellPlaced(o)' /\ \E r \in Request : MadeFor(o, r)'
      OBVIOUS
    <2>1. o \in Written /\ WellPlaced(o)
      BY <1>1 DEF WriteInv
    <2>2. WellPlaced(o)'
      BY <2>1 DEF WellPlaced
    <2>3. PICK r \in Request : MadeFor(o, r)
      BY <1>1, <2>1 DEF WriteInv
    <2> QED
      BY <1>2, <2>1, <2>2, <2>3
  <1>4. \A o, p \in Written' : o.key.event_id = p.key.event_id => o = p
    BY <1>1 DEF WriteInv
  <1>5. ASSUME NEW i \in Instance, Putting(i)'
        PROVE  /\ MadeFor(put[i].object, job[i])'
               /\ put'[i].landed => put'[i].object \in bucket'
    <2>1. /\ Putting(i) /\ job'[i] = job[i] /\ put'[i].object = put[i].object
          /\ put'[i].landed => put[i].object \in bucket'
      BY <1>5
    <2>2. put[i].object \in Written /\ job[i] \in Request /\ MadeFor(put[i].object, job[i])
      BY <1>1, <2>1 DEF Written, InFlight, Putting, WriteInv, Structure, JobInv, Busy
    <2>3. eventId[job[i]] # 0
      BY <1>1, <2>2, ObjectType DEF MadeFor
    <2> QED
      BY <2>1, <2>2, <2>3 DEF MadeFor
  <1>6. ASSUME NEW r \in Request, response'[r] # Null, response'[r].status = 200
        PROVE  \E o \in bucket' : o.key = response'[r].key /\ MadeFor(o, r)'
    <2>1. CASE response'[r] = response[r]
      <3>1. PICK o \in bucket : o.key = response[r].key /\ MadeFor(o, r)
        BY <1>1, <1>6, <2>1 DEF WriteInv
      <3> QED
        BY <1>2, <2>1, <3>1 DEF Written
    <2>2. CASE \E i \in Instance : /\ Putting(i) /\ put[i].landed /\ job[i] = r
                                   /\ response'[r].key = put[i].object.key
      <3>1. PICK i \in Instance : /\ Putting(i) /\ put[i].landed /\ job[i] = r
                                  /\ response'[r].key = put[i].object.key
        BY <2>2
      <3>2. put[i].object \in bucket /\ MadeFor(put[i].object, r)
        BY <1>1, <3>1 DEF WriteInv
      <3> QED
        BY <1>2, <3>1, <3>2 DEF Written
    <2> QED
      BY <1>6, <2>1, <2>2
  <1> QED
    BY <1>3, <1>4, <1>5, <1>6 DEF WriteInv

LEMMA WriteInit == Init => WriteInv
  BY DEF Init, WriteInv, Written, InFlight, Putting

LEMMA WriteNext == IInv /\ [Next]_vars => WriteInv'
  <1> SUFFICES ASSUME IInv, [Next]_vars PROVE WriteInv'
    OBVIOUS
  <1>0. Structure /\ WriteInv /\ TypeOK /\ JobInv /\ RequestInv /\ Structure'
    BY StructureNext DEF IInv, Structure
  <1>1. ASSUME \/ Tick
               \/ \E e \in Environment : Deploy(e)
               \/ \E r \in Request : Lose(r)
               \/ UNCHANGED vars
        PROVE  WriteInv'
    <2>1. UNCHANGED <<message, response, eventId, phase, job, put, bucket, stray>>
      BY <1>1 DEF Tick, Deploy, Lose, vars, sender, ids, lambda, store
    <2>2. Written' = Written
      BY <2>1 DEF Written, InFlight
    <2> QED
      BY <1>0, <2>1, <2>2, WritesKept DEF Putting, WriteInv
  <1>2. ASSUME NEW r \in Request, NEW m \in Message, Send(r, m) PROVE WriteInv'
    <2>1. UNCHANGED <<response, eventId, phase, job, put, bucket, stray>>
      BY <1>2 DEF Send, ids, lambda, store
    <2>2. Written' = Written
      BY <2>1 DEF Written, InFlight
    <2>3. \A q \in Request : eventId[q] # 0 => message'[q] = message[q]
      BY <1>0, <1>2 DEF Send, TypeOK, RequestInv
    <2> QED
      BY <1>0, <2>1, <2>2, <2>3, WritesKept DEF Putting, WriteInv
  <1>3. ASSUME NEW o \in stray, StrayLands(o) \/ StrayDropped(o) PROVE WriteInv'
    <2>1. UNCHANGED <<message, response, eventId, phase, job, put>>
      BY <1>3 DEF StrayLands, StrayDropped, sender, ids, lambda
    <2>2. bucket \subseteq bucket' /\ bucket' \subseteq Written /\ stray' \subseteq stray
      BY <1>3, StoredGrows DEF StrayLands, StrayDropped, Written
    <2>3. Written' \subseteq Written
      BY <2>1, <2>2 DEF Written, InFlight
    <2> QED
      BY <1>0, <2>1, <2>2, <2>3, WritesKept DEF Putting, WriteInv
  <1>4. ASSUME NEW i \in Instance,
               ColdStart(i) \/ Recycle(i) \/ \E r \in Request : Accept(i, r)
        PROVE  WriteInv'
    <2>1. UNCHANGED <<message, response, eventId, put, bucket, stray>>
      BY <1>4 DEF ColdStart, Recycle, Accept, sender, ids, store
    <2>2. \A j \in Instance : Putting(j)' => Putting(j) /\ job'[j] = job[j]
      <3>1. CASE ColdStart(i) \/ Recycle(i)
        BY <1>0, <3>1 DEF ColdStart, Recycle, Putting, TypeOK
      <3>2. CASE \E r \in Request : Accept(i, r)
        BY <1>0, <3>2 DEF Accept, Putting, TypeOK
      <3> QED
        BY <1>4, <3>1, <3>2
    <2>3. Written' \subseteq Written
      BY <2>1, <2>2 DEF Written, InFlight, Putting
    <2> QED
      BY <1>0, <2>1, <2>2, <2>3, WritesKept DEF WriteInv
  <1>5. ASSUME NEW i \in Instance, StartPut(i) PROVE WriteInv'
    <2>1. /\ Handling(i) /\ Verified(i) /\ Sent(i).body.form = "webhook"
          /\ job[i] \in Request /\ Sent(i).body \in Body /\ config[i] \in Environment
          /\ Sent(i) = message[job[i]]
      BY <1>0, <1>5, SentType DEF StartPut, Busy, Sent
    <2>2. clock \in Nat /\ lastId \in Nat /\ lastId + 1 \in Nat \ {0}
      <3>1. /\ clock \in FirstTick .. LastTick /\ lastId \in Nat
            /\ FirstTick \in Nat /\ LastTick \in Nat
        BY <1>0, NumbersAssumption DEF TypeOK
      <3> QED
        BY <3>1
    <2>3. PICK object \in Object :
            /\ object = ObjectOf(Sent(i).body, clock, lastId + 1)
            /\ object.key.event_id = lastId + 1
            /\ object.event.raw_payload = message[job[i]].body
            /\ WellPlaced(object)
      BY <2>1, <2>2, ObjectOfWebhook
    <2>4. WellSigned(message[job[i]])
      BY <2>1 DEF WellSigned, Verified, VerifySignature, Hmac, Sent
    <2>5. /\ put' = [put EXCEPT ![i] = [object |-> object, attempt |-> 1, landed |-> FALSE]]
          /\ eventId' = [eventId EXCEPT ![job[i]] = lastId + 1]
          /\ phase' = [phase EXCEPT ![i] = "putting"]
          /\ message' = message /\ response' = response /\ job' = job
          /\ bucket' = bucket /\ stray' = stray
      BY <1>5, <2>3 DEF StartPut, sender, store
    <2>6. put'[i].object = object /\ ~put'[i].landed /\ eventId'[job[i]] = lastId + 1
      BY <1>0, <2>1, <2>5 DEF TypeOK
    <2>7. \A j \in Instance : j # i => put'[j] = put[j] /\ (Putting(j)' <=> Putting(j))
      BY <1>0, <2>5 DEF TypeOK, Putting
    <2>8. Written' \subseteq Written \cup {object}
      BY <2>5, <2>6, <2>7 DEF Written, InFlight, Putting
    <2>9. MadeFor(object, job[i])'
      <3>1. message' = message /\ job' = job
        BY <2>5
      <3> QED
        BY <2>3, <2>4, <2>6, <3>1 DEF MadeFor
    <2>10. eventId[job[i]] = 0
      BY <1>0, <2>1 DEF JobInv
    <2>11. ASSUME NEW o \in Written, NEW r \in Request, MadeFor(o, r)
           PROVE  MadeFor(o, r)' /\ r # job[i] /\ o.key.event_id < lastId + 1
      <3>1. o.key.event_id \in Nat \ {0} /\ eventId[r] = o.key.event_id
        BY <1>0, <2>11, WrittenType, ObjectType DEF MadeFor
      <3>2. r # job[i] /\ eventId[r] <= lastId
        BY <1>0, <2>10, <3>1 DEF RequestInv
      <3>3. eventId'[r] = eventId[r]
        BY <1>0, <2>5, <3>2 DEF TypeOK
      <3>4. MadeFor(o, r)'
        BY <2>5, <2>11, <3>3 DEF MadeFor
      <3> QED
        BY <2>2, <3>1, <3>2, <3>4
    <2>12. \A o \in Written : /\ WellPlaced(o)
                              /\ o.key.event_id < lastId + 1
                              /\ \E r \in Request : MadeFor(o, r)'
      BY <1>0, <2>11 DEF WriteInv
    <2>13. \A o \in Written' : WellPlaced(o)' /\ \E r \in Request : MadeFor(o, r)'
      <3> SUFFICES ASSUME NEW o \in Written'
                   PROVE  WellPlaced(o)' /\ \E r \in Request : MadeFor(o, r)'
        OBVIOUS
      <3>1. CASE o \in Written
        BY <2>12, <3>1 DEF WellPlaced
      <3>2. CASE o = object
        <4>1. job'[i] = job[i] /\ WellPlaced(object)'
          BY <2>3, <2>5 DEF WellPlaced
        <4>2. PICK r \in Request : r = job'[i]
          BY <2>1, <4>1
        <4>3. MadeFor(object, r)'
          BY <2>9, <4>2 DEF MadeFor
        <4> QED
          BY <3>2, <4>1, <4>3
      <3> QED
        BY <2>8, <3>1, <3>2
    <2>14. \A o, p \in Written' : o.key.event_id = p.key.event_id => o = p
      <3> SUFFICES ASSUME NEW o \in Written', NEW p \in Written',
                          o.key.event_id = p.key.event_id
                   PROVE  o = p
        OBVIOUS
      <3>1. CASE o \in Written /\ p \in Written
        BY <1>0, <3>1 DEF WriteInv
      <3>2. CASE o = object \/ p = object
        <4>1. ~(lastId + 1 < lastId + 1)
          BY <2>2
        <4> QED
          BY <2>3, <2>8, <2>12, <3>2, <4>1
      <3> QED
        BY <2>8, <3>1, <3>2
    <2>15. ASSUME NEW j \in Instance, Putting(j)'
           PROVE  /\ MadeFor(put[j].object, job[j])'
                  /\ put'[j].landed => put'[j].object \in bucket'
      <3>1. CASE j = i
        BY <2>6, <2>9, <3>1
      <3>2. CASE j # i
        <4>1. Putting(j) /\ put'[j] = put[j] /\ job[j] \in Request
          BY <1>0, <2>7, <2>15, <3>2 DEF JobInv, Busy
        <4>2. put[j].object \in Written
          BY <4>1 DEF Written, InFlight, Putting
        <4>3. MadeFor(put[j].object, job[j]) /\ (put[j].landed => put[j].object \in bucket)
          BY <1>0, <4>1 DEF WriteInv
        <4>4. MadeFor(put[j].object, job[j])' /\ put'[j].object = put[j].object
          <5>1. job[j] # job[i] /\ eventId'[job[j]] = eventId[job[j]]
            BY <1>0, <2>5, <2>11, <4>1, <4>2, <4>3 DEF TypeOK
          <5> QED
            BY <2>5, <4>1, <4>3, <5>1 DEF MadeFor
        <4> QED
          BY <2>5, <4>3, <4>4
      <3> QED
        BY <3>1, <3>2
    <2>16. \A r \in Request :
             response'[r] # Null /\ response'[r].status = 200 =>
                 \E o \in bucket' : o.key = response'[r].key /\ MadeFor(o, r)'
      BY <1>0, <2>5, <2>11 DEF WriteInv, Written
    <2> QED
      BY <2>13, <2>14, <2>15, <2>16 DEF WriteInv
  <1>6. ASSUME NEW i \in Instance,
               \/ InitFailed(i) \/ MissingSignature(i) \/ InvalidSignature(i)
               \/ InvalidPayload(i) \/ ParquetFails(i)
               \/ PutSucceeds(i) \/ PutFails(i) \/ TimeOut(i)
        PROVE  WriteInv'
    <2>1. Busy(i) /\ job[i] \in Request
      BY <1>0, <1>6 DEF InitFailed, MissingSignature, InvalidSignature, InvalidPayload,
                        ParquetFails, PutSucceeds, PutFails, TimeOut,
                        JobInv, Busy, Handling, Putting
    <2>2. PICK status \in HttpStatus, key \in {Null, put[i].object.key}, p \in {"cold", "idle"} :
             /\ Finish(i, status, key, p)
             /\ status = 200 => Putting(i) /\ put[i].landed /\ key = put[i].object.key
      <3>1. CASE PutSucceeds(i)
        BY <3>1 DEF PutSucceeds, HttpStatus
      <3>2. CASE PutFails(i) \/ TimeOut(i)
        BY <3>2 DEF PutFails, TimeOut, HttpStatus
      <3>3. CASE \/ InitFailed(i) \/ MissingSignature(i) \/ InvalidSignature(i)
                 \/ InvalidPayload(i) \/ ParquetFails(i)
        <4>1. PICK status \in {400, 401, 500} : Finish(i, status, Null, "idle")
          BY <3>3 DEF InitFailed, MissingSignature, InvalidSignature, InvalidPayload,
                      ParquetFails, Refuse
        <4> QED
          BY <4>1 DEF HttpStatus
      <3> QED
        BY <1>6, <3>1, <3>2, <3>3
    <2>3. /\ message' = message /\ eventId' = eventId /\ bucket' = bucket
          /\ stray' \subseteq Written
      BY <1>6 DEF InitFailed, MissingSignature, InvalidSignature, InvalidPayload,
                  ParquetFails, PutSucceeds, PutFails, TimeOut, Refuse, Abandon,
                  Written, InFlight, Putting, sender, ids, store
    <2>4. \A j \in Instance :
             Putting(j)' => Putting(j) /\ job'[j] = job[j] /\ put'[j] = put[j]
      BY <1>0, <2>2 DEF Finish, TypeOK, Putting
    <2>5. Written' \subseteq Written
      BY <2>3, <2>4 DEF Written, InFlight, Putting
    <2>6. \A r \in Request :
             \/ response'[r] = response[r]
             \/ response'[r].status # 200
             \/ \E j \in Instance : /\ Putting(j) /\ put[j].landed /\ job[j] = r
                                    /\ response'[r].key = put[j].object.key
      <3>1. response \in [Request -> Response \cup {Null}]
        BY <1>0 DEF TypeOK
      <3>2. response' = [response EXCEPT ![job[i]] =
                 IF @ = Null THEN [status |-> status, key |-> key] ELSE @]
        BY <2>2 DEF Finish
      <3>3. ASSUME NEW r \in Request
            PROVE  \/ response'[r] = response[r]
                   \/ /\ r = job[i]
                      /\ response'[r].status = status /\ response'[r].key = key
        BY <3>1, <3>2
      <3> QED
        BY <2>1, <2>2, <3>3
    <2> QED
      BY <1>0, <2>3, <2>4, <2>5, <2>6, WritesKept DEF WriteInv
  <1>7. ASSUME NEW i \in Instance, PutLands(i) \/ RetryPut(i) PROVE WriteInv'
    <2>1. Putting(i) /\ put[i] \in Put /\ put[i].object \in Written
      BY <1>0, <1>7 DEF PutLands, RetryPut, JobInv, Written, InFlight, Putting
    <2>2. UNCHANGED <<message, response, eventId, phase, job>>
      BY <1>7 DEF PutLands, RetryPut, sender, ids
    <2>3. /\ bucket \subseteq bucket' /\ bucket' \subseteq Written /\ stray' \subseteq Written
          /\ PutLands(i) => put[i].object \in bucket'
      BY <1>7, <2>1, StoredGrows DEF PutLands, RetryPut, Abandon, Written
    <2>4. /\ \A j \in Instance : put'[j].object = put[j].object
          /\ \A j \in Instance : j # i => put'[j] = put[j]
          /\ put'[i].landed => PutLands(i)
      <3>1. CASE PutLands(i)
        <4>1. put' = [put EXCEPT ![i] = [put[i] EXCEPT !.landed = TRUE]]
          BY <3>1 DEF PutLands
        <4> QED
          BY <1>0, <2>1, <3>1, <4>1 DEF TypeOK, Put
      <3>2. CASE RetryPut(i)
        <4>1. put' = [put EXCEPT ![i] = [put[i] EXCEPT !.attempt = @ + 1, !.landed = FALSE]]
          BY <3>2 DEF RetryPut
        <4> QED
          BY <1>0, <2>1, <4>1 DEF TypeOK, Put
      <3> QED
        BY <1>7, <3>1, <3>2
    <2>5. Written' \subseteq Written
      BY <2>2, <2>3, <2>4 DEF Written, InFlight
    <2>6. \A j \in Instance :
             Putting(j)' => /\ Putting(j) /\ job'[j] = job[j] /\ put'[j].object = put[j].object
                            /\ put'[j].landed => put[j].object \in bucket'
      BY <1>0, <2>2, <2>3, <2>4 DEF Putting, WriteInv
    <2> QED
      BY <1>0, <2>2, <2>3, <2>5, <2>6, WritesKept
  <1>8. ASSUME NEW i \in Instance, GatewayTimeout(i) PROVE WriteInv'
    <2>1. UNCHANGED <<message, eventId, phase, job, put, bucket, stray>>
      BY <1>8 DEF GatewayTimeout, sender, ids, lambda, store
    <2>2. Written' = Written
      BY <2>1 DEF Written, InFlight
    <2>3. \A r \in Request : response'[r] = response[r] \/ response'[r].status # 200
      <3>1. response \in [Request -> Response \cup {Null}]
        BY <1>0 DEF TypeOK
      <3>2. response' = [response EXCEPT ![job[i]] = [status |-> 504, key |-> Null]]
        BY <1>8 DEF GatewayTimeout
      <3> QED
        BY <3>1, <3>2
    <2> QED
      BY <1>0, <2>1, <2>2, <2>3, WritesKept DEF Putting, WriteInv
  <1> QED
    BY <1>1, <1>2, <1>3, <1>4, <1>5, <1>6, <1>7, <1>8 DEF Next, Network, Invocation

(***************************************************************************)
(* The inductive invariant.                                                *)
(***************************************************************************)
THEOREM Invariant == Spec => []IInv
  <1>1. Init => IInv
    BY StructureInit, WriteInit DEF IInv
  <1>2. IInv /\ [Next]_vars => IInv'
    BY StructureNext, WriteNext DEF IInv
  <1> QED
    BY <1>1, <1>2, PTL DEF Spec

-----------------------------------------------------------------------------
(* What follows from it.                                                   *)

(***************************************************************************)
(* A 200 response is backed by an object with the body of that request.    *)
(***************************************************************************)
THEOREM Durable == Spec => []AcknowledgedIsStored
  <1>1. IInv => AcknowledgedIsStored
    BY DEF IInv, WriteInv, AcknowledgedIsStored, MadeFor
  <1> QED
    BY <1>1, Invariant, PTL

(***************************************************************************)
(* Every object comes from exactly one correctly signed request.           *)
(***************************************************************************)
THEOREM Genuine == Spec => []StoredIsGenuine
  <1>1. ASSUME IInv, NEW o \in Written
        PROVE  \E r \in Request : /\ Origin(o) = {r}
                                  /\ WellSigned(message[r])
                                  /\ message[r].body = o.event.raw_payload
    <2>1. PICK r \in Request : MadeFor(o, r)
      BY <1>1 DEF IInv, WriteInv
    <2>2. eventId[r] = o.key.event_id /\ eventId[r] # 0
      BY <1>1, <2>1, WrittenType, ObjectType DEF IInv, MadeFor
    <2>3. Origin(o) = {r}
      BY <1>1, <2>2 DEF Origin, IInv, Structure, RequestInv
    <2> QED
      BY <2>1, <2>3 DEF MadeFor
  <1>2. IInv => StoredIsGenuine
    BY <1>1 DEF StoredIsGenuine
  <1> QED
    BY <1>2, Invariant, PTL

(***************************************************************************)
(* A request answered 400 or 401 is not stored, then or later.             *)
(***************************************************************************)
THEOREM RejectionIsFinal == Spec => []RejectedIsNeverStored
  <1>1. ASSUME IInv, NEW r \in Request, NEW o \in Written,
               response[r] # Null, response[r].status \in {400, 401}
        PROVE  o.key.event_id # eventId[r]
    <2>1. eventId[r] = 0
      BY <1>1 DEF IInv, Structure, RequestInv
    <2>2. o.key.event_id # 0
      BY <1>1, WrittenType, ObjectType DEF IInv
    <2> QED
      BY <2>1, <2>2
  <1>2. IInv => RejectedIsNeverStored
    BY <1>1 DEF RejectedIsNeverStored
  <1> QED
    BY <1>2, Invariant, PTL

(***************************************************************************)
(* Every object lies in the partition of the UTC+9 day it was received on. *)
(***************************************************************************)
THEOREM PartitionsAgree == Spec => []PartitionAgrees
  <1>1. ASSUME IInv, NEW o \in Written
        PROVE  /\ StartOfJstDay(o.key.dt) <= o.event.received_at
               /\ o.event.received_at < StartOfJstDay(o.key.dt + 1)
               /\ o.event.api # Null => o.key.api = Escape[o.event.api]
               /\ o.event.api = Null => o.key.api = Escape[Unknown]
    <2>1. o.event.received_at \in Nat /\ WellPlaced(o)
      <3>1. o \in Object
        BY <1>1, WrittenType DEF IInv
      <3>2. o.event.received_at \in Nat
        BY <3>1 DEF Object, Event
      <3> QED
        BY <1>1, <3>2 DEF IInv, WriteInv
    <2>2. /\ o.key.dt = (o.event.received_at + JstOffset) \div TicksPerDay
          /\ o.key.api = PartitionSegment(o.event.api)
      BY <2>1 DEF WellPlaced, BuildS3Key, JstPartitionDate
    <2>3. /\ StartOfJstDay(o.key.dt) <= o.event.received_at
          /\ o.event.received_at < StartOfJstDay(o.key.dt + 1)
      <3>1. /\ o.event.received_at + JstOffset \in Nat
            /\ JstOffset \in Nat /\ TicksPerDay \in Nat \ {0}
        BY <2>1, NumbersAssumption
      <3>2. /\ o.key.dt * TicksPerDay <= o.event.received_at + JstOffset
            /\ o.event.received_at + JstOffset < (o.key.dt + 1) * TicksPerDay
            /\ o.key.dt \in Nat
        BY <2>2, <3>1, Division
      <3>3. o.key.dt * TicksPerDay \in Nat /\ (o.key.dt + 1) * TicksPerDay \in Nat
        BY <3>1, <3>2
      <3> QED
        BY <2>1, <3>1, <3>2, <3>3 DEF StartOfJstDay
    <2> QED
      BY <2>2, <2>3 DEF PartitionSegment
  <1>2. IInv => PartitionAgrees
    BY <1>1 DEF PartitionAgrees, IInv, WriteInv
  <1> QED
    BY <1>2, Invariant, PTL

(***************************************************************************)
(* No step removes or replaces an object.                                  *)
(***************************************************************************)
THEOREM AppendOnly == Spec => BucketOnlyGrows
  <1>1. ASSUME IInv, Next PROVE bucket \subseteq bucket'
    <2>1. ASSUME NEW i \in Instance, PutLands(i) PROVE bucket \subseteq bucket'
      <3>1. put[i].object \in Written
        BY <2>1 DEF PutLands, Written, InFlight, Putting
      <3> QED
        BY <1>1, <2>1, <3>1, StoredGrows DEF PutLands
    <2>2. ASSUME NEW o \in stray, StrayLands(o) PROVE bucket \subseteq bucket'
      BY <1>1, <2>2, StoredGrows DEF StrayLands, Written
    <2>3. ASSUME NEW o \in stray, StrayDropped(o) PROVE bucket' = bucket
      BY <2>3 DEF StrayDropped
    <2>4. ASSUME NEW i \in Instance, Invocation(i) PROVE bucket' = bucket
      BY <2>4 DEF Invocation, InitFailed, MissingSignature, InvalidSignature,
                  InvalidPayload, ParquetFails, StartPut, PutSucceeds, RetryPut,
                  PutFails, TimeOut, Refuse, store
    <2>5. ASSUME NEW i \in Instance,
                 \/ ColdStart(i) \/ Recycle(i) \/ GatewayTimeout(i)
                 \/ \E r \in Request : Accept(i, r)
          PROVE  bucket' = bucket
      BY <2>5 DEF ColdStart, Recycle, Accept, GatewayTimeout, store
    <2>6. ASSUME \/ Tick
                 \/ \E e \in Environment : Deploy(e)
                 \/ \E r \in Request : Lose(r) \/ \E m \in Message : Send(r, m)
          PROVE  bucket' = bucket
      BY <2>6 DEF Tick, Deploy, Lose, Send, store
    <2> QED
      BY <1>1, <2>1, <2>2, <2>3, <2>4, <2>5, <2>6 DEF Next, Network
  <1>2. IInv /\ [Next]_vars => [bucket \subseteq bucket']_bucket
    BY <1>1 DEF vars, store
  <1> QED
    BY <1>2, Invariant, PTL DEF Spec, BucketOnlyGrows

-----------------------------------------------------------------------------
(***************************************************************************)
(* The refinement of EventLog.                                             *)
(***************************************************************************)

Reply == [r \in Request |-> ReplyTo(r)]

LEMMA ObjectIdIsNotZero ==
    ASSUME IInv, NEW o \in bucket
    PROVE  o.key.event_id \in Nat \ {0} /\ o.key.event_id <= lastId
  <1>1. o \in Written /\ o.key.event_id \in Nat \ {0}
    BY WrittenType, ObjectType DEF IInv, Written
  <1>2. PICK r \in Request : MadeFor(o, r)
    BY <1>1 DEF IInv, WriteInv
  <1> QED
    BY <1>1, <1>2 DEF MadeFor, IInv, Structure, RequestInv

(* A step that stores nothing and answers nobody is invisible.             *)
LEMMA InvisibleStep ==
    ASSUME IInv, bucket' = bucket, response' = response,
           \A r \in Request : eventId'[r] = eventId[r] \/ (eventId[r] = 0 /\ eventId'[r] > lastId)
    PROVE  Recorded' = Recorded /\ Reply' = Reply
  <1>1. Reply' = Reply
    BY DEF Reply, ReplyTo
  <1>2. ASSUME NEW r \in Request, NEW o \in bucket
        PROVE  o.key.event_id = eventId'[r] <=> o.key.event_id = eventId[r]
    <2>1. /\ o.key.event_id \in Nat \ {0} /\ o.key.event_id <= lastId
          /\ lastId \in Nat /\ eventId[r] \in Nat
      BY ObjectIdIsNotZero DEF IInv, Structure, TypeOK
    <2>2. CASE eventId'[r] = eventId[r]
      BY <2>2
    <2>3. CASE eventId[r] = 0 /\ eventId'[r] > lastId
      <3>1. ~(o.key.event_id > lastId)
        BY <2>1
      <3> QED
        BY <2>1, <2>3, <3>1
    <2> QED
      BY <2>2, <2>3
  <1> QED
    BY <1>1, <1>2 DEF Recorded

(* An object that lands records its request, unless it is already there.   *)
LEMMA LandingRecords ==
    ASSUME IInv, NEW o \in Written, bucket' = Stored(o),
           response' = response, eventId' = eventId
    PROVE  \/ \E r \in Request : Log!Record(r)
           \/ Recorded' = Recorded /\ Reply' = Reply
  <1>1. Reply' = Reply
    BY DEF Reply, ReplyTo
  <1>2. PICK r \in Request : MadeFor(o, r)
    BY DEF IInv, WriteInv
  <1>3. eventId[r] = o.key.event_id /\ eventId[r] # 0
    BY <1>2, WrittenType, ObjectType DEF IInv, MadeFor
  <1>4. bucket \subseteq bucket' /\ o \in bucket' /\ bucket' \subseteq bucket \cup {o}
    BY StoredGrows DEF Stored
  <1>5. \A q \in Request : eventId[q] = eventId[r] => q = r
    BY <1>3 DEF IInv, Structure, RequestInv
  <1>6. Recorded' = Recorded \cup {r}
    BY <1>3, <1>4, <1>5 DEF Recorded
  <1>7. CASE r \in Recorded
    BY <1>1, <1>6, <1>7
  <1>8. CASE r \notin Recorded
    <2>1. response[r] # Null => response[r].status \notin {200, 400, 401}
      <3>1. ASSUME response[r] # Null, response[r].status = 200 PROVE FALSE
        <4>1. PICK p \in bucket : MadeFor(p, r)
          BY <3>1 DEF IInv, WriteInv
        <4> QED
          BY <1>8, <4>1 DEF MadeFor, Recorded
      <3>2. ASSUME response[r] # Null, response[r].status \in {400, 401} PROVE FALSE
        BY <1>3, <3>2 DEF IInv, Structure, RequestInv
      <3> QED
        BY <3>1, <3>2
    <2>2. Reply[r] \in {"none", "failed"}
      BY <2>1 DEF Reply, ReplyTo
    <2> QED
      BY <1>1, <1>6, <1>8, <2>2 DEF Log!Record, Reply
  <1> QED
    BY <1>7, <1>8

(* The end of an invocation is an answer.                                  *)
LEMMA FinishAnswers ==
    ASSUME IInv, NEW i \in Instance, Busy(i), NEW status \in HttpStatus,
           NEW key \in Key \cup {Null}, NEW p,
           Finish(i, status, key, p), bucket' = bucket, eventId' = eventId,
           response[job[i]] = Null,
           status = 200 => Putting(i) /\ put[i].landed,
           status \in {400, 401} => Handling(i)
    PROVE  \E r \in Request : Log!Acknowledge(r) \/ Log!Reject(r) \/ Log!Fail(r)
  <1> DEFINE verdict == IF status = 200 THEN "stored"
                        ELSE IF status \in {400, 401} THEN "rejected"
                        ELSE "failed"
  <1>1. PICK r \in Request : /\ r = job[i] /\ response[r] = Null
                             /\ (Handling(i) => eventId[r] = 0)
    BY DEF IInv, Structure, JobInv
  <1>2. Recorded' = Recorded
    BY DEF Recorded
  <1>3. [status |-> status, key |-> key] # Null
    <2>1. [status |-> status, key |-> key] \in Response
      BY DEF Response
    <2> QED
      BY <2>1, NullAssumption
  <1>4. /\ response \in [Request -> Response \cup {Null}]
        /\ response' = [response EXCEPT ![r] = [status |-> status, key |-> key]]
    BY <1>1 DEF Finish, IInv, Structure, TypeOK
  <1>5. response'[r] = [status |-> status, key |-> key]
    BY <1>4
  <1>6. \A q \in Request : Reply'[q] = IF q = r THEN verdict ELSE Reply[q]
    <2>1. Reply'[r] = verdict
      BY <1>3, <1>5 DEF Reply, ReplyTo
    <2>2. ASSUME NEW q \in Request, q # r PROVE Reply'[q] = Reply[q]
      <3>1. response'[q] = response[q]
        BY <1>4, <2>2
      <3> QED
        BY <3>1 DEF Reply, ReplyTo
    <2> QED
      BY <2>1, <2>2
  <1>7. Reply[r] = "none" /\ Reply' = [Reply EXCEPT ![r] = verdict]
    <2>1. Reply[r] = "none"
      BY <1>1 DEF Reply, ReplyTo
    <2>2. Reply' = [q \in Request |-> Reply'[q]] /\ Reply = [q \in Request |-> Reply[q]]
      BY DEF Reply
    <2> HIDE DEF Reply, verdict
    <2>3. Reply' = [q \in Request |-> IF q = r THEN verdict ELSE Reply[q]]
      BY <1>6, <2>2
    <2> QED
      BY <2>1, <2>2, <2>3
  <1>8. CASE status = 200
    <2>1. r \in Recorded
      BY <1>1, <1>8 DEF IInv, WriteInv, MadeFor, Recorded
    <2> QED
      BY <1>2, <1>7, <1>8, <2>1 DEF Log!Acknowledge, Log!Answer, Reply
  <1>9. CASE status \in {400, 401}
    <2>1. r \notin Recorded
      BY <1>1, <1>9, ObjectIdIsNotZero DEF Recorded
    <2>2. verdict = "rejected"
      BY <1>9
    <2> HIDE DEF verdict
    <2>3. Reply' = [Reply EXCEPT ![r] = "rejected"]
      BY <1>7, <2>2
    <2> QED
      BY <1>2, <1>7, <2>1, <2>3 DEF Log!Reject, Log!Answer, Reply
  <1>10. CASE status \notin {200, 400, 401}
    BY <1>2, <1>7, <1>10 DEF Log!Fail, Log!Answer, Reply
  <1> QED
    BY <1>8, <1>9, <1>10

(* It says nothing to a sender whom API Gateway has answered.              *)
LEMMA FinishUnheard ==
    ASSUME IInv, NEW i \in Instance, Busy(i), NEW status, NEW key, NEW p,
           Finish(i, status, key, p), bucket' = bucket, eventId' = eventId,
           response[job[i]] # Null
    PROVE  Recorded' = Recorded /\ Reply' = Reply
  <1>1. response' = response
    BY DEF Finish, IInv, Structure, TypeOK, JobInv
  <1> QED
    BY <1>1, InvisibleStep

LEMMA GatewayAnswers ==
    ASSUME IInv, NEW i \in Instance, GatewayTimeout(i)
    PROVE  \E r \in Request : Log!Fail(r)
  <1>1. PICK r \in Request : r = job[i] /\ response[r] = Null
    BY DEF GatewayTimeout, IInv, Structure, JobInv, Busy, Handling, Putting
  <1>2. Recorded' = Recorded
    BY DEF GatewayTimeout, Recorded, ids, store
  <1>3. PICK answer \in Response : /\ answer.status = 504
                                   /\ response' = [response EXCEPT ![r] = answer]
    <2>1. [status |-> 504, key |-> Null] \in Response
      BY DEF Response, HttpStatus
    <2>2. response' = [response EXCEPT ![r] = [status |-> 504, key |-> Null]]
      BY <1>1 DEF GatewayTimeout
    <2> QED
      BY <2>1, <2>2
  <1>4. \A q \in Request : response'[q] = IF q = r THEN answer ELSE response[q]
    <2>1. response \in [Request -> Response \cup {Null}]
      BY DEF IInv, Structure, TypeOK
    <2> QED
      BY <1>1, <1>3, <2>1
  <1>5. answer # Null
    BY NullAssumption
  <1>6. ReplyTo(r)' = "failed" /\ ReplyTo(r) = "none"
    BY <1>1, <1>3, <1>4, <1>5 DEF ReplyTo
  <1>7. \A q \in Request : q # r => ReplyTo(q)' = ReplyTo(q)
    BY <1>4 DEF ReplyTo
  <1>8. Reply' = [Reply EXCEPT ![r] = "failed"]
    BY <1>6, <1>7 DEF Reply
  <1> QED
    BY <1>2, <1>6, <1>8 DEF Log!Fail, Log!Answer, Reply

LEMMA StepRefines == IInv /\ [Next]_vars => [Log!LogNext]_<<Recorded, Reply>>
  <1> SUFFICES ASSUME IInv, [Next]_vars
               PROVE  \/ \E r \in Request : \/ Log!Record(r) \/ Log!Acknowledge(r)
                                            \/ Log!Reject(r) \/ Log!Fail(r)
                      \/ Recorded' = Recorded /\ Reply' = Reply
    BY DEF Log!LogNext
  <1>1. ASSUME \/ Tick
               \/ \E e \in Environment : Deploy(e)
               \/ \E r \in Request : Lose(r) \/ \E m \in Message : Send(r, m)
               \/ \E o \in stray : StrayDropped(o)
               \/ \E i \in Instance : \/ ColdStart(i) \/ Recycle(i) \/ RetryPut(i)
                                      \/ \E r \in Request : Accept(i, r)
               \/ UNCHANGED vars
        PROVE  Recorded' = Recorded /\ Reply' = Reply
    <2>1. bucket' = bucket /\ response' = response /\ eventId' = eventId
      BY <1>1 DEF Tick, Deploy, Lose, Send, StrayDropped, ColdStart, Recycle, RetryPut,
                  Accept, vars, ids, store
    <2> QED
      BY <2>1, InvisibleStep
  <1>2. ASSUME NEW i \in Instance, StartPut(i)
        PROVE  Recorded' = Recorded /\ Reply' = Reply
    <2>1. /\ bucket' = bucket /\ response' = response
          /\ eventId' = [eventId EXCEPT ![job[i]] = lastId + 1]
      BY <1>2 DEF StartPut, store
    <2>2. /\ eventId \in [Request -> Nat] /\ lastId \in Nat
          /\ job[i] \in Request /\ eventId[job[i]] = 0
      BY <1>2 DEF StartPut, IInv, Structure, TypeOK, JobInv, Busy
    <2> QED
      BY <2>1, <2>2, InvisibleStep
  <1>3. ASSUME NEW i \in Instance, PutLands(i)
        PROVE  \/ \E r \in Request : Log!Record(r)
               \/ Recorded' = Recorded /\ Reply' = Reply
    <2>1. put[i].object \in Written
      BY <1>3 DEF PutLands, Written, InFlight, Putting
    <2> QED
      BY <1>3, <2>1, LandingRecords DEF PutLands, ids
  <1>4. ASSUME NEW o \in stray, StrayLands(o)
        PROVE  \/ \E r \in Request : Log!Record(r)
               \/ Recorded' = Recorded /\ Reply' = Reply
    BY <1>4, LandingRecords DEF StrayLands, Written, ids
  <1>5. ASSUME NEW i \in Instance,
               \/ InitFailed(i) \/ MissingSignature(i) \/ InvalidSignature(i)
               \/ InvalidPayload(i) \/ ParquetFails(i)
        PROVE  \/ \E r \in Request : Log!Acknowledge(r) \/ Log!Reject(r) \/ Log!Fail(r)
               \/ Recorded' = Recorded /\ Reply' = Reply
    <2>1. PICK status \in {400, 401, 500} : Finish(i, status, Null, "idle")
      BY <1>5 DEF InitFailed, MissingSignature, InvalidSignature, InvalidPayload,
                  ParquetFails, Refuse
    <2>2. Handling(i) /\ bucket' = bucket /\ eventId' = eventId
      BY <1>5 DEF InitFailed, MissingSignature, InvalidSignature, InvalidPayload,
                  ParquetFails, Refuse, ids, store
    <2> QED
      BY <2>1, <2>2, FinishAnswers, FinishUnheard DEF HttpStatus, Busy
  <1>6. ASSUME NEW i \in Instance, PutSucceeds(i) \/ PutFails(i) \/ TimeOut(i)
        PROVE  \/ \E r \in Request : Log!Acknowledge(r) \/ Log!Reject(r) \/ Log!Fail(r)
               \/ Recorded' = Recorded /\ Reply' = Reply
    <2>1. Busy(i) /\ bucket' = bucket /\ eventId' = eventId
      BY <1>6 DEF PutSucceeds, PutFails, TimeOut, Busy, Handling, Putting, ids, store
    <2>2. CASE PutSucceeds(i)
      <3>1. put[i].object.key \in Key
        BY <2>2 DEF PutSucceeds, IInv, Structure, JobInv, Put, Object
      <3> QED
        BY <2>1, <2>2, <3>1, FinishAnswers, FinishUnheard DEF PutSucceeds, HttpStatus
    <2>3. CASE PutFails(i) \/ TimeOut(i)
      <3>1. PICK status \in {500, 504}, p \in {"idle", "cold"} : Finish(i, status, Null, p)
        BY <2>3 DEF PutFails, TimeOut
      <3> QED
        BY <2>1, <3>1, FinishAnswers, FinishUnheard DEF HttpStatus
    <2> QED
      BY <1>6, <2>2, <2>3
  <1>7. ASSUME NEW i \in Instance, GatewayTimeout(i)
        PROVE  \E r \in Request : Log!Fail(r)
    BY <1>7, GatewayAnswers
  <1> QED
    BY <1>1, <1>2, <1>3, <1>4, <1>5, <1>6, <1>7 DEF Next, Network, Invocation

(***************************************************************************)
(* The Lambda implements the event log: whatever the interleaving of       *)
(* environments, attempts and deployments, an observer of the bucket and   *)
(* of the responses sees requests recorded once and answered once, 200     *)
(* only for what is recorded and 400 or 401 only for what never is.        *)
(***************************************************************************)
THEOREM Refinement == Spec => LogSpec
  <1>1. Init => Log!LogInit
    BY DEF Init, Log!LogInit, Recorded, ReplyTo
  <1>2. IInv /\ [Next]_vars => [Log!LogNext]_(Log!logVars)
    BY StepRefines DEF Log!logVars, Reply
  <1> QED
    BY <1>1, <1>2, Invariant, PTL DEF Spec, LogSpec, Log!LogSpec

=============================================================================
