--------------------------- MODULE WebhookIngest ---------------------------
(***************************************************************************)
(* The webhook-ingest Lambda: webhooks travel from microCMS to execution   *)
(* environments of the function, each of which verifies, normalises and    *)
(* stores one webhook at a time as one object in S3.                       *)
(*                                                                         *)
(* Several environments run at once, each with the configuration it read   *)
(* when it started.  A webhook is lost, overtaken by another or sent twice *)
(* (two requests with the same message).  A PUT is attempted several times *)
(* by the SDK, its effect and its answer are separate events, and an       *)
(* attempt whose sender has stopped waiting may still reach S3.            *)
(***************************************************************************)
EXTENDS Integers, FiniteSets, EventKind

CONSTANTS
    Request,      \* HTTP requests, one per invocation of the function
    Instance,     \* Lambda execution environments
    Secret,       \* values of MICROCMS_WEBHOOK_SECRET
    Name,         \* service and API names
    Segment,      \* partition values of an S3 key
    Escape,       \* partition_escape: [Name -> Segment], not injective
    Unknown,      \* the name "unknown"
    Body,         \* request bodies
    Message,      \* requests a sender can make: a signature header and a body
    Environment,  \* the function's environment variables, as deployed
    Null,         \* an absent value
    MaxAttempts,  \* attempts the S3 client makes at one PutObject
    TicksPerDay, JstOffset,     \* the clock's unit, and UTC+9 in it
    FirstTick, LastTick         \* the bound on the clock

Encoding == {"hex", "base64", "undecodable"}

Signature == [encoding : Encoding, key : Secret, body : Body]

OptionalName == Name \cup {Null}

Payload == [service : OptionalName, api : OptionalName,
            type : EventType \cup {Null}, old : SUBSET Status, new : SUBSET Status]

ASSUME NamesAssumption ==
    /\ Unknown \in Name
    /\ Null \notin Name \cup EventType \cup Secret
    /\ Escape \in [Name -> Segment]

ASSUME InputsAssumption ==
    /\ \A b \in Body : /\ b.form \in {"bytes", "text", "webhook"}
                       /\ b.form = "webhook" => b.payload \in Payload
    /\ Message \subseteq [signature : Signature \cup {Null}, body : Body]
    /\ Null \notin Request /\ Null \notin Signature /\ Null \notin Message
    /\ Environment \subseteq [bucket : BOOLEAN, secret : Secret \cup {Null}]
    /\ Null \notin Environment

ASSUME NumbersAssumption ==
    /\ MaxAttempts \in Nat \ {0}
    /\ TicksPerDay \in Nat \ {0} /\ JstOffset \in Nat /\ JstOffset * 24 = TicksPerDay * 9
    /\ FirstTick \in Nat /\ LastTick \in Nat /\ FirstTick <= LastTick

VARIABLES
    clock,     \* the time now_utc reads
    env,       \* the environment variables of the function as last deployed
    message,   \* what each request carries, Null before it is sent
    delivery,  \* how far each request has come
    response,  \* the HTTP response to each request, Null before it
    eventId,   \* the event id its invocation gave each request, 0 for none
    lastId,    \* event ids handed out so far
    phase,     \* what each execution environment is doing
    config,    \* what it read in from_env when it started
    job,       \* the request it is serving
    put,       \* the PutObject call it is waiting for
    bucket,    \* the objects of the bucket
    stray      \* objects of PUT attempts nobody waits for, still under way

sender == <<message, delivery>>
lambda == <<phase, config, job, put>>
store == <<bucket, stray>>
ids == <<eventId, lastId>>
vars == <<clock, env, sender, response, ids, lambda, store>>

-----------------------------------------------------------------------------
(* Values                                                                  *)

Event == [received_at : Nat, service : OptionalName, api : OptionalName,
          event_type : EventType \cup {Null}, event_kind : Kind \cup {NoKind},
          old_status : SUBSET Status, new_status : SUBSET Status,
          raw_payload : Body]

Key == [service : Segment, api : Segment, dt : Nat, event_id : Nat \ {0}]

Object == [key : Key, event : Event]

Put == [object : Object, attempt : 1 .. MaxAttempts, landed : BOOLEAN]

HttpStatus == {200, 400, 401, 500, 504}

Response == [status : HttpStatus, key : Key \cup {Null}]

TypeOK ==
    /\ clock \in FirstTick .. LastTick
    /\ env \in Environment
    /\ message \in [Request -> Message \cup {Null}]
    /\ delivery \in [Request -> {"unsent", "in transit", "lost", "accepted"}]
    /\ response \in [Request -> Response \cup {Null}]
    /\ eventId \in [Request -> Nat]
    /\ lastId \in Nat
    /\ phase \in [Instance -> {"cold", "idle", "handling", "putting"}]
    /\ config \in [Instance -> Environment \cup {Null}]
    /\ job \in [Instance -> Request \cup {Null}]
    /\ put \in [Instance -> Put \cup {Null}]
    /\ bucket \subseteq Object
    /\ stray \subseteq Object

ASSUME NullAssumption == Null \notin Response

(***************************************************************************)
(* verify_signature.  The header decodes as hex, with or without a         *)
(* sha256= prefix, or else as base64, or else not at all; what it decodes  *)
(* to is compared with the HMAC of the body.  An HMAC stands for the pair  *)
(* of the secret and the body it was made of.                              *)
(***************************************************************************)
Hmac(secret, body) == [key |-> secret, body |-> body]

\* A variant that checks whose signature it is and not what was signed.
VerifySignerOnly(body, secret, signature) ==
    /\ signature.encoding \in {"hex", "base64"}
    /\ signature.key = secret

VerifySignature(body, secret, signature) ==
    /\ signature.encoding \in {"hex", "base64"}
    /\ [key |-> signature.key, body |-> signature.body] = Hmac(secret, body)

(***************************************************************************)
(* normalize_payload, for a body that is a webhook.                        *)
(***************************************************************************)
NormalizePayload(body, now) ==
    LET payload == body.payload
    IN  [received_at |-> now,
         service     |-> payload.service,
         api         |-> payload.api,
         event_type  |-> payload.type,
         event_kind  |-> DeriveEventKind(payload.type, payload.old, payload.new),
         old_status  |-> payload.old,
         new_status  |-> payload.new,
         raw_payload |-> body]

(***************************************************************************)
(* build_s3_key: the calendar day of UTC+9, and names with the characters  *)
(* that mean something in a key replaced, so that two names may share a    *)
(* partition.                                                              *)
(***************************************************************************)
\* A variant that partitions by the day in UTC.
UtcPartitionDate(time) == time \div TicksPerDay

JstPartitionDate(time) == (time + JstOffset) \div TicksPerDay

\* A variant that puts the name into the key as it is.
PartitionSegmentRaw(name) == IF name = Null THEN Unknown ELSE name

PartitionSegment(name) == Escape[IF name = Null THEN Unknown ELSE name]

BuildS3Key(service, api, received_at, event_id) ==
    [service  |-> PartitionSegment(service),
     api      |-> PartitionSegment(api),
     dt       |-> JstPartitionDate(received_at),
     event_id |-> event_id]

ObjectOf(body, now, event_id) ==
    LET event == NormalizePayload(body, now)
    IN  [key   |-> BuildS3Key(event.service, event.api, event.received_at, event_id),
         event |-> event]

(***************************************************************************)
(* PutObject replaces whatever the key held.                               *)
(***************************************************************************)
Stored(object) == {o \in bucket : o.key # object.key} \cup {object}

Usable(environment) == environment.bucket /\ environment.secret # Null

-----------------------------------------------------------------------------
(* The world outside the function: time, deployments, microCMS, the        *)
(* network and the Lambda service                                          *)

Tick == /\ clock < LastTick
        /\ clock' = clock + 1
        /\ UNCHANGED <<env, sender, response, ids, lambda, store>>

(* An operator changes the environment variables of the function.          *)
Deploy(e) == /\ e # env
             /\ env' = e
             /\ UNCHANGED <<clock, sender, response, ids, lambda, store>>

(* microCMS, or whoever knows the URL, posts a message.                    *)
Send(r, m) == /\ delivery[r] = "unsent"
              /\ delivery' = [delivery EXCEPT ![r] = "in transit"]
              /\ message' = [message EXCEPT ![r] = m]
              /\ UNCHANGED <<clock, env, response, ids, lambda, store>>

(* microCMS does not send a webhook again, so a lost one is lost for good. *)
Lose(r) == /\ delivery[r] = "in transit"
           /\ delivery' = [delivery EXCEPT ![r] = "lost"]
           /\ UNCHANGED <<clock, env, message, response, ids, lambda, store>>

(* main: AppState::from_env runs once, before the first request.           *)
ColdStart(i) == /\ phase[i] = "cold"
                /\ phase' = [phase EXCEPT ![i] = "idle"]
                /\ config' = [config EXCEPT ![i] = env]
                /\ UNCHANGED <<clock, env, sender, response, ids, job, put, store>>

(* The Lambda service discards an environment that serves nobody.          *)
Recycle(i) == /\ phase[i] = "idle"
              /\ phase' = [phase EXCEPT ![i] = "cold"]
              /\ config' = [config EXCEPT ![i] = Null]
              /\ UNCHANGED <<clock, env, sender, response, ids, job, put, store>>

(* API Gateway hands a request to a started environment.                   *)
Accept(i, r) == /\ phase[i] = "idle"
                /\ delivery[r] = "in transit"
                /\ delivery' = [delivery EXCEPT ![r] = "accepted"]
                /\ phase' = [phase EXCEPT ![i] = "handling"]
                /\ job' = [job EXCEPT ![i] = r]
                /\ UNCHANGED <<clock, env, message, response, ids, config, put, store>>

-----------------------------------------------------------------------------
(* The handler                                                             *)

(* The invocation ends with this response, which reaches the sender unless *)
(* API Gateway has already answered; the environment goes to p.            *)
Finish(i, status, key, p) ==
    /\ response' = [response EXCEPT ![job[i]] =
                        IF @ = Null THEN [status |-> status, key |-> key] ELSE @]
    /\ phase' = [phase EXCEPT ![i] = p]
    /\ job' = [job EXCEPT ![i] = Null]
    /\ put' = [put EXCEPT ![i] = Null]

Refuse(i, status) == /\ Finish(i, status, Null, "idle")
                     /\ UNCHANGED <<clock, env, sender, ids, config, store>>

Handling(i) == phase[i] = "handling"

Sent(i) == message[job[i]]

(* handler_from_init: from_env failed, and every request is told so.       *)
InitFailed(i) == /\ Handling(i)
                 /\ ~Usable(config[i])
                 /\ Refuse(i, 500)

MissingSignature(i) == /\ Handling(i)
                       /\ Usable(config[i])
                       /\ Sent(i).signature = Null
                       /\ Refuse(i, 401)

Verified(i) == /\ Usable(config[i])
               /\ Sent(i).signature # Null
               /\ VerifySignature(Sent(i).body, config[i].secret, Sent(i).signature)

InvalidSignature(i) == /\ Handling(i)
                       /\ Usable(config[i])
                       /\ Sent(i).signature # Null
                       /\ ~Verified(i)
                       /\ Refuse(i, 401)

(* InvalidBody when the body is not UTF-8, ParsePayload when it is not the *)
(* webhook's JSON.                                                         *)
InvalidPayload(i) == /\ Handling(i)
                     /\ Verified(i)
                     /\ Sent(i).body.form # "webhook"
                     /\ Refuse(i, 400)

(* event_to_parquet gives up (arrow or the parquet writer fails).          *)
ParquetFails(i) == /\ Handling(i)
                   /\ Verified(i)
                   /\ Sent(i).body.form = "webhook"
                   /\ Refuse(i, 500)

\* A variant that makes no fresh id.
StartPutFixedId(i) ==
    /\ Handling(i)
    /\ Verified(i)
    /\ Sent(i).body.form = "webhook"
    /\ eventId' = [eventId EXCEPT ![job[i]] = 1]
    /\ put' = [put EXCEPT ![i] = [object  |-> ObjectOf(Sent(i).body, clock, 1),
                                  attempt |-> 1,
                                  landed  |-> FALSE]]
    /\ phase' = [phase EXCEPT ![i] = "putting"]
    /\ UNCHANGED <<clock, env, sender, response, lastId, config, job, store>>

(* From Utc::now() to put_object().send(): all of it on one thread, with   *)
(* nothing another process can see before the request leaves.  Uuid::now_v7*)
(* is a fresh id.                                                          *)
StartPut(i) ==
    /\ Handling(i)
    /\ Verified(i)
    /\ Sent(i).body.form = "webhook"
    /\ lastId' = lastId + 1
    /\ eventId' = [eventId EXCEPT ![job[i]] = lastId + 1]
    /\ put' = [put EXCEPT ![i] = [object  |-> ObjectOf(Sent(i).body, clock, lastId + 1),
                                  attempt |-> 1,
                                  landed  |-> FALSE]]
    /\ phase' = [phase EXCEPT ![i] = "putting"]
    /\ UNCHANGED <<clock, env, sender, response, config, job, store>>

-----------------------------------------------------------------------------
(* S3 and the SDK's retries                                                *)

Putting(i) == phase[i] = "putting"

(* S3 carries out the attempt; its answer is still to come.                *)
PutLands(i) == /\ Putting(i)
               /\ ~put[i].landed
               /\ bucket' = Stored(put[i].object)
               /\ put' = [put EXCEPT ![i].landed = TRUE]
               /\ UNCHANGED <<clock, env, sender, response, ids, phase, config, job, stray>>

\* A variant that answers without waiting for S3.
PutSucceedsUnawaited(i) == /\ Putting(i)
                           /\ Finish(i, 200, put[i].object.key, "idle")
                           /\ UNCHANGED <<clock, env, sender, ids, config, store>>

PutSucceeds(i) == /\ Putting(i)
                  /\ put[i].landed
                  /\ Finish(i, 200, put[i].object.key, "idle")
                  /\ UNCHANGED <<clock, env, sender, ids, config, store>>

(* Nobody waits for the attempt any more: it has landed, or is dropped, or *)
(* is still on its way to S3.                                              *)
Abandon(i) ==
    \/ UNCHANGED stray
    \/ /\ Putting(i)
       /\ ~put[i].landed
       /\ stray' = stray \cup {put[i].object}

(* The attempt times out or S3 answers 5xx: the SDK sends the same request *)
(* again.                                                                  *)
RetryPut(i) == /\ Putting(i)
               /\ put[i].attempt < MaxAttempts
               /\ Abandon(i)
               /\ put' = [put EXCEPT ![i].attempt = @ + 1, ![i].landed = FALSE]
               /\ UNCHANGED <<clock, env, sender, response, ids, phase, config, job, bucket>>

\* A variant whose handler tries again for as long as S3 refuses.
PutFailsStartsOver(i) == /\ Putting(i)
                         /\ put[i].attempt = MaxAttempts \/ ~put[i].landed
                         /\ Abandon(i)
                         /\ put' = [put EXCEPT ![i].attempt = 1, ![i].landed = FALSE]
                         /\ UNCHANGED <<clock, env, sender, response, ids,
                                        phase, config, job, bucket>>

\* A variant that reports an error of S3 as an error of the request.
PutFailsAsBadRequest(i) == /\ Putting(i)
                           /\ put[i].attempt = MaxAttempts \/ ~put[i].landed
                           /\ Abandon(i)
                           /\ Finish(i, 400, Null, "idle")
                           /\ UNCHANGED <<clock, env, sender, ids, config, bucket>>

(* send() returns an error: the attempts are used up, or S3 refuses the    *)
(* request for good.                                                       *)
PutFails(i) == /\ Putting(i)
               /\ put[i].attempt = MaxAttempts \/ ~put[i].landed
               /\ Abandon(i)
               /\ Finish(i, 500, Null, "idle")
               /\ UNCHANGED <<clock, env, sender, ids, config, bucket>>

(* API Gateway gives up on an integration before the function's own 30 s   *)
(* are over, and answers; the invocation goes on.                          *)
GatewayTimeout(i) == /\ phase[i] \in {"handling", "putting"}
                     /\ response[job[i]] = Null
                     /\ response' = [response EXCEPT ![job[i]] = [status |-> 504, key |-> Null]]
                     /\ UNCHANGED <<clock, env, sender, ids, lambda, store>>

(* The function's timeout kills the environment, whatever it is doing, and *)
(* API Gateway answers in its place.                                       *)
TimeOut(i) == /\ phase[i] \in {"handling", "putting"}
              /\ Abandon(i)
              /\ Finish(i, 504, Null, "cold")
              /\ config' = [config EXCEPT ![i] = Null]
              /\ UNCHANGED <<clock, env, sender, ids, bucket>>

StrayLands(o) == /\ bucket' = Stored(o)
                 /\ stray' = stray \ {o}
                 /\ UNCHANGED <<clock, env, sender, response, ids, lambda>>

StrayDropped(o) == /\ stray' = stray \ {o}
                   /\ UNCHANGED <<clock, env, sender, response, ids, lambda, bucket>>

-----------------------------------------------------------------------------

Init == /\ clock = FirstTick
        /\ env \in Environment
        /\ message = [r \in Request |-> Null]
        /\ delivery = [r \in Request |-> "unsent"]
        /\ response = [r \in Request |-> Null]
        /\ eventId = [r \in Request |-> 0]
        /\ lastId = 0
        /\ phase = [i \in Instance |-> "cold"]
        /\ config = [i \in Instance |-> Null]
        /\ job = [i \in Instance |-> Null]
        /\ put = [i \in Instance |-> Null]
        /\ bucket = {}
        /\ stray = {}

(* One step of the invocation running in environment i.                    *)
Invocation(i) ==
    \/ InitFailed(i) \/ MissingSignature(i) \/ InvalidSignature(i)
    \/ InvalidPayload(i) \/ ParquetFails(i) \/ StartPut(i)
    \/ PutSucceeds(i) \/ RetryPut(i) \/ PutFails(i) \/ TimeOut(i)

Network ==
    \/ \E r \in Request : Lose(r) \/ \E m \in Message : Send(r, m)
    \/ \E o \in stray : StrayLands(o) \/ StrayDropped(o)

Next ==
    \/ Tick
    \/ \E e \in Environment : Deploy(e)
    \/ Network
    \/ \E i \in Instance :
         \/ ColdStart(i) \/ Recycle(i)
         \/ \E r \in Request : Accept(i, r)
         \/ Invocation(i)
         \/ PutLands(i) \/ GatewayTimeout(i)

Spec == Init /\ [][Next]_vars

(***************************************************************************)
(* A running invocation takes a step or is killed by the 30 s timeout of   *)
(* the function (infra/aws/main.tf).  Nothing is assumed of S3, of the     *)
(* network or of the sender.                                               *)
(***************************************************************************)
FairSpec == Spec /\ \A i \in Instance : WF_vars(Invocation(i))

-----------------------------------------------------------------------------
(* Properties                                                              *)

(***************************************************************************)
(* A 200 response names a key that the bucket holds, and what is under it  *)
(* was made from this request's body (success_response after the awaited   *)
(* PutObject, handler.rs:76-89), also when attempts failed, landed late or *)
(* another environment wrote in between.                                   *)
(***************************************************************************)
AcknowledgedIsStored ==
    \A r \in Request :
        response[r] # Null /\ response[r].status = 200 =>
            \E o \in bucket : /\ o.key = response[r].key
                              /\ o.event.raw_payload = message[r].body

(* The objects that requests have caused, in the bucket or on the way.     *)
InFlight == {put[i].object : i \in {j \in Instance : phase[j] = "putting"}}
Written == bucket \cup stray \cup InFlight

(***************************************************************************)
(* Every object has one request behind it that was signed with a           *)
(* configured secret over exactly the body the object keeps, and one       *)
(* request has at most one object, however often its PUT was attempted:    *)
(* nothing unverified reaches the bucket (handler.rs:50-52) and retries    *)
(* make no duplicates (handler.rs:67-74).                                  *)
(***************************************************************************)
Origin(o) == {r \in Request : eventId[r] = o.key.event_id}

WellSigned(m) ==
    /\ m.signature # Null
    /\ m.signature.body = m.body
    /\ \E e \in Environment : Usable(e) /\ m.signature.key = e.secret

StoredIsGenuine ==
    \A o \in Written :
        \E r \in Origin(o) : /\ Origin(o) = {r}
                             /\ WellSigned(message[r])
                             /\ message[r].body = o.event.raw_payload

(***************************************************************************)
(* A request answered 401 or 400 leaves no object and never will: no PUT   *)
(* of it is under way (the early returns of handler.rs:44-58 come before   *)
(* the PUT).  An answer of 500 or 504 promises nothing of the kind.        *)
(***************************************************************************)
RejectedIsNeverStored ==
    \A r \in Request :
        response[r] # Null /\ response[r].status \in {400, 401} =>
            \A o \in Written : o.key.event_id # eventId[r]

(***************************************************************************)
(* The partition an object lies in is the one queries look for it in: the  *)
(* UTC+9 day that its own received_at falls in, even when the PUT lands    *)
(* after midnight, and the escaped form of the names in its own columns    *)
(* (s3_key.rs:3-36).  Event ids are not shared (handler.rs:67).            *)
(***************************************************************************)
StartOfJstDay(day) == day * TicksPerDay - JstOffset

PartitionAgrees ==
    \A o \in Written :
        /\ StartOfJstDay(o.key.dt) <= o.event.received_at
        /\ o.event.received_at < StartOfJstDay(o.key.dt + 1)
        /\ o.event.api # Null => o.key.api = Escape[o.event.api]
        /\ o.event.api = Null => o.key.api = Escape[Unknown]
        /\ \A p \in Written : o.key.event_id = p.key.event_id => o = p

(***************************************************************************)
(* No PUT ever changes or removes an object that is there: the bucket is   *)
(* append-only, although PutObject overwrites, because a key is used by    *)
(* one request and for one content.                                        *)
(***************************************************************************)
BucketOnlyGrows == [][bucket \subseteq bucket']_bucket

(***************************************************************************)
(* An accepted request is answered: the attempts at a PUT are bounded and  *)
(* every path of the handler ends in a response.                           *)
(***************************************************************************)
Answered ==
    \A r \in Request : delivery[r] = "accepted" ~> response[r] # Null

-----------------------------------------------------------------------------
(***************************************************************************)
(* The inductive invariant behind the safety properties.                   *)
(***************************************************************************)
Busy(i) == Handling(i) \/ Putting(i)

(* r has no answer yet, except one from an impatient API Gateway.          *)
Open(r) == response[r] = Null \/ response[r].status = 504

(* A running invocation serves an accepted request that is still open and  *)
(* that nobody else serves.                                                *)
JobInv ==
    \A i \in Instance :
        /\ phase[i] # "cold" => config[i] \in Environment
        /\ Busy(i) => /\ job[i] \in Request
                      /\ delivery[job[i]] = "accepted"
                      /\ Open(job[i])
                      /\ \A j \in Instance : Busy(j) /\ job[j] = job[i] => j = i
        /\ Handling(i) => eventId[job[i]] = 0
        /\ Putting(i) => put[i] \in Put

(* What a request can have at each stage of its way, and that event ids    *)
(* are unique.                                                             *)
RequestInv ==
    \A r \in Request :
        /\ delivery[r] # "unsent" => message[r] \in Message
        /\ delivery[r] # "accepted" => response[r] = Null /\ eventId[r] = 0
        /\ eventId[r] <= lastId
        /\ \A s \in Request : eventId[r] = eventId[s] /\ eventId[r] # 0 => r = s
        /\ response[r] # Null /\ response[r].status \in {400, 401} => eventId[r] = 0

(* o was made by the invocation of r.                                      *)
MadeFor(o, r) == /\ eventId[r] = o.key.event_id
                 /\ WellSigned(message[r])
                 /\ message[r].body = o.event.raw_payload

WellPlaced(o) == o.key = BuildS3Key(o.event.service, o.event.api, o.event.received_at,
                                    o.key.event_id)

WriteInv ==
    /\ \A o \in Written : WellPlaced(o) /\ \E r \in Request : MadeFor(o, r)
    /\ \A o, p \in Written : o.key.event_id = p.key.event_id => o = p
    /\ \A i \in Instance :
         Putting(i) => /\ MadeFor(put[i].object, job[i])
                       /\ put[i].landed => put[i].object \in bucket
    /\ \A r \in Request :
         response[r] # Null /\ response[r].status = 200 =>
             \E o \in bucket : o.key = response[r].key /\ MadeFor(o, r)

Structure == TypeOK /\ JobInv /\ RequestInv

IInv == Structure /\ WriteInv

-----------------------------------------------------------------------------
(***************************************************************************)
(* The function implements the event log: a request is recorded once its   *)
(* object is in the bucket.                                                *)
(***************************************************************************)
Recorded == {r \in Request : \E o \in bucket : o.key.event_id = eventId[r]}

ReplyTo(r) ==
    IF response[r] = Null THEN "none"
    ELSE IF response[r].status = 200 THEN "stored"
    ELSE IF response[r].status \in {400, 401} THEN "rejected"
    ELSE "failed"

Log == INSTANCE EventLog WITH recorded <- Recorded, reply <- [r \in Request |-> ReplyTo(r)]

LogSpec == Log!LogSpec

=============================================================================
