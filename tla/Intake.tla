--------------------------------- MODULE Intake ---------------------------------
(***************************************************************************)
(* GitHub deliveries to one deployment (WebhooksService.handlePush): the        *)
(* signature and the gates, the claim of the delivery in Redis, and the deploy.  *)
(* GitHub sends a delivery again when someone asks it to.  A Redis command waits   *)
(* for the connection and is sent again when it broke before the answer came       *)
(* (maxRetriesPerRequest: null in redis.module.ts); an error reply rejects it.       *)
(***************************************************************************)
EXTENDS Naturals

CONSTANTS
  Deliveries, \* X-GitHub-Delivery ids
  Requests,   \* requests that may be under way at the same time
  MaxSends,   \* bound: requests GitHub sends
  MaxFaults   \* bound: failures, and changes of the secret or the gate

VARIABLES
  secret,   \* webhook_secrets row: 0 none, otherwise which secret
  signs,    \* the secret GitHub signs with
  auto,     \* deployments.auto_deploy
  claimed,  \* deliveries with a key in Redis
  redis,    \* "up", "down", or "refusing" every write
  request,  \* requests under way
  deploys,  \* deploys queued for each delivery
  excused,  \* deliveries whose key Redis lost, let expire or never took
  broken,   \* deliveries whose claim was not followed by a deploy that was queued
  refused,  \* deliveries answered "duplicate delivery"
  sends, faults

vars == <<secret, signs, auto, claimed, redis, request, deploys, excused, broken, refused, sends, faults>>

None == "none"
Idle == [at |-> "idle", id |-> None]

TypeOK ==
  /\ secret \in 0..2 /\ signs \in 0..2 /\ auto \in BOOLEAN
  /\ claimed \subseteq Deliveries /\ redis \in {"up", "down", "refusing"}
  /\ request \in [Requests -> [at : {"idle", "claim", "resend", "deploy"}, id : Deliveries \cup {None}]]
  /\ deploys \in [Deliveries -> 0..MaxSends]
  /\ excused \subseteq Deliveries /\ broken \subseteq Deliveries /\ refused \subseteq Deliveries
  /\ sends \in 0..MaxSends /\ faults \in 0..MaxFaults

Init ==
  /\ secret = 1 /\ signs = 1 /\ auto = TRUE
  /\ claimed = {} /\ redis = "up" /\ request = [q \in Requests |-> Idle]
  /\ deploys = [d \in Deliveries |-> 0]
  /\ excused = {} /\ broken = {} /\ refused = {} /\ sends = 0 /\ faults = 0

Goes(q, at) == request' = [request EXCEPT ![q].at = at]
Ends(q) == request' = [request EXCEPT ![q] = Idle]

(* The signature, the event, the deployment's gate and the branch. *)
LetsIn == secret # 0 /\ signs = secret /\ auto

Receive(q, d) ==
  /\ request[q] = Idle /\ sends < MaxSends /\ sends' = sends + 1
  /\ request' = IF LetsIn THEN [request EXCEPT ![q] = [at |-> "claim", id |-> d]] ELSE request
  /\ UNCHANGED <<secret, signs, auto, claimed, redis, deploys, excused, broken, refused, faults>>

(* Mutant: the key is set whether it was there or not. *)
AlwaysFirst(d) == TRUE

(* SET NX tells the first claim of a delivery. *)
First(d) == d \notin claimed

Claim(q) ==
  LET d == request[q].id IN
  /\ request[q].at \in {"claim", "resend"} /\ redis = "up"
  /\ IF First(d)
     THEN claimed' = claimed \cup {d} /\ Goes(q, "deploy") /\ UNCHANGED refused
     ELSE Ends(q) /\ refused' = refused \cup {d} /\ UNCHANGED claimed
  /\ UNCHANGED <<secret, signs, auto, redis, deploys, excused, broken, sends, faults>>

(* The connection breaks after the command and before the answer: the command will be sent again. *)
ClaimLosesAnswer(q) ==
  LET d == request[q].id IN
  /\ request[q].at = "claim" /\ redis = "up" /\ faults < MaxFaults /\ faults' = faults + 1
  /\ claimed' = claimed \cup {d} /\ redis' = "down" /\ Goes(q, "resend")
  /\ broken' = IF First(d) THEN broken \cup {d} ELSE broken
  /\ UNCHANGED <<secret, signs, auto, deploys, excused, refused, sends>>

(* An error reply: the delivery goes through unclaimed. *)
ClaimFails(q) ==
  /\ request[q].at \in {"claim", "resend"} /\ redis = "refusing" /\ Goes(q, "deploy")
  /\ excused' = excused \cup {request[q].id}
  /\ UNCHANGED <<secret, signs, auto, claimed, redis, deploys, broken, refused, sends, faults>>

Deploy(q) ==
  LET d == request[q].id IN
  /\ request[q].at = "deploy" /\ Ends(q)
  /\ \/ deploys' = [deploys EXCEPT ![d] = @ + 1] /\ UNCHANGED <<broken, faults>>
     \/ /\ faults < MaxFaults /\ faults' = faults + 1
        /\ broken' = broken \cup {d} /\ UNCHANGED deploys
  /\ UNCHANGED <<secret, signs, auto, claimed, redis, excused, refused, sends>>

Crash ==
  /\ \E q \in Requests : request[q] # Idle
  /\ faults < MaxFaults /\ faults' = faults + 1
  /\ request' = [q \in Requests |-> Idle]
  /\ broken' = broken \cup {request[q].id : q \in {p \in Requests : request[p].at \in {"deploy", "resend"}}}
  /\ UNCHANGED <<secret, signs, auto, claimed, redis, deploys, excused, refused, sends>>

(* A day passes, or Redis comes back empty. *)
Forget(d) ==
  /\ d \in claimed /\ faults < MaxFaults /\ faults' = faults + 1
  /\ claimed' = claimed \ {d} /\ excused' = excused \cup {d}
  /\ UNCHANGED <<secret, signs, auto, redis, request, deploys, broken, refused, sends>>
RedisTurns(to) ==
  /\ redis # to /\ (to = "up" \/ faults < MaxFaults)
  /\ faults' = IF to = "up" THEN faults ELSE faults + 1
  /\ redis' = to
  /\ UNCHANGED <<secret, signs, auto, claimed, request, deploys, excused, broken, refused, sends>>

(* rotateSecret, the new secret entered at GitHub, the switch in the Webhook tab. *)
Rotate ==
  /\ secret < 2 /\ secret' = secret + 1
  /\ UNCHANGED <<signs, auto, claimed, redis, request, deploys, excused, broken, refused, sends, faults>>
Configure ==
  /\ signs # secret /\ signs' = secret
  /\ UNCHANGED <<secret, auto, claimed, redis, request, deploys, excused, broken, refused, sends, faults>>
Toggle ==
  /\ faults < MaxFaults /\ faults' = faults + 1 /\ auto' = ~auto
  /\ UNCHANGED <<secret, signs, claimed, redis, request, deploys, excused, broken, refused, sends>>

Next ==
  \/ \E q \in Requests :
       Claim(q) \/ ClaimLosesAnswer(q) \/ ClaimFails(q) \/ Deploy(q) \/ \E d \in Deliveries : Receive(q, d)
  \/ \E d \in Deliveries : Forget(d)
  \/ \E to \in {"up", "down", "refusing"} : RedisTurns(to)
  \/ Crash \/ Rotate \/ Configure \/ Toggle

Spec == Init /\ [][Next]_vars

-----------------------------------------------------------------------------
Deploying(d) == \E q \in Requests : request[q] = [at |-> "deploy", id |-> d]

(* However often a delivery is sent, and whatever overlaps, it queues one deploy, unless Redis lost its  *)
(* key, let it expire or did not take it (handlePush, claimDelivery). *)
DeployedOnce == \A d \in Deliveries \ excused : deploys[d] <= 1

(* A delivery is turned away as a duplicate only when a deploy was queued for it, or is about to be, or   *)
(* the one that should have been failed. *)
RefusedMeansDone == \A d \in refused \ broken : deploys[d] > 0 \/ Deploying(d)

(* The three, as one. *)
IntakeInv == TypeOK /\ DeployedOnce /\ RefusedMeansDone

(* "A Redis hiccup fails open - availability of the deploy path matters more than catching the rare       *)
(* replay" (webhooks.service.ts:129-130): no delivery is turned away that queued nothing.                   *)
NothingTurnedAway == \A d \in refused : deploys[d] > 0 \/ Deploying(d)

=============================================================================
