--------------------------- MODULE TriggerServer ---------------------------
(***************************************************************************)
(* roos-trigger (server.rs, auth.rs, webhook.rs): the HTTP server that     *)
(* takes triggers for agents and tells what became of a run.  A request    *)
(* passes require_bearer and, for /trigger, require_webhook_signature and  *)
(* the Json extractor on its way to a handler.  The middlewares and the    *)
(* handlers wait for nothing but the request's body, so a step takes a     *)
(* request from one such await to the next; at each of them the client may *)
(* be gone.                                                                *)
(***************************************************************************)
EXTENDS Naturals, FiniteSets

CONSTANTS
    Reqs,       \* HTTP requests; a trigger's run_id is named after it
    Heads       \* what requests may look like

VARIABLES
    token,      \* does the server require a bearer token?
    secret,     \* has it a webhook secret?
    agents,     \* the registered agents
    head,       \* head[q]: what the request q asks for
    phase,      \* phase[q]: where it is
    reply,      \* reply[q]: the status of its response, 0 if there is none yet
    runs        \* the run_ids that AppState::runs has a record of

triggerVars == <<token, secret, agents, head, phase, reply, runs>>

\* A request: where it goes, the run_id in its path, what its Authorization header
\* holds, its X-Hub-Signature-256 and X-ROOS-Signature headers ("none", "bare": the
\* right HMAC in hex, "prefixed": the same after "sha256=", "wrong"), whether it is
\* JSON by its content type, and its body.
RequestHead(route, run, bearer, hub, roos, json, body) ==
    [route |-> route, run |-> run, bearer |-> bearer, hub |-> hub, roos |-> roos,
     json |-> json, body |-> body]
NoHead == RequestHead("none", "none", "none", "none", "none", FALSE, "none")

Phases == {"idle", "body", "reply", "done", "gone"}

TriggerTypeOK ==
    /\ token \in BOOLEAN /\ secret \in BOOLEAN
    /\ agents \in {0, 1}
    /\ head \in [Reqs -> Heads \cup {NoHead}]
    /\ phase \in [Reqs -> Phases]
    /\ reply \in [Reqs -> {0, 200, 202, 400, 401, 404, 415, 422}]
    /\ \A q \in Reqs : phase[q] \in {"idle", "body"} => reply[q] = 0
    /\ runs \subseteq Reqs

TriggerInit ==
    /\ token = FALSE /\ secret = FALSE /\ agents = 0
    /\ head = [q \in Reqs |-> NoHead]
    /\ phase = [q \in Reqs |-> "idle"]
    /\ reply = [q \in Reqs |-> 0]
    /\ runs = {}

-----------------------------------------------------------------------------

\* new, with_token, with_webhook_secret and register_agent, before the server listens.
Configure ==
    /\ agents = 0
    /\ token' \in BOOLEAN /\ secret' \in BOOLEAN /\ agents' = 1
    /\ UNCHANGED <<head, phase, reply, runs>>

\* The layers of router().  An Extension that a later .layer adds is outside of the
\* middleware, which therefore sees it.
SecretSeenNever == FALSE
SecretSeen == secret

TokenSeen == token
BearerOk(h) == TokenSeen => h.bearer = "right"

\* A GitHub header wins over a generic one, even if only the other would be right.
Signed(h) == h.hub # "none" \/ h.roos # "none"
Verifies(h) == IF h.hub # "none" THEN h.hub = "prefixed" ELSE h.roos = "bare"

Respond(q, status) ==
    /\ phase' = [phase EXCEPT ![q] = "reply"]
    /\ reply' = [reply EXCEPT ![q] = status]

RunStatus(h) ==
    IF h.run = "malformed" THEN 400 ELSE IF h.run \in runs THEN 200 ELSE 404

\* A request's head has come: it is answered, or its body is waited for.
Arrive(q, h) ==
    /\ phase[q] = "idle"
    /\ head' = [head EXCEPT ![q] = h]
    /\ \/ h.route = "health" /\ Respond(q, 200)
       \/ h.route # "health" /\ ~ BearerOk(h) /\ Respond(q, 401)
       \/ h.route = "agents" /\ BearerOk(h) /\ Respond(q, 200)
       \/ h.route = "runs" /\ BearerOk(h) /\ Respond(q, RunStatus(h))
       \/ /\ h.route = "trigger" /\ BearerOk(h)
          /\ IF SecretSeen /\ ~ Signed(h) THEN Respond(q, 401)
             ELSE IF ~ SecretSeen /\ ~ h.json THEN Respond(q, 415)
             ELSE /\ phase' = [phase EXCEPT ![q] = "body"]
                  /\ UNCHANGED reply
    /\ UNCHANGED <<token, secret, agents, runs>>

\* The body is there: verified, extracted and, by trigger_handler, recorded.
JsonStatus(h) ==
    IF ~ h.json THEN 415
    ELSE CASE h.body = "trigger" -> 202
           [] h.body = "other"   -> 422
           [] OTHER              -> 400

RecordedInACopy(q) == UNCHANGED runs
Recorded(q) == runs' = runs \cup {q}

BodyComes(q) ==
    /\ phase[q] = "body"
    /\ \/ SecretSeen /\ ~ Verifies(head[q]) /\ Respond(q, 401) /\ UNCHANGED runs
       \/ /\ SecretSeen => Verifies(head[q])
          /\ Respond(q, JsonStatus(head[q]))
          /\ IF JsonStatus(head[q]) = 202 THEN Recorded(q) ELSE UNCHANGED runs
    /\ UNCHANGED <<token, secret, agents, head>>

\* The body breaks off: to_bytes, or the extractor, fails.
BodyFails(q) ==
    /\ phase[q] = "body"
    /\ Respond(q, 400)
    /\ UNCHANGED <<token, secret, agents, head, runs>>

Delivered(q) ==
    /\ phase[q] = "reply"
    /\ phase' = [phase EXCEPT ![q] = "done"]
    /\ UNCHANGED <<token, secret, agents, head, reply, runs>>

\* The connection is lost: what waits on it is dropped.
ClientLeaves(q) ==
    /\ phase[q] \in {"body", "reply"}
    /\ phase' = [phase EXCEPT ![q] = "gone"]
    /\ UNCHANGED <<token, secret, agents, head, reply, runs>>

InFlight(q) == phase[q] \in {"body", "reply"}

RequestStep(q) == BodyComes(q) \/ BodyFails(q) \/ Delivered(q) \/ ClientLeaves(q)

TriggerNext ==
    /\ agents = 1
    /\ \E q \in Reqs : (\E h \in Heads : Arrive(q, h)) \/ RequestStep(q)

TriggerSpec == TriggerInit /\ [][Configure \/ TriggerNext]_triggerVars

-----------------------------------------------------------------------------
(* Properties *)

\* Who may do what, whatever the order of the layers in router(): with a token set, only
\* /health answers a request without it; with a secret set, a run is recorded only if the
\* signature that counts is right; and neither a request that is refused nor one that is
\* not a trigger leaves a record (server.rs:148-176, webhook.rs:34-82, auth.rs:17-34).
Entitled(q) ==
    /\ token => head[q].bearer = "right"
    /\ secret => IF head[q].hub # "none" THEN head[q].hub = "prefixed"
                 ELSE head[q].roos = "bare"

OnlyEntitledServed ==
    \A q \in Reqs :
        /\ reply[q] = 200 /\ head[q].route # "health" /\ token
              => head[q].bearer = "right"
        /\ reply[q] = 202 => head[q].route = "trigger" /\ Entitled(q)
        /\ q \in runs => reply[q] = 202

\* A run_id that was given out can be looked up: once a trigger was accepted, no later
\* GET /runs/:id for it finds nothing, whether or not its client is still there to read
\* the answer (server.rs:78-108).
AcceptedRunsFound ==
    [][\A q \in Reqs :
          /\ head'[q].route = "runs" /\ reply[q] = 0 /\ reply'[q] = 404
          => \A p \in Reqs : head'[q].run = p => reply[p] # 202]_triggerVars

=============================================================================
