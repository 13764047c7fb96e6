---------------------------- MODULE Serve_proofs ----------------------------
(***************************************************************************)
(* The trigger server and `roos serve` around it, for any set of requests, *)
(* of any shape: only entitled requests are served, a run_id that was      *)
(* given out is found, and the process exits gracefully however the four   *)
(* parties interleave.  What serve does to the trigger server is what      *)
(* TriggerServer allows, so that TriggerServer's theorems hold of it.      *)
(*                                                                         *)
(* OnlyEntitledServed is not inductive: a request is checked when its head *)
(* comes and served when its body has come.  BodiesAwaited says what the   *)
(* first check leaves for the second, NotConfigured that nobody is served  *)
(* before the token and the secret are set, and AcceptedRecorded, which    *)
(* AcceptedRunsFound rests on, that no accepted run is missing.            *)
(*                                                                         *)
(* GracefulExit speaks of the last state only.  Orderly says at each of    *)
(* main's steps what has become of the others: nobody is served before the *)
(* server listens, the drain begins only when shutdown is asked for, and   *)
(* no request is under way when main waits for the tick loop.              *)
(***************************************************************************)
EXTENDS Serve, TLAPS

NotConfigured == agents = 0 => \A q \in Reqs : phase[q] = "idle"

BodiesAwaited ==
    \A q \in Reqs : phase[q] = "body" =>
        head[q].route = "trigger" /\ (token => head[q].bearer = "right")

AcceptedRecorded == \A q \in Reqs : reply[q] = 202 => q \in runs

ServerIInv ==
    /\ TriggerTypeOK /\ NotConfigured /\ BodiesAwaited
    /\ OnlyEntitledServed /\ AcceptedRecorded

-----------------------------------------------------------------------------

LEMMA ServerBegins == TriggerInit => ServerIInv
<1> SUFFICES ASSUME TriggerInit PROVE ServerIInv
  OBVIOUS
<1>1. token \in BOOLEAN /\ secret \in BOOLEAN
  BY Zenon DEF TriggerInit
<1>2. /\ agents \in {0, 1} /\ head \in [Reqs -> Heads \cup {NoHead}]
      /\ phase \in [Reqs -> Phases]
      /\ reply \in [Reqs -> {0, 200, 202, 400, 401, 404, 415, 422}]
      /\ runs \subseteq Reqs
      /\ \A q \in Reqs : phase[q] = "idle" /\ reply[q] = 0 /\ q \notin runs
  BY DEF TriggerInit, Phases
<1> QED
  BY <1>1, <1>2 DEF ServerIInv, TriggerTypeOK, NotConfigured, BodiesAwaited,
                    OnlyEntitledServed, AcceptedRecorded

LEMMA ConfigureKeeps ==
    ASSUME ServerIInv, Configure PROVE ServerIInv'
<1>1. \A q \in Reqs : phase[q] = "idle" /\ reply[q] = 0 /\ q \notin runs
  BY DEF ServerIInv, TriggerTypeOK, NotConfigured, OnlyEntitledServed, Configure
<1> QED
  BY <1>1 DEF ServerIInv, TriggerTypeOK, NotConfigured, BodiesAwaited, OnlyEntitledServed,
              AcceptedRecorded, Configure

\* A request that has no answer when it comes gets none of another's.
LEMMA ArriveKeeps ==
    ASSUME ServerIInv, NEW q \in Reqs, NEW h \in Heads, agents = 1, Arrive(q, h)
    PROVE  ServerIInv'
<1>1. /\ phase[q] = "idle" /\ reply[q] = 0 /\ q \notin runs
      /\ head' = [head EXCEPT ![q] = h]
      /\ UNCHANGED <<token, secret, agents, runs>>
  BY DEF ServerIInv, TriggerTypeOK, OnlyEntitledServed, Arrive
<1>2. \/ /\ phase' = [phase EXCEPT ![q] = "body"] /\ reply' = reply
         /\ h.route = "trigger" /\ (token => h.bearer = "right")
      \/ \E status \in {200, 400, 401, 404, 415} :
            /\ Respond(q, status)
            /\ status = 200 /\ h.route # "health" /\ token => h.bearer = "right"
  BY DEF Arrive, RunStatus, BearerOk, TokenSeen, Respond
<1>3. CASE /\ phase' = [phase EXCEPT ![q] = "body"] /\ reply' = reply
           /\ h.route = "trigger" /\ (token => h.bearer = "right")
  BY <1>1, <1>3 DEF ServerIInv, TriggerTypeOK, Phases, NotConfigured, BodiesAwaited,
     OnlyEntitledServed, Entitled, AcceptedRecorded
<1>4. ASSUME NEW status \in {200, 400, 401, 404, 415}, Respond(q, status),
             status = 200 /\ h.route # "health" /\ token => h.bearer = "right"
      PROVE  ServerIInv'
  BY <1>1, <1>4 DEF ServerIInv, TriggerTypeOK, Phases, NotConfigured, BodiesAwaited,
     OnlyEntitledServed, Entitled, AcceptedRecorded, Respond
<1> QED
  BY <1>2, <1>3, <1>4

LEMMA BodyComesKeeps ==
    ASSUME ServerIInv, NEW q \in Reqs, agents = 1, BodyComes(q) PROVE ServerIInv'
<1>1. /\ phase[q] = "body" /\ reply[q] = 0
      /\ head[q].route = "trigger" /\ (token => head[q].bearer = "right")
      /\ UNCHANGED <<token, secret, agents, head>>
  BY DEF ServerIInv, TriggerTypeOK, BodiesAwaited, BodyComes
<1>2. \/ \E status \in {400, 401, 415, 422} : Respond(q, status) /\ UNCHANGED runs
      \/ /\ Respond(q, 202) /\ runs' = runs \cup {q}
         /\ secret => Verifies(head[q])
  BY DEF BodyComes, JsonStatus, Recorded, SecretSeen
<1>3. CASE \E status \in {400, 401, 415, 422} : Respond(q, status) /\ UNCHANGED runs
  BY <1>1, <1>3 DEF ServerIInv, TriggerTypeOK, Phases, NotConfigured, BodiesAwaited,
     OnlyEntitledServed, Entitled, AcceptedRecorded, Respond
<1>4. CASE /\ Respond(q, 202) /\ runs' = runs \cup {q}
           /\ secret => Verifies(head[q])
  <2>1. Entitled(q)' /\ head'[q].route = "trigger"
    BY <1>1, <1>4 DEF Entitled, Verifies
  <2> QED
    BY <1>1, <1>4, <2>1 DEF ServerIInv, TriggerTypeOK, Phases, NotConfigured,
       BodiesAwaited, OnlyEntitledServed, Entitled, AcceptedRecorded, Respond
<1> QED
  BY <1>2, <1>3, <1>4

LEMMA OtherStepsKeep ==
    ASSUME ServerIInv, NEW q \in Reqs, agents = 1,
           BodyFails(q) \/ Delivered(q) \/ ClientLeaves(q)
    PROVE  ServerIInv'
<1>1. CASE BodyFails(q)
  BY <1>1 DEF ServerIInv, TriggerTypeOK, Phases, NotConfigured, BodiesAwaited,
     OnlyEntitledServed, Entitled, AcceptedRecorded, BodyFails, Respond
<1>2. CASE Delivered(q)
  BY <1>2 DEF ServerIInv, TriggerTypeOK, Phases, NotConfigured, BodiesAwaited,
     OnlyEntitledServed, Entitled, AcceptedRecorded, Delivered
<1>3. CASE ClientLeaves(q)
  BY <1>3 DEF ServerIInv, TriggerTypeOK, Phases, NotConfigured, BodiesAwaited,
     OnlyEntitledServed, Entitled, AcceptedRecorded, ClientLeaves
<1> QED
  BY <1>1, <1>2, <1>3

LEMMA ServerNextKeeps == ServerIInv /\ [Configure \/ TriggerNext]_triggerVars => ServerIInv'
<1> SUFFICES ASSUME ServerIInv, [Configure \/ TriggerNext]_triggerVars PROVE ServerIInv'
  OBVIOUS
<1>1. CASE Configure
  BY <1>1, ConfigureKeeps
<1>2. CASE TriggerNext
  BY <1>2, ArriveKeeps, BodyComesKeeps, OtherStepsKeep DEF TriggerNext, RequestStep
<1>3. CASE UNCHANGED triggerVars
  BY <1>3 DEF ServerIInv, TriggerTypeOK, NotConfigured, BodiesAwaited, OnlyEntitledServed,
     Entitled, AcceptedRecorded, triggerVars
<1> QED
  BY <1>1, <1>2, <1>3

-----------------------------------------------------------------------------

\* The invariant of the server holds in every state, for any requests.
THEOREM ServerInvariant == TriggerSpec => []ServerIInv
  BY ServerBegins, ServerNextKeeps, PTL DEF TriggerSpec

\* Whatever comes and in whatever order: with a token set, only /health is answered
\* without it; a run is recorded only for a trigger with the token and the signature that
\* the server was set up to require (server.rs:144-171).
THEOREM EntitlementHolds == TriggerSpec => []OnlyEntitledServed
<1>1. ServerIInv => OnlyEntitledServed
  BY DEF ServerIInv
<1> QED
  BY <1>1, ServerInvariant, PTL

\* A 404 answers only a run_id that was never given out (server.rs:98-106).
LEMMA NotFoundIsUnknown ==
    ASSUME ServerIInv, NEW q \in Reqs, NEW p \in Reqs, TriggerNext,
           reply[q] = 0, reply'[q] = 404, head'[q].run = p
    PROVE  reply[p] # 202
<1>1. PICK o \in Reqs : (\E h \in Heads : Arrive(o, h)) \/ RequestStep(o)
  BY DEF TriggerNext
<1>2. ASSUME RequestStep(o) PROVE FALSE
  BY <1>1, <1>2 DEF ServerIInv, TriggerTypeOK, RequestStep, BodyComes, BodyFails, Delivered,
     ClientLeaves, Respond, JsonStatus
<1>3. PICK h \in Heads : Arrive(o, h)
  BY <1>1, <1>2
<1>4. o = q
  BY <1>3 DEF ServerIInv, TriggerTypeOK, Arrive, Respond
<1>5. p \notin runs
  BY <1>3, <1>4 DEF ServerIInv, TriggerTypeOK, Arrive, Respond, RunStatus
<1> QED
  BY <1>5 DEF ServerIInv, AcceptedRecorded

\* Every accepted run is found by every later lookup (server.rs:74-106).
THEOREM AcceptedRunsAreFound == TriggerSpec => AcceptedRunsFound
<1>1. ServerIInv /\ [Configure \/ TriggerNext]_triggerVars
      => [\A q \in Reqs :
            /\ head'[q].route = "runs" /\ reply[q] = 0 /\ reply'[q] = 404
            => \A p \in Reqs : head'[q].run = p => reply[p] # 202]_triggerVars
  <2> SUFFICES ASSUME ServerIInv, [Configure \/ TriggerNext]_triggerVars,
                      triggerVars' # triggerVars,
                      NEW q \in Reqs, reply[q] = 0, reply'[q] = 404,
                      NEW p \in Reqs, head'[q].run = p
               PROVE  reply[p] # 202
    OBVIOUS
  <2>1. TriggerNext
    BY DEF Configure
  <2> QED
    BY <2>1, NotFoundIsUnknown
<1> QED
  BY <1>1, ServerInvariant, PTL DEF TriggerSpec, AcceptedRunsFound

-----------------------------------------------------------------------------
(* `roos serve` *)

AllVars == <<triggerVars, serveVars>>

ServeTypeOK ==
    /\ main \in Mains /\ listener \in Listeners /\ ticks \in Ticks
    /\ shutdown \in {"unset", "sent", "dropped"}
    /\ stop \in {"unset", "sent", "dropped"}

Orderly ==
    /\ main \in {"off", "opened"} => agents = 0
    /\ Running /\ agents = 0 => main = "opened"
    /\ main \in {"draining", "joining", "ok"} => shutdown # "unset"
    /\ main \in {"joining", "ok"} => \A q \in Reqs : ~ InFlight(q)
    /\ main \in {"joining", "ok"} => stop # "unset"
    /\ main = "ok" => ticks = "over"

ServeIInv == ServeTypeOK /\ TriggerTypeOK /\ NotConfigured /\ Orderly

-----------------------------------------------------------------------------

LEMMA ServeInitEstablishes == TriggerInit /\ ServeInit => ServeIInv
<1> SUFFICES ASSUME TriggerInit, ServeInit PROVE ServeIInv
  OBVIOUS
<1>1. TriggerTypeOK /\ NotConfigured
  BY ServerBegins DEF ServerIInv
<1>2. ServeTypeOK /\ Orderly
  BY DEF ServeInit, TriggerInit, ServeTypeOK, Mains, Listeners, Ticks, Orderly, Running
<1> QED
  BY <1>1, <1>2 DEF ServeIInv

\* The steps that are none of the server's leave its variables alone.
LEMMA ApartKeeps ==
    ASSUME TriggerTypeOK, NotConfigured, UNCHANGED triggerVars
    PROVE  TriggerTypeOK' /\ NotConfigured'
  BY DEF TriggerTypeOK, NotConfigured, triggerVars

LEMMA SpawnConfigures ==
    ASSUME ServeIInv, Spawn
    PROVE  Configure
  BY DEF ServeIInv, TriggerTypeOK, Orderly, Spawn, Configure

\* Requests are taken and dealt with only by a server that is configured.
LEMMA RequestsAreServers ==
    ASSUME ServeIInv, NEW q \in Reqs, Connect(q) \/ Exchange(q)
    PROVE  TriggerNext
<1>1. agents = 1
  <2>1. CASE Connect(q)
    BY <2>1 DEF ServeIInv, TriggerTypeOK, Orderly, Running, Connect
  <2>2. CASE Exchange(q)
    BY <2>2 DEF ServeIInv, TriggerTypeOK, NotConfigured, Exchange, RequestStep,
       BodyComes, BodyFails, Delivered, ClientLeaves
  <2> QED
    BY <2>1, <2>2
<1> QED
  BY <1>1 DEF Connect, Exchange, TriggerNext

\* Every step of `serve` is one of the trigger server's or none to it.
LEMMA StepsAreServers ==
    ASSUME ServeIInv, [ServeNext]_AllVars
    PROVE  [Configure \/ TriggerNext]_triggerVars
<1>1. CASE Spawn
  BY <1>1, SpawnConfigures
<1>2. ASSUME NEW q \in Reqs, Connect(q) \/ Exchange(q)
      PROVE  TriggerNext
  BY <1>2, RequestsAreServers
<1>3. CASE Open \/ Bind \/ Drain \/ ServerEnds \/ Join \/ Tick \/ TicksStop
           \/ Listen \/ Interrupt \/ HangUp
  BY <1>3 DEF Open, Bind, Drain, ServerEnds, Join, Tick, TicksStop, Listen, Interrupt,
     HangUp
<1>4. CASE UNCHANGED AllVars
  BY <1>4 DEF AllVars
<1> QED
  BY <1>1, <1>2, <1>3, <1>4 DEF ServeNext, ServeStep, MainStep

-----------------------------------------------------------------------------
(* Each party keeps Orderly *)

LEMMA MainKeeps ==
    ASSUME ServeIInv, Open \/ MainStep
    PROVE  ServeTypeOK' /\ Orderly'
<1> USE DEF ServeIInv, ServeTypeOK, Orderly, Mains, Listeners, Ticks, Running, InFlight
<1>1. CASE Open
  BY <1>1 DEF Open, triggerVars
<1>2. CASE Spawn
  <2>1. main' = "spawned" /\ agents' = 1
    BY <1>2 DEF Spawn
  <2>2. ServeTypeOK'
    BY <1>2, <2>1 DEF Spawn
  <2> QED
    BY <2>1, <2>2
<1>3. CASE Bind
  BY <1>3 DEF Bind, triggerVars
<1>4. CASE Drain
  BY <1>4 DEF Drain, triggerVars
<1>5. CASE ServerEnds
  BY <1>5 DEF ServerEnds, Drained, SendStop, triggerVars
<1>6. CASE Join
  BY <1>6 DEF Join, triggerVars
<1> QED
  BY <1>1, <1>2, <1>3, <1>4, <1>5, <1>6 DEF MainStep

LEMMA OthersKeep ==
    ASSUME ServeIInv, Tick \/ TicksStop \/ Listen \/ Interrupt \/ HangUp
    PROVE  ServeTypeOK' /\ Orderly'
<1> USE DEF ServeIInv, ServeTypeOK, Orderly, Mains, Listeners, Ticks, Running, InFlight
<1>1. CASE Tick
  BY <1>1 DEF Tick, triggerVars
<1>2. CASE TicksStop
  BY <1>2 DEF TicksStop, triggerVars
<1>3. CASE Listen
  BY <1>3 DEF Listen, triggerVars
<1>4. CASE Interrupt
  BY <1>4 DEF Interrupt, Killed, triggerVars
<1>5. CASE HangUp
  BY <1>5 DEF HangUp, Killed, triggerVars
<1> QED
  BY <1>1, <1>2, <1>3, <1>4, <1>5

\* A request is under way only if it was when main began to wait, or came before.
LEMMA RequestsKeep ==
    ASSUME ServeIInv, NEW q \in Reqs, Connect(q) \/ Exchange(q)
    PROVE  ServeTypeOK' /\ Orderly'
<1>1. UNCHANGED <<agents, serveVars>>
  BY DEF Connect, Exchange, Arrive, RequestStep, BodyComes, BodyFails, Delivered,
     ClientLeaves
<1>2. CASE Connect(q)
  BY <1>1, <1>2 DEF ServeIInv, ServeTypeOK, Orderly, Running, Connect, serveVars
<1>3. CASE Exchange(q)
  <2>1. InFlight(q) /\ Running
    BY <1>3 DEF Exchange, RequestStep, BodyComes, BodyFails, Delivered, ClientLeaves,
       InFlight
  <2>2. main \notin {"joining", "ok"}
    BY <2>1 DEF ServeIInv, Orderly
  <2> QED
    BY <1>1, <2>2 DEF ServeIInv, ServeTypeOK, Orderly, Running, serveVars
<1> QED
  BY <1>2, <1>3

LEMMA ServerKeeps ==
    ASSUME TriggerTypeOK, NotConfigured, [Configure \/ TriggerNext]_triggerVars
    PROVE  TriggerTypeOK' /\ NotConfigured'
<1>1. CASE UNCHANGED triggerVars
  BY <1>1, ApartKeeps
<1>2. CASE Configure
  BY <1>2 DEF TriggerTypeOK, NotConfigured, Configure
<1>3. CASE TriggerNext
  <2> PICK q \in Reqs : (\E h \in Heads : Arrive(q, h)) \/ RequestStep(q)
    BY <1>3 DEF TriggerNext
  <2> USE DEF TriggerTypeOK, NotConfigured, Phases, Respond
  <2>1. ASSUME NEW h \in Heads, Arrive(q, h) PROVE TriggerTypeOK' /\ NotConfigured'
    BY <1>3, <2>1 DEF Arrive, RunStatus, TriggerNext
  <2>2. CASE BodyComes(q)
    BY <1>3, <2>2 DEF BodyComes, JsonStatus, Recorded, TriggerNext
  <2>3. CASE BodyFails(q) \/ Delivered(q) \/ ClientLeaves(q)
    BY <1>3, <2>3 DEF BodyFails, Delivered, ClientLeaves, TriggerNext
  <2> QED
    BY <2>1, <2>2, <2>3 DEF RequestStep
<1> QED
  BY <1>1, <1>2, <1>3

LEMMA ServeNextKeeps == ServeIInv /\ [ServeNext]_AllVars => ServeIInv'
<1> SUFFICES ASSUME ServeIInv, [ServeNext]_AllVars PROVE ServeIInv'
  OBVIOUS
<1>1. TriggerTypeOK' /\ NotConfigured'
  BY StepsAreServers, ServerKeeps DEF ServeIInv
<1>2. CASE UNCHANGED AllVars
  BY <1>1, <1>2 DEF ServeIInv, ServeTypeOK, Orderly, Running, InFlight, AllVars,
     triggerVars, serveVars
<1>3. CASE ServeNext
  BY <1>1, <1>3, MainKeeps, OthersKeep, RequestsKeep
     DEF ServeNext, ServeStep, ServeIInv
<1> QED
  BY <1>2, <1>3

-----------------------------------------------------------------------------

\* The invariant of `roos serve` holds in every state, for any requests.
THEOREM ServeInvariant == ServeSpec => []ServeIInv
  BY ServeInitEstablishes, ServeNextKeeps, PTL DEF ServeSpec, AllVars

\* serve::run returns Ok only when it was asked to, with no request cut off and the tick
\* loop ended, whatever the order in which signals, ticks and requests come
\* (serve.rs:69-78).
THEOREM ServeExitsGracefully == ServeSpec => []GracefulExit
<1>1. ServeIInv => GracefulExit
  BY DEF ServeIInv, Orderly, GracefulExit
<1> QED
  BY <1>1, ServeInvariant, PTL

\* `roos serve` is a trigger server: each of its steps is one of TriggerSpec's or leaves
\* the server as it is (serve.rs:39-51, server.rs:178-190).
THEOREM ServeImplementsTriggerServer == ServeSpec => TriggerSpec
<1>1. ServeIInv /\ [ServeNext]_AllVars => [Configure \/ TriggerNext]_triggerVars
  BY StepsAreServers
<1> QED
  BY <1>1, ServeInvariant, PTL DEF ServeSpec, TriggerSpec, AllVars

\* So a run that `roos serve` accepted is found by every later lookup (server.rs:74-106).
THEOREM ServeFindsAcceptedRuns == ServeSpec => AcceptedRunsFound
  BY ServeImplementsTriggerServer, AcceptedRunsAreFound, PTL

=============================================================================
