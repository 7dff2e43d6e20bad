--------------------------- MODULE AdviceRequest ---------------------------
(* One call of `advise` (src/cli/advice_cmd.rs): the gates before a provider *)
(* is contacted, the capacity of the host, the request over a loopback       *)
(* socket (src/advice/provider), the thread that samples the host's memory   *)
(* beside it (src/advice/resources.rs), and what becomes of the answer.      *)
(*                                                                           *)
(* Time is counted in ticks of PROVIDER_IO_POLL_INTERVAL (250 ms) from the   *)
(* start of the request. Memory is "low" when either limit of the guard is   *)
(* passed: too little available, or too much growth of swap. Not modelled:   *)
(* the text of requests, endpoints and messages.                             *)
EXTENDS Naturals

CONSTANTS Answers,      \* what a provider may answer: records, see Whole
          Calls,        \* the argument lists tried: records, see Allowed
          Heartbeat,    \* RESOURCE_HEARTBEAT_TIMEOUT, in ticks
          Timeout,      \* --timeout-seconds, in ticks
          Maximum,      \* max_response_bytes, in pieces of a body
          None          \* no answer yet

VARIABLES pc,           \* the step of the command that runs next
          call,         \* its arguments
          low,          \* the memory of the host is outside the guard's limits
          lowFor,       \* ... for so many ticks of the request
          now,          \* ticks since the request began
          waiting,      \* the request is blocked in a read or a write
          hand,         \* what the sampler has measured and not yet published
          seen,         \* RuntimeResourceState
          heartbeat,    \* heartbeat_ms, on the clock of the thread
          lag,          \* ticks between the request's clock and the thread's
          unsent,       \* parts of the request still to write
          answer,       \* what the provider is sending
          got,          \* pieces of its body read so far
          stored        \* the artifact written, if any

vars == <<pc, call, low, lowFor, now, waiting, hand, seen, heartbeat, lag,
          unsent, answer, got, stored>>

memory == <<low, lowFor>>
sampler == <<hand, seen, heartbeat, lag>>
request == <<now, waiting, unsent, answer, got>>

Requesting == pc \in {"write", "read"}

Init == /\ pc = "idle" /\ call = None
        /\ low = FALSE /\ lowFor = 0
        /\ now = 0 /\ waiting = FALSE /\ unsent = 2 /\ answer = None /\ got = 0
        /\ hand = "none" /\ seen = "none" /\ heartbeat = 0 /\ lag = 0
        /\ stored = None

-----------------------------------------------------------------------------
(* Before the provider.                                                      *)

(* The checked-in release gate defers inference: only the benchmark harness  *)
(* may infer, with the feature built in or with the mock provider.           *)
Allowed(c) == c.infer => c.public \/ (c.benchmark /\ (c.feature \/ c.mock))

Start(c) ==
    /\ pc = "idle"
    /\ call' = c
    /\ pc' = IF Allowed(c) /\ c.window THEN "report" ELSE "refused"
    /\ UNCHANGED <<memory, sampler, request, stored>>

(* The published report must be of the present tree, the policies must       *)
(* resolve and the context must fit its budget. Without --infer the context  *)
(* is the result, and its cached copy the last effect.                       *)
BuildContext(ok) ==
    /\ pc = "report"
    /\ pc' = CASE ~ok -> "refused"
               [] ok /\ call.infer -> "configure"
               [] OTHER -> "context"
    /\ UNCHANGED <<call, memory, sampler, request, stored>>

(* preflight_resources: the host has the memory for the model now.           *)
Capacity == ~low

(* inference_provider_config: every value explicit; a real provider also     *)
(* needs consent and the capacity.                                           *)
Configure ==
    /\ pc = "configure"
    /\ pc' = IF call.explicit /\ (call.mock \/ (call.consent /\ Capacity))
             THEN IF call.mock THEN "validate" ELSE "probe"
             ELSE "refused"
    /\ IF call.mock
       THEN \E a \in Answers : answer' = a /\ got' = a.size
       ELSE UNCHANGED <<answer, got>>
    /\ UNCHANGED <<call, memory, sampler, now, waiting, unsent, stored>>

Probe(listening) ==
    /\ pc = "probe"
    /\ pc' = IF listening THEN "connect" ELSE "refused"
    /\ UNCHANGED <<call, memory, sampler, request, stored>>

(* post: the connection first, then the monitor, then the request's clock.   *)
Connect(listening) ==
    /\ pc = "connect"
    /\ pc' = IF listening THEN "write" ELSE "refused"
    /\ lag' \in IF listening THEN {0, 1} ELSE {lag}
    /\ UNCHANGED <<call, memory, hand, seen, heartbeat, request, stored>>

-----------------------------------------------------------------------------
(* The sampler and the host.                                                 *)

Press == /\ pc \in {"configure", "probe", "connect"} \/ Requesting
         /\ low' = ~low /\ lowFor' = 0
         /\ UNCHANGED <<pc, call, sampler, request, stored>>

(* Available memory and swap are read, by commands that may fail or hang.    *)
Measure(outcome) ==
    /\ Requesting /\ hand = "none" /\ now >= lag
    /\ seen = "none" \/ now > heartbeat + lag
    /\ hand' = IF outcome = "failed" THEN "failed"
               ELSE IF low THEN "low" ELSE "ok"
    /\ UNCHANGED <<pc, call, memory, seen, heartbeat, lag, request, stored>>

Publish ==
    /\ Requesting /\ hand # "none"
    /\ seen' = hand /\ heartbeat' = now - lag /\ hand' = "none"
    /\ UNCHANGED <<pc, call, memory, lag, request, stored>>

-----------------------------------------------------------------------------
(* The request.                                                              *)

Stalled == now > Heartbeat /\ now - heartbeat > Heartbeat

(* RuntimeResourceMonitor::enforce, called before every read and write.      *)
(* Mutant: a sampler that hangs is not noticed.                              *)
EnforceLastSample == seen \notin {"failed", "low"}
Enforce == ~Stalled /\ seen \notin {"failed", "low"}

(* One round of write_with_deadline or of the read loop begins.              *)
Round == Requesting /\ ~waiting

Abort == /\ Round /\ (~Enforce \/ now >= Timeout)
         /\ pc' = "refused"
         /\ UNCHANGED <<call, memory, sampler, request, stored>>

Proceeds == Round /\ Enforce /\ now < Timeout

(* A read or a write that gets nowhere returns after one tick.               *)
Block == /\ Proceeds
         /\ waiting' = TRUE
         /\ UNCHANGED <<pc, call, memory, sampler, now, unsent, answer, got, stored>>

Tick == /\ Requesting /\ waiting
        /\ waiting' = FALSE /\ now' = now + 1
        /\ lowFor' = IF low THEN lowFor + 1 ELSE 0
        /\ UNCHANGED <<pc, call, low, sampler, unsent, answer, got, stored>>

Write == /\ Proceeds /\ pc = "write"
         /\ unsent' = unsent - 1
         /\ pc' = IF unsent' = 0 THEN "read" ELSE "write"
         /\ UNCHANGED <<call, memory, sampler, now, waiting, answer, got, stored>>

(* framed_response_complete, of n pieces of a body: a stated length is       *)
(* reached, or the last chunk has come; without either only the end of the   *)
(* connection ends the answer.                                               *)
Complete(a, n) == \/ a.framing = "length" /\ n >= a.declared
                  \/ a.framing = "chunked" /\ n = a.sent /\ a.terminated

TooLarge(a, n) == n > Maximum \/ (a.framing = "length" /\ a.declared > Maximum)

(* decode_response: the framing holds exactly, the status is a success and   *)
(* the type is JSON.                                                         *)
Decoded(a, n) == /\ a.framing = "length" => n = a.declared
                 /\ a.framing = "chunked" => n = a.sent /\ a.terminated
                 /\ a.ok

(* The text of the envelope is JSON only as a whole.                         *)
Parsed(a, n) == n = a.size

(* Read(k, a): k more pieces of the answer a arrive; 0 is the end of the     *)
(* connection, before or after the provider had sent all.                    *)
Read(k, a) ==
    /\ Proceeds /\ pc = "read"
    /\ answer \in {None, a}
    /\ got + k <= a.sent
    /\ answer' = a /\ got' = got + k
    /\ pc' = CASE k = 0 /\ answer = None -> "refused"
               [] k > 0 /\ TooLarge(a, got') -> "refused"
               [] k > 0 /\ ~TooLarge(a, got') /\ ~Complete(a, got') -> "read"
               [] OTHER -> IF Decoded(a, got') /\ Parsed(a, got')
                           THEN "validate" ELSE "refused"
    /\ UNCHANGED <<call, memory, sampler, now, waiting, unsent, stored>>

-----------------------------------------------------------------------------
(* After the provider.                                                       *)

(* validate_runtime_model, validate_*_completion and validate_response. The  *)
(* file of the mock provider holds the response itself, with no envelope.    *)
Valid(a) == (call.mock \/ (a.model = "requested" /\ a.finish = "stop")) /\ a.content

(* The input is cached and the artifacts are written (see AdviceArtifacts)   *)
(* unless the call is ephemeral.                                             *)
Finish ==
    /\ pc = "validate"
    /\ pc' = IF Valid(answer) THEN "done" ELSE "refused"
    /\ stored' = IF Valid(answer) /\ ~call.ephemeral THEN [of |-> answer, read |-> got]
                                                     ELSE stored
    /\ UNCHANGED <<call, memory, sampler, request>>

Next == \/ \E c \in Calls : Start(c)
        \/ \E ok \in BOOLEAN : BuildContext(ok) \/ Probe(ok) \/ Connect(ok)
        \/ Configure \/ Press \/ Publish \/ Abort \/ Block \/ Tick \/ Write \/ Finish
        \/ \E outcome \in {"measured", "failed"} : Measure(outcome)
        \/ \E k \in 0 .. 2, a \in Answers : Read(k, a)

Spec == Init /\ [][Next]_vars

-----------------------------------------------------------------------------
(* A request never goes on for long on a host whose memory is gone, whatever *)
(* the sampler does: it may be slow, fail, hang inside a command, or publish *)
(* what it measured long ago. Between two published samples at most one      *)
(* heartbeat timeout passes, and a sample may be one more timeout old when   *)
(* the request still goes by it. The request also keeps its own deadline.    *)
ReactionBounded ==
    Requesting => /\ low => lowFor <= 2 * Heartbeat + 2
                  /\ now <= Timeout

(* What is kept as advice is the whole of an answer the requested model      *)
(* finished, whatever framing carried it: a body cut short where the server  *)
(* states no length, or states too small a one, never passes for an answer.  *)
OnlyWholeStored ==
    stored # None =>
        /\ stored.read = stored.of.size
        /\ ~call.mock => stored.of.finish = "stop" /\ stored.of.ok /\ call.consent
=============================================================================
