------------------------------ MODULE OneShot ------------------------------
(***************************************************************************)
(* src/oneshot: one bounded invocation of an agent (Run) and the probe of  *)
(* a model (Probe).  The guards of boundaries.go stand between the runner  *)
(* of the ADK and the model and tools of the caller, which may fail, panic *)
(* and answer anything.  The model is the Chat adapter of                  *)
(* ChatCompletions, with recovery of malformed calls, or a model.LLM of    *)
(* the caller, which may yield several responses to one request.           *)
(*                                                                         *)
(* Outside src/: the runner executes the calls of every response it sees,  *)
(* answers a call of an unknown tool itself, sends all answers of one      *)
(* response together, and asks the model again unless the last event is    *)
(* final.  An error of the caller is what context errors it matches.  The  *)
(* text of a response is the number of its bytes.                          *)
(***************************************************************************)
EXTENDS ChatCompletions

CONSTANTS
  ProviderResponses,          (* what the endpoint of the Chat adapter may answer *)
  CallerResponses,            (* what a model.LLM of the caller may yield *)
  Tools,                      (* the names of Request.Tools *)
  LongRunning,                (* those of them that answer later *)
  MaxModelCalls, MaxToolCallsPerResponse, MaxReturnedTextBytes,
  MaxContents,                (* bound: how long a model goes on yielding responses *)
  Faults                      (* what may fail besides model and tools *)

(* Only the Chat adapter can mark a call as malformed: the mark is of an   *)
(* internal package.                                                       *)
ASSUME OneShotAssumption ==
  /\ {MaxModelCalls, MaxToolCallsPerResponse, MaxReturnedTextBytes, MaxContents} \subseteq Nat \ {0}
  /\ LongRunning \subseteq Tools
  /\ Faults \subseteq {"name", "create", "delete"}
  /\ ProviderResponses \subseteq [id : Names, choices : Seq(Choice)]
  /\ CallerResponses \subseteq [error : Names, parts : Seq(Part), failures : {{}}, finish : Names,
                                partial : BOOLEAN, malformed : {{}}]

VARIABLES
  request,      (* which operation, on which model, with which policy *)
  pc, ctx, session, contents,
  batch,        (* the calls of the response that the runner works on *)
  tasks,        (* how far each of them is *)
  last,         (* the last event of the current model call *)
  statistics, failure, responses, result, found, probed,
  malformed,    (* history: the calls of batch whose arguments do not decode *)
  executed,     (* history: the calls that a guarded tool has answered, in their order *)
  incidents     (* history: the failures in the order in which they happened *)

control == <<request, pc, ctx, session>>
work == <<contents, batch, tasks, last, found, probed>>
record == <<statistics, failure, responses, result>>
history == <<malformed, executed, incidents>>
vars == <<control, work, record, history>>

Probing == request.op = "probe"
CallLimit == IF Probing THEN 1 ELSE MaxToolCallsPerResponse
ModelLimit == IF Probing THEN 1 ELSE MaxModelCalls

Init ==
  /\ request \in [op : {"run", "probe"}, chat : BOOLEAN, parallel : BOOLEAN]
  /\ pc = "start" /\ ctx = "live" /\ session = "none"
  /\ contents = <<>> /\ batch = <<>> /\ tasks = <<>> /\ last = "none"
  /\ statistics = [modelCalls |-> 0, toolCalls |-> 0, completed |-> {}, toolFailures |-> {}]
  /\ failure = NoError /\ responses = [text |-> 0, callText |-> 0]
  /\ result = [text |-> 0, toolResults |-> <<>>, codes |-> <<>>]
  /\ found = FALSE /\ probed = <<>> /\ malformed = {} /\ executed = <<>> /\ incidents = <<>>

-----------------------------------------------------------------------------
(* Helpers.                                                                *)

(* failureRecorder: the first failure stays.                               *)
Recorded_Bug(code) == IF code = NoError THEN failure ELSE code
Recorded(code) == IF failure = NoError THEN code ELSE failure

(* executionError: a cancellation counts only if the context has ended     *)
(* that way and the cause matches it.                                      *)
ExecutionCode(matches) == IF ctx \in matches THEN "canceled" ELSE "execution_failed"

(* Every return of Run after the session exists goes through its deletion. *)
Leave(code, text) ==
  /\ pc' = IF Probing THEN "done" ELSE "cleanup"
  /\ result' = [result EXCEPT !.codes = IF code = NoError THEN @ ELSE Append(@, code), !.text = text]

(* The run ends with an error: a recorded failure explains it better.      *)
Stop(code, text) == Leave(IF failure' # NoError THEN failure' ELSE code, text)

TextBytes(parts) ==
  LET said == Elements(parts, {i \in DOMAIN parts : parts[i].form = "text" /\ ~parts[i].thought})
  IN FoldLeft(LAMBDA sum, part : sum + part.bytes, 0, said)
CallsIn(parts) == {i \in DOMAIN parts : parts[i].form = "call"}
Calls(parts) == Elements(parts, CallsIn(parts))
Forged(parts) ==
  LET answers == Elements(parts, {i \in DOMAIN parts : parts[i].form = "response"})
  IN [i \in DOMAIN answers |-> answers[i].id]

(* boundedText and responseRecorder.record                                 *)
Bounded(bytes, limit) == IF bytes > limit THEN limit ELSE bytes
RecordedText(r) ==
  LET value == Bounded(TextBytes(r.parts),
                       IF r.partial THEN MaxReturnedTextBytes - responses.callText ELSE MaxReturnedTextBytes)
      call == IF r.partial THEN responses.callText + value ELSE value
  IN [text |-> IF call # 0 THEN call ELSE responses.text, callText |-> call]
Overflows(r) ==
  TextBytes(r.parts) > IF r.partial THEN MaxReturnedTextBytes - responses.callText ELSE MaxReturnedTextBytes

(* normalizeFunctionCallIDs: the first use of an ID keeps it, any other    *)
(* call gets the next number that is free.                                 *)
Numbered(n) == <<"oneshot", Empty, n>>
FreeNumbers(parts, s) ==
  {k \in s.next..(s.next + 2 * Len(parts)) : Numbered(k) \notin {parts[i].id : i \in CallsIn(parts)} \cup s.used}
Assign(parts, s, part) ==
  IF part.form # "call" THEN [s EXCEPT !.parts = Append(@, part)]
  ELSE IF part.id # NoID /\ part.id \notin s.used
  THEN [s EXCEPT !.parts = Append(@, part), !.used = @ \cup {part.id}]
  ELSE LET n == Min(FreeNumbers(parts, s))
       IN [parts |-> Append(s.parts, [part EXCEPT !.id = Numbered(n)]),
           used |-> s.used \cup {Numbered(n)}, next |-> n + 1]
normalizeFunctionCallIDs(parts) ==
  FoldLeft(LAMBDA s, part : Assign(parts, s, part), [parts |-> <<>>, used |-> {}, next |-> 1], parts).parts

-----------------------------------------------------------------------------
(* Run up to the first request; Probe needs no session.                    *)

Start ==
  /\ pc = "start"
  /\ \/ /\ "name" \in Faults
        /\ pc' = "done" /\ result' = [result EXCEPT !.codes = <<"model_panic">>]
        /\ UNCHANGED <<session, contents>>
     \/ /\ Probing /\ ctx # "live"
        /\ pc' = "done" /\ result' = [result EXCEPT !.codes = <<"canceled">>]
        /\ UNCHANGED <<session, contents>>
     \/ /\ "create" \in Faults /\ ~Probing
        /\ \E matches \in {{}, {ctx}} :
             result' = [result EXCEPT !.codes = <<IF ctx = "live" THEN "execution_failed"
                                                  ELSE ExecutionCode(matches)>>]
        /\ pc' = "done" /\ UNCHANGED <<session, contents>>
     \/ /\ ~Probing \/ ctx = "live"
        /\ pc' = "call" /\ contents' = <<Content("user", <<Text(1)>>)>>
        /\ session' = IF Probing THEN "none" ELSE "live"
        /\ UNCHANGED result
  /\ UNCHANGED <<request, ctx, batch, tasks, last, found, probed, statistics, failure, responses, history>>

(* GenerateContent: a recorded failure ends the run, the calls are         *)
(* counted, and what is left of earlier malformed calls is forgotten.      *)
clearToolFailures == {}
GenerateContent ==
  /\ pc = "call"
  /\ IF failure # NoError \/ statistics.modelCalls >= ModelLimit
     THEN /\ failure' = Recorded("model_call_limit")
          /\ incidents' = IF failure = NoError THEN Append(incidents, "model_call_limit") ELSE incidents
          /\ Stop(NoError, responses.text)
          /\ UNCHANGED <<statistics, responses, last>>
     ELSE /\ statistics' = [statistics EXCEPT !.modelCalls = @ + 1, !.toolFailures = clearToolFailures]
          /\ responses' = [responses EXCEPT !.callText = 0]
          /\ last' = "none"
          /\ UNCHANGED <<failure, incidents>>
          /\ IF request.chat /\ Converted(contents).error # NoError
             THEN Stop("execution_failed", responses.text)
             ELSE pc' = "model" /\ UNCHANGED result
  /\ UNCHANGED <<request, ctx, session, contents, batch, tasks, found, probed, malformed, executed>>

-----------------------------------------------------------------------------
(* The model answers: the callback of generate.                            *)

FromProvider(r) ==
  LET c == ConvertedResponse(r, TRUE) IN
  [error |-> c.error, parts |-> c.parts, failures |-> c.failures, finish |-> c.finish, partial |-> FALSE,
   malformed |-> IF c.error # NoError THEN {}
                 ELSE {i \in DOMAIN r.choices[1].calls : ~Decodes(r.choices[1].calls[i].args)}]
Responses == IF request.chat THEN {FromProvider(r) : r \in ProviderResponses} ELSE CallerResponses

(* The limits, in their order of precedence.                               *)
Crowded_Bug(r) == Len(Calls(r.parts)) > CallLimit + 1
Crowded(r) == Len(Calls(r.parts)) > CallLimit
LimitFailure(r) ==
  CASE r.finish = "MAX_TOKENS" -> "output_truncated"
    [] r.finish # "MAX_TOKENS" /\ Overflows(r) -> "text_truncated"
    [] r.finish # "MAX_TOKENS" /\ ~Overflows(r) /\ Crowded(r) -> "tool_call_limit"
    [] OTHER -> NoError

(* The event that the runner makes of a response, and the calls in it.     *)
Deferring(parts) == \E i \in DOMAIN Calls(parts) : Calls(parts)[i].name \in LongRunning
EventOf(r) ==
  CASE r.partial -> "partial"
    [] ~r.partial /\ Calls(r.parts) # <<>> -> IF Deferring(r.parts) THEN "final" ELSE "calls"
    [] ~r.partial /\ Calls(r.parts) = <<>> -> IF Forged(r.parts) # <<>> THEN "forged" ELSE "final"

(* appendToolResults: what a content answers counts as the result of a     *)
(* tool if a tool has completed that call, and only once.                  *)
Collected(completed, ids) ==
  Elements(ids, {k \in DOMAIN ids : ids[k] \in completed /\ \A j \in 1..(k - 1) : ids[j] # ids[k]})

(* clearCompletedToolCalls before every response: a completed call whose   *)
(* answer never came does not vouch for an answer that the model forges.   *)
Vouched_Bug == statistics.completed
Vouched == {}

(* A response of a caller's model may have no content at all.              *)
HasContent(r) == request.chat \/ r.parts # <<>>

Respond(r) ==
  LET parts == normalizeFunctionCallIDs(r.parts)
      code == LimitFailure(r) IN
  /\ responses' = RecordedText(r)
  /\ statistics' = [statistics EXCEPT !.completed = {}, !.toolFailures = @ \cup r.failures]
  /\ failure' = Recorded(code)
  /\ incidents' = IF code = NoError THEN incidents ELSE Append(incidents, code)
  /\ IF code # NoError
     THEN Stop(code, RecordedText(r).text) /\ UNCHANGED <<work, malformed>>
     ELSE /\ last' = EventOf(r)
          /\ batch' = IF r.partial \/ Probing THEN <<>> ELSE Calls(parts)
          /\ tasks' = [i \in DOMAIN batch' |-> "waiting"]
          /\ contents' = IF r.partial \/ Probing \/ parts = <<>> THEN contents ELSE Append(contents, Content("model", parts))
          /\ malformed' = IF batch' = <<>> THEN {} ELSE r.malformed
          /\ found' = (found \/ (last' = "final" /\ HasContent(r)))
          /\ probed' = IF Probing THEN Append(probed, [r EXCEPT !.parts = parts]) ELSE probed
          /\ result' = IF Probing THEN result
                       ELSE [result EXCEPT !.text = IF last' = "final" /\ HasContent(r) THEN TextBytes(parts) ELSE @,
                              !.toolResults = @ \o Collected(Vouched, Forged(parts))]
          /\ pc' = IF batch' = <<>> THEN "model" ELSE "tools"

(* One response, if the stream of the model may still have one.            *)
MayYield == pc = "model" /\ ~(request.chat /\ last # "none") /\ Len(contents) < MaxContents
            /\ Len(probed) < 2
ModelAnswers ==
  /\ MayYield
  /\ \E r \in Responses :
       IF r.error # NoError
       THEN /\ statistics' = [statistics EXCEPT !.completed = {}]
            /\ UNCHANGED <<work, failure, responses, malformed, incidents>>
            /\ Stop("execution_failed", responses.text)
       ELSE Respond(r)
  /\ UNCHANGED <<request, ctx, session, executed>>

(* The model panics, in its error too, or fails (untrustedCallerError),    *)
(* after a last response that came with the error.                         *)
ModelFails ==
  /\ MayYield
  /\ responses' \in {responses} \cup {RecordedText(r) : r \in IF request.chat THEN {} ELSE CallerResponses}
  /\ statistics' = [statistics EXCEPT !.completed = {}]
  /\ \/ /\ failure' = Recorded("model_panic") /\ incidents' = Append(incidents, "model_panic")
        /\ Stop("model_panic", responses'.text)
     \/ /\ UNCHANGED <<failure, incidents>>
        /\ \E matches \in SUBSET {"canceled", "deadline"} : Stop(ExecutionCode(matches), responses'.text)
  /\ UNCHANGED <<request, ctx, session, work, malformed, executed>>

(* validProbeCall, probeActionableParts and the checks of Probe in turn.   *)
ProbeCode(r) ==
  LET actionable == Elements(r.parts, {i \in DOMAIN r.parts : ~r.parts[i].thought}) IN
  IF r.partial \/ r.finish # "STOP" THEN "execution_failed"
  ELSE IF actionable = <<>> THEN "no_final_response"
  ELSE IF r.failures # {} THEN "execution_failed"
  ELSE IF Len(actionable) = 1 /\ actionable[1].form = "call" /\ actionable[1].name = "plasmid_ping"
          /\ actionable[1].args = "ping" THEN NoError
  ELSE "tool_calling_unsupported"

ProbeEnds ==
  /\ pc = "model" /\ Probing
  /\ UNCHANGED <<request, ctx, session, work, statistics, failure, responses, history>>
  /\ Stop(CASE probed = <<>> -> "no_final_response"
            [] Len(probed) = 1 -> ProbeCode(probed[1])
            [] OTHER -> "tool_calling_unsupported", responses.text)

(* The stream of one request is over; the runner ends or asks again.       *)
StreamEnds ==
  /\ pc = "model" /\ ~Probing /\ (request.chat => last # "none")
  /\ UNCHANGED <<request, ctx, session, work, statistics, failure, responses, history>>
  /\ CASE last \in {"calls", "answers"} -> pc' = "call" /\ UNCHANGED result
       [] last \in {"partial", "forged"} -> Stop("execution_failed", responses.text)
       [] last \in {"none", "final"} ->
            IF failure # NoError THEN Leave(failure, responses.text)
            ELSE IF found THEN Leave(NoError, result.text)
            ELSE Leave("no_final_response", responses.text)

-----------------------------------------------------------------------------
(* The tools of one response.                                              *)

Over(i) == tasks[i] \notin {"waiting", "running"}
MayStart(i) == tasks[i] = "waiting" /\ (request.parallel \/ \A j \in 1..(i - 1) : Over(j))
Task(i, state) == tasks' = [tasks EXCEPT ![i] = state]

(* consumeToolFailure before the target: a malformed call is answered and  *)
(* its target never runs.                                                  *)
ToolStarts(i) ==
  /\ pc = "tools" /\ MayStart(i)
  /\ CASE batch[i].name \notin Tools -> Task(i, "unknown") /\ UNCHANGED statistics
       [] batch[i].name \in Tools /\ batch[i].id \in statistics.toolFailures ->
            /\ Task(i, "rejected")
            /\ statistics' = [statistics EXCEPT !.toolCalls = @ + 1, !.toolFailures = @ \ {batch[i].id},
                                !.completed = @ \cup {batch[i].id}]
       [] OTHER -> /\ Task(i, "running")
                   /\ statistics' = [statistics EXCEPT !.toolCalls = @ + 1]
  /\ UNCHANGED <<control, contents, batch, last, found, probed, failure, responses, result, history>>

(* A target answers, with an error too, answers later, or panics.          *)
ToolReturns(i) ==
  /\ pc = "tools" /\ tasks[i] = "running"
  /\ \/ /\ Task(i, IF batch[i].name \in LongRunning THEN "deferred" ELSE "done")
        /\ UNCHANGED <<failure, incidents>>
     \/ /\ Task(i, "panicked")
        /\ failure' = Recorded("tool_panic") /\ incidents' = Append(incidents, "tool_panic")
  /\ statistics' = [statistics EXCEPT !.completed = @ \cup {batch[i].id}]
  /\ UNCHANGED <<control, contents, batch, last, found, probed, responses, result, malformed, executed>>

(* The answers become one event and one content, in the order of the calls.*)
ToolsAnswer ==
  LET answers == Ordered(Len(batch), {i \in DOMAIN batch : tasks[i] # "deferred"})
      ran == Ordered(Len(batch), {i \in DOMAIN batch : tasks[i] \notin {"deferred", "unknown"}})
      IDsOf(calls) == [k \in DOMAIN calls |-> batch[calls[k]].id] IN
  /\ pc = "tools" /\ \A i \in DOMAIN batch : Over(i)
  /\ pc' = "model" /\ batch' = <<>> /\ tasks' = <<>> /\ malformed' = {}
  /\ executed' = executed \o IDsOf(ran)
  /\ IF answers = <<>>
     THEN UNCHANGED <<contents, last, statistics, result>>
     ELSE /\ last' = "answers"
          /\ contents' = Append(contents, Content("user",
               [k \in DOMAIN answers |-> Response(batch[answers[k]].id, batch[answers[k]].name, 1)]))
          /\ result' = [result EXCEPT !.toolResults = @ \o Collected(statistics.completed, IDsOf(answers))]
          /\ statistics' = [statistics EXCEPT !.completed = {}]
  /\ UNCHANGED <<request, ctx, session, found, probed, failure, responses, incidents>>

-----------------------------------------------------------------------------
(* The end of a run, and of its context at any time.                       *)

DeleteFails == "delete" \in Faults
Cleanup ==
  /\ pc = "cleanup" /\ pc' = "done"
  /\ \/ /\ session' = "deleted" /\ UNCHANGED result
     \/ /\ DeleteFails
        /\ result' = [result EXCEPT !.codes = Append(@, "cleanup_failed")]
        /\ UNCHANGED session
  /\ UNCHANGED <<request, ctx, work, statistics, failure, responses, history>>

ContextEnds ==
  /\ pc # "done" /\ ctx = "live" /\ ctx' \in {"canceled", "deadline"}
  /\ UNCHANGED <<request, pc, session, work, record, history>>

Next ==
  \/ Start \/ GenerateContent \/ ModelAnswers \/ ModelFails \/ ProbeEnds \/ StreamEnds
  \/ \E i \in DOMAIN batch : ToolStarts(i) \/ ToolReturns(i)
  \/ ToolsAnswer \/ Cleanup \/ ContextEnds
  \/ pc = "done" /\ UNCHANGED vars
Spec == Init /\ [][Next]_vars

-----------------------------------------------------------------------------
(* Properties.                                                             *)

Codes == {"canceled", "model_panic", "tool_panic", "output_truncated", "text_truncated", "model_call_limit",
          "tool_call_limit", "tool_calling_unsupported", "no_final_response", "execution_failed",
          "cleanup_failed"}

(* The types of the variables; the texts and the calls of a response never *)
(* exceed the limits of the request.                                       *)
TypeOK ==
  /\ request \in [op : {"run", "probe"}, chat : BOOLEAN, parallel : BOOLEAN]
  /\ pc \in {"start", "call", "model", "tools", "cleanup", "done"}
  /\ ctx \in {"live", "canceled", "deadline"} /\ session \in {"none", "live", "deleted"}
  /\ Len(batch) <= MaxToolCallsPerResponse /\ DOMAIN tasks = DOMAIN batch
  /\ last \in {"none", "partial", "calls", "answers", "forged", "final"}
  /\ statistics.modelCalls \in 0..MaxModelCalls /\ statistics.toolCalls \in Nat
  /\ failure \in Codes \cup {NoError} /\ found \in BOOLEAN
  /\ responses.text <= MaxReturnedTextBytes /\ responses.callText <= MaxReturnedTextBytes
  /\ result.text <= MaxReturnedTextBytes /\ ToSet(result.codes) \subseteq Codes

(* src/README.md, "One-shot execution": a malformed call is answered       *)
(* without invoking its target, and no other call is; ToolResults are the  *)
(* completed answers of tools in the order of the model's calls, each      *)
(* once, whatever IDs the model reuses, leaves out or forges answers for.  *)
ResultsAreExact ==
  /\ result.toolResults = executed
  /\ \A i \in DOMAIN batch :
       tasks[i] \notin {"waiting", "unknown"} => (tasks[i] = "rejected" <=> i \in malformed)

(* The error that Run and Probe return is the first thing that went wrong, *)
(* and success means that nothing did; the session is gone, whatever       *)
(* happened to the context, unless the error says so.                      *)
OutcomeIsHonest ==
  pc = "done" =>
    /\ incidents # <<>> => result.codes # <<>> /\ result.codes[1] = incidents[1]
    /\ result.codes = <<>> /\ ~Probing => found
    /\ session = "live" <=> "cleanup_failed" \in ToSet(result.codes)
=============================================================================
