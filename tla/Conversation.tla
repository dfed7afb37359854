---------------------------- MODULE Conversation ----------------------------
(***************************************************************************)
(* The runs of one session as its model sees them: prompts, the answers    *)
(* and calls of the model, the output of the tools within the session's    *)
(* budget, and the compaction Manager (src/compaction/manager.go) that     *)
(* rewrites every request and keeps its decisions in the session's         *)
(* sidecar.  A session has one run at a time (HarnessLifecycle), so the    *)
(* callbacks of its runs never overlap; the tools of one response do.      *)
(***************************************************************************)
EXTENDS Compaction, OutputBudget

CONSTANTS Prompts,        \* the sizes of prompts and of a model's texts
          Responses,      \* the calls a model's response may hold: sequences of [name, given]
          Outputs,        \* the sizes of what a tool emits
          MaxBytes,       \* what a tool asks of the budget
          Ratios,         \* observed over estimated tokens, in percent; 0 without usage
          Faults,         \* "load", "save": what the store may fail at
          MaxContents, MaxCrashes

ASSUME ConversationAssumption ==
  /\ Prompts \subseteq Nat /\ Outputs \subseteq Nat /\ MaxBytes \in Nat /\ Ratios \subseteq Nat
  /\ Responses \subseteq Seq([name : Names, given : BOOLEAN])

VARIABLES contents,   \* the session's contents, in the store
          sidecar,    \* the decisions in its compaction.v1 sidecar
          loaded,     \* sessionState.loaded and .durable
          durable,
          request,    \* the contents of the last request, <<>> once a crash may have lost its decisions
          estimate,   \* Manager.pending, 0 for none
          phase,      \* what the run does next
          calls,      \* the calls of the last response
          crashes
vars == <<contents, sidecar, loaded, durable, request, estimate, phase, calls, crashes, budgetVars>>

NoReservation == 0
Asked0(id, name) == [id |-> id, name |-> name, stage |-> "asked", reservation |-> NoReservation, bytes |-> 0]

Init ==
  /\ contents = <<>> /\ sidecar = NoDecisions
  /\ loaded = FALSE /\ durable = NoDecisions
  /\ request = <<>> /\ estimate = 0
  /\ phase = "idle" /\ calls = <<>> /\ crashes = 0
  /\ NewBudget

Outcomes(fault) == {TRUE} \cup (IF fault \in Faults THEN {FALSE} ELSE {})

Say1(role, parts) ==
  /\ Len(contents) < MaxContents
  /\ contents' = Append(contents, [role |-> role, parts |-> parts, at |-> Len(contents) + 1])

-----------------------------------------------------------------------------
(* A run begins with the caller's prompt.                                  *)
Prompt(bytes) ==
  /\ phase = "idle" /\ phase' = "before"
  /\ Say1("user", <<Text(bytes)>>)
  /\ UNCHANGED <<sidecar, loaded, durable, request, estimate, calls, crashes, budgetVars>>

(* load: once in the life of the process, even when it fails.              *)
Decisions(readable) == IF loaded THEN durable ELSE IF readable THEN sidecar ELSE NoDecisions

(* save                                                                    *)
Save(before, after, saved) == sidecar' = IF after # before /\ saved THEN after ELSE sidecar

Rewrite(result) ==
  /\ durable' = [result.durable EXCEPT !.warned = @ \/ result.exhausted]
  /\ request' = result.contents
  /\ estimate' = IF Calibration THEN Tokens(request') ELSE 0
  /\ IF result.triggered THEN Reset ELSE UNCHANGED budgetVars
BeforeModel(readable, saved) ==
  /\ phase = "before" /\ phase' = "model"
  /\ Rewrite(ApplyPolicy(Decisions(readable), contents))
  /\ loaded' = TRUE /\ Save(Decisions(readable), durable', saved)
  /\ UNCHANGED <<contents, calls, crashes>>

(* AfterModel                                                              *)
Clamped(factor) == Most(50, Least(200, factor))
Observed(ratio) ==
  IF estimate = 0 \/ ratio = 0 THEN durable
  ELSE [durable EXCEPT !.calibration = Clamped((70 * @ + 30 * ratio) \div 100)]

AfterModel(ratio, saved) ==
  /\ phase = "model" /\ phase' = "answered"
  /\ durable' = Observed(ratio) /\ Save(durable, durable', saved)
  /\ estimate' = 0
  /\ UNCHANGED <<contents, loaded, request, calls, crashes, budgetVars>>

(* The model's answer ends the run, its calls start the tools.             *)
Answer(bytes) ==
  /\ phase = "answered" /\ phase' = "idle"
  /\ Say1("model", <<Text(bytes)>>)
  /\ UNCHANGED <<sidecar, loaded, durable, request, estimate, calls, crashes, budgetVars>>

CallID(given, i) == IF given THEN <<"given", Empty, 10 * Len(contents) + i>> ELSE NoID
CallTools(response) ==
  /\ phase = "answered" /\ phase' = "tools"
  /\ calls' = [i \in DOMAIN response |-> Asked0(CallID(response[i].given, i), response[i].name)]
  /\ Say1("model", [i \in DOMAIN response |-> Call(calls'[i].id, calls'[i].name, "object")])
  /\ UNCHANGED <<sidecar, loaded, durable, request, estimate, crashes, budgetVars>>

(* A tool reserves, runs, and settles what it emitted: its policy may add  *)
(* a marker to what the grant allows.                                      *)
Advance(i, stage, reservation, bytes) ==
  /\ calls' = [calls EXCEPT ![i].stage = stage, ![i].reservation = reservation, ![i].bytes = bytes]
  /\ UNCHANGED <<contents, sidecar, loaded, durable, request, estimate, phase, crashes>>

ReserveFor(i) ==
  /\ phase = "tools" /\ calls[i].stage = "asked"
  /\ Reserve(MaxBytes)
  /\ Advance(i, "running", IF Refused(MaxBytes) THEN NoReservation ELSE nextID', 0)

Emit(i, bytes) ==
  /\ phase = "tools" /\ calls[i].stage = "running"
  /\ Consume(calls[i].reservation, bytes)
  /\ Advance(i, "done", NoReservation, bytes)

(* The responses of a model's calls are one content.                       *)
Respond ==
  /\ phase = "tools" /\ phase' = "before"
  /\ \A i \in DOMAIN calls : calls[i].stage = "done"
  /\ Say1("user", [i \in DOMAIN calls |-> Response(calls[i].id, calls[i].name, calls[i].bytes)])
  /\ calls' = <<>>
  /\ UNCHANGED <<sidecar, loaded, durable, request, estimate, crashes, budgetVars>>

(* The run fails or is interrupted; its calls stay without a response.     *)
EndRun ==
  /\ phase \in {"answered", "tools"} /\ phase' = "idle"
  /\ \A i \in DOMAIN calls : calls[i].stage # "running"
  /\ calls' = <<>>
  /\ UNCHANGED <<contents, sidecar, loaded, durable, request, estimate, crashes, budgetVars>>

(* The process is lost, with what only its memory knows.  In the middle of *)
(* a run this is the end of the run and then a restart.                    *)
Recorded == loaded => durable = sidecar
Restart ==
  /\ phase = "idle" /\ crashes < MaxCrashes /\ crashes' = crashes + 1
  /\ loaded' = FALSE /\ durable' = NoDecisions
  /\ request' = IF Recorded THEN request ELSE <<>>
  /\ used' = 0 /\ reserved' = 0 /\ pending' = NoGrants /\ nextID' = 0
  /\ UNCHANGED <<contents, sidecar, estimate, phase, calls>>

Next ==
  \/ \E bytes \in Prompts : Prompt(bytes) \/ Answer(bytes)
  \/ \E readable \in (IF loaded THEN {TRUE} ELSE Outcomes("load")), saved \in Outcomes("save") :
       BeforeModel(readable, saved)
  \/ \E ratio \in Ratios, saved \in Outcomes("save") : AfterModel(ratio, saved)
  \/ \E response \in Responses : CallTools(response)
  \/ \E i \in DOMAIN calls : ReserveFor(i) \/ \E bytes \in Outputs : Emit(i, bytes)
  \/ Respond \/ EndRun \/ Restart

Spec == Init /\ [][Next]_vars

-----------------------------------------------------------------------------
(* What a request shows of the session.                                    *)
Kept(shown) == {shown[i].at : i \in DOMAIN shown}
Upto(shown) == shown[Len(shown)].at
Dropped(shown) == 1..Upto(shown) \ Kept(shown)
Elided(shown) == {<<shown[at[1]].at, at[2]>> : at \in {at \in Parts(shown) : PartAt(shown, at).elided}}
Original == SubSeq(contents, 1, Upto(request))

(* A content is shown as it is, but for the bodies of responses.           *)
Faithful ==
  \A i \in DOMAIN request :
    LET shown == request[i]
        told == contents[shown.at] IN
    /\ i > 1 => request[i - 1].at < shown.at
    /\ [shown EXCEPT !.parts = [j \in DOMAIN @ |-> [@[j] EXCEPT !.elided = FALSE]]] = told

(* What must stay: the first content, the recent ones, the active turn and *)
(* every turn and every body of a preserved tool.                          *)
Protected ==
  LET prompts == Starts(Original)
      active == CHOOSE i \in prompts : \A other \in prompts : other <= i
      recent == (Upto(request) - KeepRecent + 1)..Upto(request) IN
  /\ Dropped(request) \cap ({1} \cup recent \cup (active..Upto(request))) = {}
  /\ \A turn \in CompleteTurns(Original) :
       PreservedTool(Original, turn) => Dropped(request) \cap turn.first..turn.last = {}
  /\ \A at \in Elided(request) : at[1] \notin {1} \cup recent /\ PartAt(contents, at).name \notin Preserve

(* A call is shown with its response or not at all.                        *)
PairsWhole ==
  \A side, other \in Sides(Original) :
    side.key = other.key => (side.at[1] \in Dropped(request) <=> other.at[1] \in Dropped(request))

(* Every request is the session's conversation with whole turns left out   *)
(* and bodies elided, none of them protected, and it can still be told to  *)
(* the provider when the whole conversation could (README, "Deterministic  *)
(* compaction": what remains intact).                                      *)
RequestIsSound ==
  phase = "model" =>
    /\ Faithful /\ Protected /\ PairsWhole
    /\ Converted(Original).error = NoError => Converted(request).error = NoError

(* Nothing more that the policy may take away.                             *)
NothingLeft(shown) ==
  /\ ~\E at \in Candidates(shown) : Eligible(shown, at)
  /\ Droppable(shown) = {}

(* A request that reaches the trigger with the earlier decisions applied   *)
(* is brought down to the target or as far as the policy may go; any other *)
(* is left alone.                                                          *)
ReachesTarget ==
  [][phase = "before" /\ phase' = "model" =>
       LET size == Calibrated(Tokens(request'), Factor(durable')) IN
       \/ size <= Target \/ NothingLeft(request')
       \/ size < Trigger /\ durable' \in {Decisions(TRUE), Decisions(FALSE)}]_vars

(* What a request left out or elided no later one shows again, across      *)
(* restarts too unless the store failed to save or to load the decisions   *)
(* (README: they "persist in the session's versioned sidecar and reapply   *)
(* after restart").                                                        *)
DecisionsStick ==
  [][request # <<>> /\ (\E saved \in Outcomes("save") : BeforeModel(TRUE, saved)) =>
       /\ Dropped(request) \subseteq Dropped(request')
       /\ \A at \in Elided(request) : at[1] \in Dropped(request') \/ at \in Elided(request')]_vars

(* Every state is well formed; outstanding grants are those of the tools   *)
(* that run, and reserved is their sum.                                    *)
TypeOK ==
  /\ loaded \in BOOLEAN /\ phase \in {"idle", "before", "model", "answered", "tools"}
  /\ durable.calibration \in 50..200 /\ sidecar.calibration \in 50..200
  /\ IsABag(durable.elided) /\ IsABag(durable.dropped)
  /\ reserved = FoldFunction(LAMBDA grant, sum : grant + sum, 0, pending)
  /\ DOMAIN pending = {calls[i].reservation : i \in DOMAIN calls} \ {NoReservation}
=============================================================================
