-------------------------- MODULE ChatCompletions --------------------------
(***************************************************************************)
(* The Chat Completions adapter, src/openai/chat.go: what it makes of a    *)
(* conversation on its way to the provider and of a response on its way    *)
(* back.  The endpoint itself (openai.go, transport.go) either answers or  *)
(* fails.                                                                  *)
(*                                                                         *)
(* A content is a record of a role and of a sequence of parts.  An ID is a *)
(* triple of where it comes from, a name and a number, so that the digests *)
(* of different inputs are different IDs.  Texts, arguments and results    *)
(* are kept as far as the adapter tells them apart.                        *)
(***************************************************************************)
EXTENDS Positions

(* What the code writes as "": a name or an ID left out, and no error.     *)
Empty == "none"
NoError == "none"

NoID == <<"none", Empty, 0>>
Given(name) == <<"given", name, 0>>

NoPart == [form |-> "text", id |-> NoID, name |-> Empty, thought |-> FALSE, args |-> "object",
           bytes |-> 0, elided |-> FALSE]

(* A prompt, a model's text, a call and its response, of so many bytes.    *)
Text(bytes) == [NoPart EXCEPT !.bytes = bytes]
Call(id, name, args) == [NoPart EXCEPT !.form = "call", !.id = id, !.name = name, !.args = args]
Response(id, name, bytes) == [NoPart EXCEPT !.form = "response", !.id = id, !.name = name, !.bytes = bytes]

(* The parts of contents, and the choices of a provider.                   *)
Names == STRING \cup {Empty}
Arguments == {"object", "blank", "ping", "partial", "malformed"}
IDs == {"none", "given", "chat", "oneshot"} \X Names \X Nat
Part == [form : {"text", "call", "response", "other"}, id : IDs, name : Names, thought : BOOLEAN,
         args : Arguments, bytes : Nat, elided : BOOLEAN]
ChoiceCall == [id : IDs, name : Names, args : Arguments]
Choice == [bytes : Nat, calls : Seq(ChoiceCall), finish : Names]

Content(role, parts) == [role |-> role, parts |-> parts]

Synthesized(seed, ordinal) == <<"chat", seed, ordinal>>

(* The form of a part that has exactly one form the adapter knows.         *)
PartForm(part) ==
  IF \/ part.form \notin {"text", "call", "response"}
     \/ part.form = "text" /\ part.bytes = 0
     \/ part.thought /\ part.form # "text"
  THEN "unsupported" ELSE part.form

-----------------------------------------------------------------------------
(* A conversation on its way out: convertContent of every content in turn  *)
(* with one chatCallTracker.                                               *)

Tracker == [error |-> NoError, next |-> 0, pending |-> <<>>, used |-> {}, messages |-> <<>>]
Fail(t, kind) == [t EXCEPT !.error = kind]
Say(t, role, texts, ids) == [t EXCEPT !.messages = Append(@, [role |-> role, texts |-> texts, ids |-> ids])]

(* convertCall                                                             *)
Asked(t, call) ==
  LET id == IF call.id = NoID THEN Synthesized("history", t.next) ELSE call.id IN
  IF call.name = Empty THEN Fail(t, "missing_function_name")
  ELSE IF call.args = "partial" THEN Fail(t, "unsupported_content")
  ELSE IF id \in t.used THEN Fail(t, "duplicate_tool_call_id")
  ELSE [t EXCEPT !.next = @ + 1, !.used = @ \cup {id},
                 !.pending = Append(@, [id |-> id, name |-> call.name])]

(* convertResponse: the one pending call that it answers.                  *)
Answers(t, response) ==
  {i \in DOMAIN t.pending :
     IF response.id = NoID THEN t.pending[i].name = response.name ELSE t.pending[i].id = response.id}
Answered(t, response) ==
  IF response.name = Empty THEN Fail(t, "missing_function_name")
  ELSE IF Cardinality(Answers(t, response)) # 1 THEN Fail(t, "unsupported_content")
  ELSE LET i == CHOOSE i \in Answers(t, response) : TRUE IN
       IF t.pending[i].name # response.name THEN Fail(t, "unsupported_content")
       ELSE Say([t EXCEPT !.pending = RemoveAt(@, i)], "tool", 0, <<t.pending[i].id>>)

(* A model's content becomes one message.                                  *)
AskedPart(t, part) ==
  IF t.error # NoError THEN t
  ELSE CASE PartForm(part) = "call" -> Asked(t, part)
         [] PartForm(part) = "text" -> t
         [] OTHER -> Fail(t, "unsupported_content")

Texts(parts) == Len(SelectSeq(parts, LAMBDA part : PartForm(part) = "text" /\ ~part.thought))

FromModel(t, parts) ==
  LET done == FoldLeft(AskedPart, t, parts)
      asked == SubSeq(done.pending, Len(t.pending) + 1, Len(done.pending)) IN
  IF done.error # NoError THEN done
  ELSE IF Texts(parts) = 0 /\ asked = <<>> THEN Fail(t, "unsupported_content")
  ELSE Say(done, "assistant", Texts(parts), [i \in DOMAIN asked |-> asked[i].id])

(* A user's content becomes a message for each response and one for the    *)
(* texts between them.                                                     *)
FlushText(t, role, texts) == IF texts = 0 THEN t ELSE Say(t, role, texts, <<>>)

FromUser(t, role, parts) ==
  LET Step(s, part) ==
        IF s.t.error # NoError THEN s
        ELSE CASE PartForm(part) = "text" -> [s EXCEPT !.texts = IF part.thought THEN @ ELSE @ + 1]
               [] PartForm(part) = "response" /\ role = "user" ->
                    [t |-> Answered(FlushText(s.t, role, s.texts), part), texts |-> 0]
               [] OTHER -> [s EXCEPT !.t = Fail(@, "unsupported_content")]
      end == FoldLeft(Step, [t |-> t, texts |-> 0], parts)
      done == FlushText(end.t, role, end.texts) IN
  IF done.error = NoError /\ Len(done.messages) = Len(t.messages) THEN Fail(t, "unsupported_content") ELSE done

ConvertContent(t, content) ==
  IF t.error # NoError THEN t
  ELSE IF content.parts = <<>> \/ content.role \notin {Empty, "user", "model", "system", "developer"}
  THEN Fail(t, "unsupported_content")
  ELSE IF content.role = "model" THEN FromModel(t, content.parts)
  ELSE FromUser(t, IF content.role = Empty THEN "user" ELSE content.role, content.parts)

(* buildRequest, as far as the messages go.                                *)
Converted(contents) ==
  LET done == FoldLeft(ConvertContent, Tracker, contents) IN
  IF done.error = NoError /\ done.messages = <<>> THEN Fail(done, "unsupported_content") ELSE done

-----------------------------------------------------------------------------
(* A response on its way back.                                             *)

(* normalizeChatResponseCallIDs: the first call with an ID keeps it, any   *)
(* other gets the first candidate from its position on that is free.       *)
GivenIDs(calls) == {calls[i].id : i \in DOMAIN calls} \ {NoID}
FreeOrdinals(seed, calls, ids, i) ==
  {k \in (i - 1)..(i - 1 + 2 * Len(calls)) : Synthesized(seed, k) \notin GivenIDs(calls) \cup ToSet(ids)}
NormalizedID(seed, calls, ids, i) ==
  IF calls[i].id # NoID /\ calls[i].id \notin ToSet(ids) THEN calls[i].id
  ELSE Synthesized(seed, Min(FreeOrdinals(seed, calls, ids, i)))
NormalizedIDs(seed, calls) ==
  FoldLeft(LAMBDA ids, i : Append(ids, NormalizedID(seed, calls, ids, i)), <<>>, [i \in DOMAIN calls |-> i])

(* decodeChatArguments                                                     *)
Decodes(args) == args \in {"object", "blank", "ping"}

(* convertChatResponse: a choice is a record of the texts, the calls and   *)
(* the reason it ended.  With the marker of toolcallrecovery a call whose  *)
(* arguments do not decode is kept, with none, and remembered.             *)
Rejected(kind) == [error |-> kind, parts |-> <<>>, failures |-> {}, finish |-> Empty]

FinishReason(reason) ==
  CASE reason \in {"stop", "tool_calls", "function_call"} -> "STOP"
    [] reason = "length" -> "MAX_TOKENS"
    [] reason = "content_filter" -> "SAFETY"
    [] reason = Empty -> "UNSPECIFIED"
    [] OTHER -> "OTHER"

ConvertedResponse(response, recover) ==
  LET choice == response.choices[1]
      calls == choice.calls
      ids == NormalizedIDs(response.id, calls)
      malformed == {i \in DOMAIN calls : ~Decodes(calls[i].args)}
      text == IF choice.bytes = 0 THEN <<>> ELSE <<Text(choice.bytes)>> IN
  IF response.choices = <<>> THEN Rejected("empty_choices")
  ELSE IF Len(response.choices) > 1 THEN Rejected("multiple_choices")
  ELSE IF \E i \in DOMAIN calls : calls[i].name = Empty THEN Rejected("missing_function_name")
  ELSE IF malformed # {} /\ ~recover THEN Rejected("malformed_arguments")
  ELSE [error |-> NoError, finish |-> FinishReason(choice.finish), failures |-> {ids[i] : i \in malformed},
        parts |-> text \o [i \in DOMAIN calls |->
                             Call(ids[i], calls[i].name, IF i \in malformed THEN "object" ELSE calls[i].args)]]
=============================================================================
