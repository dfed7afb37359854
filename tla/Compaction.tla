----------------------------- MODULE Compaction -----------------------------
(***************************************************************************)
(* The compaction policy, src/compaction/policy.go: what applyPolicy makes *)
(* of the contents of one request and of the decisions it made earlier in  *)
(* the session.                                                            *)
(*                                                                         *)
(* A content carries, besides what the policy looks at, the position "at"  *)
(* that it has in the session.  A native server tool's call and response   *)
(* are treated as a function's; sizes are in units of tokens.              *)
(***************************************************************************)
EXTENDS ChatCompletions, Bags

CONSTANTS KeepRecent,           \* keepRecentContents
          Preserve,             \* preserveToolNames
          MinimumElision,       \* minimumElisionTokens
          Trigger, Target,      \* the floors of contextTokens times the two fractions
          Calibration           \* calibration

ASSUME PolicyAssumption == /\ KeepRecent \in Nat /\ MinimumElision \in Nat
                           /\ Trigger \in Nat /\ Target \in Nat /\ Target <= Trigger
                           /\ Calibration \in BOOLEAN

Marker == 1

-----------------------------------------------------------------------------
(* EstimateRequest: the bodies and an overhead for each content, part and  *)
(* function.                                                               *)
Body(part) == IF part.elided THEN Marker ELSE part.bytes
PartTokens(part) == Body(part) + (IF part.form = "text" THEN 1 ELSE 2)
ContentTokens(content) == FoldLeft(LAMBDA n, part : n + PartTokens(part), 1, content.parts)
Tokens(contents) == FoldLeft(LAMBDA n, content : n + ContentTokens(content), 0, contents)

(* calibratedTokens: the factor is in percent.                             *)
Calibrated(tokens, factor) == (tokens * factor + 99) \div 100

-----------------------------------------------------------------------------
(* The bodies that may be elided: the responses between the first content  *)
(* and the recent ones.                                                    *)
Parts(contents) == UNION {{i} \X DOMAIN contents[i].parts : i \in DOMAIN contents}
PartAt(contents, at) == contents[at[1]].parts[at[2]]
Before(at, other) == at[1] < other[1] \/ (at[1] = other[1] /\ at[2] < other[2])

Candidates_Bug(contents) ==  \* the recent contents begin one too late
  {at \in Parts(contents) : /\ at[1] \in 2..(Len(contents) - KeepRecent + 1)
                            /\ PartAt(contents, at).form = "response" /\ ~PartAt(contents, at).elided}
Candidates(contents) ==
  {at \in Parts(contents) : /\ at[1] \in 2..(Len(contents) - KeepRecent)
                            /\ PartAt(contents, at).form = "response" /\ ~PartAt(contents, at).elided}

(* The oldest first: a fold applies the step of the one it chooses last.   *)
Latest(places) == CHOOSE at \in places : \A other \in places : other = at \/ Before(other, at)
OldestFirst(Step(_, _), s, places) == MapThenFoldSet(Step, s, LAMBDA at : at, Latest, places)

Elide(contents, at) == [contents EXCEPT ![at[1]].parts[at[2]].elided = TRUE]
Reduces(contents, at) == Tokens(Elide(contents, at)) < Tokens(contents)

(* responseKey                                                             *)
ResponseKey(part) == IF part.id # NoID THEN <<"id", part.id>> ELSE <<"body", part.name, part.bytes>>
With(bag, key) == bag (+) SetToBag({key})
Without(bag, key) == bag (-) SetToBag({key})

-----------------------------------------------------------------------------
(* completeTurns: from a prompt up to the next one.                        *)
StartsPromptTurn(content) ==
  content.role = "user" /\ \A j \in DOMAIN content.parts : content.parts[j].form # "response"
Starts(contents) == {i \in DOMAIN contents : StartsPromptTurn(contents[i])}
CompleteTurns(contents) ==
  {turn \in [first : Starts(contents), last : DOMAIN contents] :
     /\ turn.last >= turn.first
     /\ turn.last + 1 \in Starts(contents)
     /\ Starts(contents) \cap (turn.first + 1)..turn.last = {}}

(* turnKey: all of the turn but the bodies of its responses.               *)
TurnKey_Bug(contents, turn) ==  \* bodies are part of the key
  [i \in 1..(turn.last - turn.first + 1) |->
     <<contents[turn.first + i - 1].role, contents[turn.first + i - 1].parts>>]
TurnKey(contents, turn) ==
  [i \in 1..(turn.last - turn.first + 1) |->
     LET content == contents[turn.first + i - 1] IN
     <<content.role, [j \in DOMAIN content.parts |->
        IF content.parts[j].form = "response"
        THEN [content.parts[j] EXCEPT !.bytes = 0, !.elided = FALSE] ELSE content.parts[j]]>>]

(* pairsContained: a call and its response have the same ID, or without    *)
(* one the same name and the same number among those with that name.       *)
PairKey(contents, at) ==
  LET part == PartAt(contents, at) IN
  IF part.id # NoID THEN <<"id", part.id>>
  ELSE <<"name", part.name,
         Cardinality({other \in Parts(contents) :
           /\ Before(other, at)
           /\ PartAt(contents, other).form = part.form /\ PartAt(contents, other).name = part.name
           /\ PartAt(contents, other).id = NoID})>>
Sides(contents) ==
  {[key |-> PairKey(contents, at), form |-> PartAt(contents, at).form, at |-> at] :
     at \in {at \in Parts(contents) : PartAt(contents, at).form \in {"call", "response"}}}
PairsContained(contents, turn) ==
  LET sides == Sides(contents)
      Inside(side) == side.at[1] \in turn.first..turn.last
      Of(key, form) == Cardinality({side \in sides : side.key = key /\ side.form = form}) IN
  \A side \in sides : Inside(side) =>
    /\ \A other \in sides : other.key = side.key => Inside(other)
    /\ Of(side.key, "call") = Of(side.key, "response")

PreservedTool(contents, turn) ==
  \E at \in Parts(contents) : /\ at[1] \in turn.first..turn.last
                              /\ PartAt(contents, at).form # "text"
                              /\ PartAt(contents, at).name \in Preserve

(* nextDroppableTurn                                                       *)
Droppable(contents) ==
  {turn \in CompleteTurns(contents) :
     /\ turn.first # 1 /\ turn.last <= Len(contents) - KeepRecent
     /\ ~PreservedTool(contents, turn)
     /\ PairsContained(contents, turn)}
Oldest(turns) == CHOOSE turn \in turns : \A other \in turns : turn.first <= other.first
Drop(contents, turn) == SubSeq(contents, 1, turn.first - 1) \o SubSeq(contents, turn.last + 1, Len(contents))

-----------------------------------------------------------------------------
(* The decisions of a session: durableState.                               *)
NoDecisions == [elided |-> EmptyBag, dropped |-> EmptyBag, calibration |-> 100, warned |-> FALSE]
Factor(durable) == IF Calibration THEN durable.calibration ELSE 100

(* applyStickyDrops and applyStickyElisions: as often as a turn or a       *)
(* response was dropped or elided before, the oldest with its key is now.  *)
StickyDrops(contents, dropped) ==
  LET Step(any, s) ==
        LET turns == {turn \in Droppable(s.contents) : BagIn(TurnKey(s.contents, turn), s.left)}
            turn == Oldest(turns) IN
        IF turns = {} THEN s
        ELSE [contents |-> Drop(s.contents, turn), left |-> Without(s.left, TurnKey(s.contents, turn))] IN
  IF dropped = EmptyBag THEN contents
  ELSE FoldSet(Step, [contents |-> contents, left |-> dropped], DOMAIN contents).contents

StickyElisions(contents, elided) ==
  LET Step(at, s) ==
        LET part == PartAt(s.contents, at) IN
        IF part.name \in Preserve \/ ~BagIn(ResponseKey(part), s.left) \/ ~Reduces(s.contents, at) THEN s
        ELSE [contents |-> Elide(s.contents, at), left |-> Without(s.left, ResponseKey(part))] IN
  IF elided = EmptyBag THEN contents
  ELSE OldestFirst(Step, [contents |-> contents, left |-> elided], Candidates(contents)).contents

(* elideResponses and dropCompleteTurns: until the target is reached.      *)
AboveTarget_Bug(s) ==  \* compacts down to the trigger
  Calibrated(Tokens(s.contents), Factor(s.durable)) >= Trigger
AboveTarget(s) == Calibrated(Tokens(s.contents), Factor(s.durable)) > Target

Eligible(contents, at) ==
  LET part == PartAt(contents, at) IN
  part.name \notin Preserve /\ part.bytes >= MinimumElision /\ Reduces(contents, at)
ElideResponses(s) ==
  LET Step(at, t) ==
        IF AboveTarget(t) /\ Eligible(t.contents, at)
        THEN [contents |-> Elide(t.contents, at),
              durable |-> [t.durable EXCEPT !.elided = With(@, ResponseKey(PartAt(t.contents, at)))]]
        ELSE t
  IN OldestFirst(Step, s, Candidates(s.contents))

DropCompleteTurns(s) ==
  LET Step(any, t) ==
        LET turns == Droppable(t.contents)
            turn == Oldest(turns) IN
        IF AboveTarget(t) /\ turns # {}
        THEN [contents |-> Drop(t.contents, turn),
              durable |-> [t.durable EXCEPT !.dropped = With(@, TurnKey(t.contents, turn))]]
        ELSE t
  IN FoldSet(Step, s, DOMAIN s.contents)

(* applyPolicy: the earlier decisions first, new ones from the trigger on. *)
Triggered(s) == Calibrated(Tokens(s.contents), Factor(s.durable)) >= Trigger
Result(s, triggered) == [contents |-> s.contents, durable |-> s.durable, triggered |-> triggered,
                         exhausted |-> triggered /\ AboveTarget(s)]
Decide(s) ==
  IF Triggered(s) THEN Result(DropCompleteTurns(ElideResponses(s)), TRUE) ELSE Result(s, FALSE)
ApplyPolicy(durable, contents) ==
  Decide([contents |-> StickyElisions(StickyDrops(contents, durable.dropped), durable.elided),
          durable |-> durable])
=============================================================================
