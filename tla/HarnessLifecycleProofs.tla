----------------------- MODULE HarnessLifecycleProofs -----------------------
(* The Harness takes nothing down under an operation without reporting a   *)
(* timeout, makes sessions ready or takes them back as a whole, and keeps  *)
(* every tool-policy scope to its run: proved for any number of goroutines *)
(* and sessions, and for every kind of fault.                              *)
EXTENDS HarnessLifecycle, Integers, FiniteSetTheorems, TLAPS

USE ConstantsAssumption DEF ConstantsAssumption

-----------------------------------------------------------------------------
(* The inductive invariant.                                                *)

AfterExtensions == {"extensionswait", "contexts", "contextswait", "store", "storewait", "publish", "closed"}
AfterContexts == {"contextswait", "store", "storewait", "publish", "closed"}

HarnessTypes ==
  /\ closed \in BOOLEAN /\ rootDone \in BOOLEAN /\ mcpClosed \in BOOLEAN
  /\ active \in [Sessions -> Callers \cup {NULL}]
  /\ activeRuns \in Int
  /\ finish \in Teardown \cup {"open", "called", "wait"}
  /\ closeErr \subseteq {"timeout", "resource"}
PartTypes ==
  /\ store \in [ids : SUBSET Sessions, pending : Sessions \cup {NULL}, closed : BOOLEAN,
                inside : SUBSET Callers]
  /\ contexts \in [closed : BOOLEAN, inside : SUBSET Callers, dropping : SUBSET Sessions,
                   views : [Sessions -> {"none", "plain", "policy"}],
                   scopes : [Sessions -> {"none", "open", "narrowed"}]]
  /\ extensions \in [closed : BOOLEAN, inside : SUBSET Callers,
                     views : [Sessions -> {"none", "plain", "full"}]]
Process == [op : Ops \cup {"none"}, ses : Sessions \cup {NULL}, linked : BOOLEAN,
            cancelled : BOOLEAN, recs : BOOLEAN, inRun : BOOLEAN,
            view : {"none", "plain", "policy"}, result : {"none", "ok", "failed"}]
Labels == {"idle", "admit", "store", "storing", "context", "started", "discover",
           "records", "extension", "catalog", "snapshot", "dropmcp", "dropcontext", "dropextension",
           "undo", "undoing", "expand", "expanding", "policy", "run", "lookup", "render", "model",
           "releaserun", "leave", "done1", "done2", "cancel", "closing"}
CallerTypes == proc \in [Callers -> Process] /\ pc \in [Callers -> Labels]
HistoryTypes ==
  used \subseteq Sessions /\ known \subseteq used /\ ready \subseteq known /\ leftover \subseteq used
Types == HarnessTypes /\ PartTypes /\ CallerTypes /\ HistoryTypes

(* The WaitGroup counts every operation once, and a second time a resume   *)
(* that has been admitted to its session.                                  *)
Inside == {c \in Callers : proc[c].op # "none"}
Doubly == {c \in Callers : proc[c].op = "resume" /\ (pc[c] = "done2" \/ \E s \in Sessions : active[s] = c)}
Balanced == activeRuns = Cardinality(Inside) + Cardinality(Doubly)

(* What Close has closed, and that the views go with the resolver.         *)
Ordered ==
  /\ closed <=> finish # "open"
  /\ extensions.closed <=> finish \in AfterExtensions
  /\ contexts.closed <=> finish \in AfterContexts
  /\ contexts.closed => \A s \in Sessions : contexts.views[s] = "none"

(* The first Close alone goes to cancel.                                   *)
OneCanceller == \A c, d \in Callers : pc[c] = "cancel" =>
  finish = "called" /\ (pc[d] = "cancel" => c = d)

(* Where an operation can be.                                              *)
Starting == {"context", "started", "discover", "records", "extension", "catalog"}
NewLabels == {"store", "storing", "dropcontext", "undo", "undoing", "leave", "done1"} \cup Starting
ResumeLabels == {"admit", "store", "storing", "dropmcp", "dropcontext", "dropextension", "leave",
                 "done1", "done2"} \cup Starting
ReadLabels == {"store", "storing", "extension", "catalog", "snapshot", "expand", "expanding",
               "leave", "done1"}
RunLabels == {"store", "storing", "context", "started", "discover", "lookup", "render", "extension",
              "catalog", "run", "model", "releaserun", "cancel", "closing", "leave", "done1"}
OnSession == {"run", "template", "list", "get"}

Stage(c) ==
  /\ proc[c].op # "close"
  /\ proc[c].op = "none" => pc[c] \in {"idle", "cancel", "closing"} /\ ~proc[c].inRun
  /\ proc[c].op = "new" => pc[c] \in NewLabels /\ ~proc[c].inRun
  /\ proc[c].op = "resume" => pc[c] \in ResumeLabels /\ ~proc[c].inRun
  /\ proc[c].op \in {"list", "get"} => pc[c] \in ReadLabels /\ ~proc[c].inRun
  /\ proc[c].op = "template" /\ ~proc[c].inRun => pc[c] \in ReadLabels \cup {"policy", "releaserun"}
  /\ proc[c].op = "run" => proc[c].inRun
  /\ proc[c].inRun => pc[c] \in RunLabels
  /\ proc[c].result = "ok" => pc[c] \in {"leave", "done1", "done2", "releaserun"}
  /\ proc[c].op = "new" /\ pc[c] = "dropcontext" => proc[c].result = "failed"

(* Who holds a session.                                                    *)
Holds(c) ==
  /\ proc[c].op \in OnSession /\ pc[c] # "done1" =>
       proc[c].ses \in Sessions /\ active[proc[c].ses] = c
  /\ proc[c].op = "resume" =>
       /\ proc[c].ses \in known
       /\ pc[c] \notin {"admit", "leave", "done1", "done2"} => active[proc[c].ses] = c
       /\ pc[c] = "leave" /\ proc[c].result = "ok" => active[proc[c].ses] = c
Creates(c) == proc[c].op = "new" =>
  /\ proc[c].ses = NULL => pc[c] \in {"store", "storing", "leave", "done1"} /\ proc[c].result # "ok"
  /\ proc[c].ses # NULL =>
       /\ pc[c] \notin {"store", "storing"}
       /\ proc[c].ses \in used /\ proc[c].ses # store.pending
       /\ pc[c] # "done1" => proc[c].ses \notin known

(* A start finds nothing of an earlier one, and ends with all that makes   *)
(* its session ready, unless Close takes it away.                          *)
Full(s) == extensions.views[s] = "full" \/ (extensions.closed /\ extensions.views[s] = "none")
Viewed(s) == contexts.views[s] # "none" \/ contexts.closed
Starts(c) ==
  /\ pc[c] = "catalog" => extensions.views[proc[c].ses] = "none"
  /\ proc[c].op \in {"new", "resume"} =>
       /\ pc[c] \in Starting => extensions.views[proc[c].ses] = "none"
       /\ pc[c] \in {"records", "extension", "catalog"} => Viewed(proc[c].ses)
       /\ pc[c] \in {"extension", "catalog"} => proc[c].recs \/ extensions.closed
       /\ pc[c] = "leave" /\ proc[c].result = "ok" => Viewed(proc[c].ses) /\ Full(proc[c].ses)
  /\ proc[c].op = "resume" /\ pc[c] \in Starting \cup {"dropcontext", "dropextension"} =>
       proc[c].ses \notin ready

(* The view of a template run holds the policy of its template.            *)
Runs(c) ==
  /\ proc[c].op = "template" /\ proc[c].inRun /\ pc[c] \notin {"leave", "done1"} =>
       contexts.views[proc[c].ses] = "policy" \/ contexts.closed
  /\ pc[c] = "render" => (proc[c].view = "policy" <=> proc[c].op = "template")

Sound(c) == Stage(c) /\ Holds(c) /\ Creates(c) /\ Starts(c) /\ Runs(c)

Admitted == \A s \in Sessions : active[s] # NULL =>
  /\ proc[active[s]].ses = s /\ proc[active[s]].op \in OnSession \cup {"resume"}
  /\ pc[active[s]] \notin {"idle", "admit", "done1", "done2"}
  /\ s \in known
Alone == \A c, d \in Callers :
  proc[c].op = "new" /\ proc[d].op = "new" /\ proc[c].ses = proc[d].ses /\ proc[c].ses # NULL => c = d
Pending == store.pending # NULL => store.pending \in used /\ store.pending \notin known

(* The properties, in the form that a step preserves.                      *)
Accounted == \A s \in store.ids :
  \/ s \in known \cup leftover \cup {store.pending}
  \/ \E c \in Callers : /\ proc[c].op = "new" /\ proc[c].ses = s
                        /\ pc[c] # "done1" /\ (pc[c] = "leave" => proc[c].result = "ok")
Fresh == \A s \in Sessions : s \notin used \/ s = store.pending => extensions.views[s] = "none"
Readied == \A s \in ready : Viewed(s) /\ Full(s)
Policies == \A s \in Sessions : contexts.views[s] = "policy" =>
  active[s] # NULL /\ proc[active[s]].op = "template" /\ proc[active[s]].inRun /\ pc[active[s]] # "leave"
Scopes == \A s \in Sessions : contexts.scopes[s] # "none" =>
  /\ active[s] # NULL /\ proc[active[s]].inRun /\ pc[active[s]] # "leave"
  /\ (contexts.scopes[s] = "narrowed") <=> (proc[active[s]].op = "template")

HarnessInv ==
  /\ Types /\ Balanced /\ Ordered /\ OneCanceller /\ InterruptsOnlyAfterTimeout
  /\ \A c \in Callers : Sound(c)
  /\ Admitted /\ Alone /\ Pending
  /\ Accounted /\ Fresh /\ Readied /\ Policies /\ Scopes


-----------------------------------------------------------------------------
(* What a step does, caller by caller.  The flags linked and cancelled are *)
(* left out: no part of the invariant speaks of them.                      *)

Same(d) ==
  /\ pc'[d] = pc[d] /\ proc'[d].op = proc[d].op /\ proc'[d].ses = proc[d].ses
  /\ proc'[d].inRun = proc[d].inRun /\ proc'[d].recs = proc[d].recs
  /\ proc'[d].view = proc[d].view /\ proc'[d].result = proc[d].result
Others(c) == \A d \in Callers : d # c => Same(d)
Holding(c, inRun, recs, view, result) ==
  /\ proc'[c].op = proc[c].op /\ proc'[c].ses = proc[c].ses /\ proc'[c].inRun = inRun
  /\ proc'[c].recs = recs /\ proc'[c].view = view /\ proc'[c].result = result
Moved(c, l) ==
  pc'[c] = l /\ Holding(c, proc[c].inRun, proc[c].recs, proc[c].view, proc[c].result) /\ Others(c)
Ended(c, l, result) ==
  pc'[c] = l /\ Holding(c, proc[c].inRun, proc[c].recs, proc[c].view, result) /\ Others(c)

SameStore == store'.ids = store.ids /\ store'.pending = store.pending
SameContexts == contexts'.closed = contexts.closed /\ contexts'.views = contexts.views
                /\ contexts'.scopes = contexts.scopes
SameExtensions == extensions'.closed = extensions.closed /\ extensions'.views = extensions.views
SameParts == SameStore /\ SameContexts /\ SameExtensions

(* A move in the middle of an operation.                                   *)
Onward(c) ==
  /\ proc'[c].op = proc[c].op /\ proc'[c].ses = proc[c].ses /\ proc'[c].inRun = proc[c].inRun
  /\ Others(c)
  /\ \/ Same(c)
     \/ /\ pc[c] # "done2" /\ pc'[c] # "done2"
        /\ proc[c].op # "none" => pc'[c] \notin {"idle", "admit", "done1"}
        /\ pc'[c] = "leave" =>
             ~proc[c].inRun /\ (proc[c].op = "new" /\ proc[c].ses # NULL => proc'[c].result = "ok")

-----------------------------------------------------------------------------
(* Facts that every step needs.                                            *)

LEMMA Nulls == NULL \notin Callers /\ NULL \notin Sessions
OBVIOUS

LEMMA Goes ==
  ASSUME CallerTypes, NEW c \in Callers, NEW l \in Labels, Goto(c, l)
  PROVE  pc' \in [Callers -> Labels] /\ pc'[c] = l /\ \A d \in Callers : d # c => pc'[d] = pc[d]
BY DEF CallerTypes, Goto

LEMMA Mover ==
  ASSUME CallerTypes, NEW c \in Callers, NEW l \in Labels, Goto(c, l), proc' = proc
  PROVE  CallerTypes' /\ Moved(c, l)
BY Goes DEF CallerTypes, Moved, Holding, Others, Same

LEMMA Ender ==
  ASSUME CallerTypes, NEW c \in Callers, NEW l \in Labels, NEW v \in {"none", "ok", "failed"},
         Goto(c, l), Local(c, "result", v)
  PROVE  CallerTypes' /\ Ended(c, l, v)
<1>1. proc' \in [Callers -> Process]
  BY DEF CallerTypes, Local, Process
<1>2. Holding(c, proc[c].inRun, proc[c].recs, proc[c].view, v)
  BY DEF CallerTypes, Local, Process, Holding
<1>3. \A d \in Callers : d # c => proc'[d] = proc[d]
  BY DEF CallerTypes, Local
<1> QED BY <1>1, <1>2, <1>3, Goes DEF CallerTypes, Ended, Others, Same

(* An operation that fails goes where it can give back what it took.       *)
LEMMA Failer ==
  ASSUME CallerTypes, NEW c \in Callers, Fail(c)
  PROVE  CallerTypes' /\ FailTo(c) \in {"releaserun", "undo", "leave"} /\ Ended(c, FailTo(c), "failed")
<1>1. FailTo(c) \in {"releaserun", "undo", "leave"}
  BY DEF FailTo
<1> QED BY <1>1, Ender DEF Fail, Fails, Labels

LEMMA Counts ==
  /\ IsFiniteSet(Inside) /\ Cardinality(Inside) \in Nat
  /\ IsFiniteSet(Doubly) /\ Cardinality(Doubly) \in Nat
<1>1. Inside \subseteq Callers /\ Doubly \subseteq Callers
  BY DEF Inside, Doubly
<1>2. IsFiniteSet(Inside) /\ IsFiniteSet(Doubly)
  BY <1>1, FS_Subset
<1> QED BY <1>2, FS_CardinalityType

(* A session that a NewSession is about, or that a caller holds, is        *)
(* nobody else's.                                                          *)
Owns(c) == \/ proc[c].op = "new" /\ proc[c].ses # NULL /\ pc[c] # "done1"
           \/ proc[c].ses \in Sessions /\ active[proc[c].ses] = c
Touches(d) ==
  \/ proc[d].op = "new" /\ pc[d] # "done1"
  \/ proc[d].op \in OnSession /\ pc[d] # "done1"
  \/ /\ proc[d].op = "resume" /\ pc[d] \notin {"admit", "done1", "done2"}
     /\ pc[d] = "leave" => proc[d].result = "ok"

LEMMA Kinds ==
  ASSUME HarnessInv
  PROVE  /\ CallerTypes /\ NULL \notin Callers /\ NULL \notin Sessions
         /\ \A d \in Callers : proc[d].ses \in Sessions \cup {NULL}
         /\ \A d \in Callers : proc[d].op \in Ops \cup {"none"}
         /\ \A d \in Callers : Sound(d)
BY Nulls DEF HarnessInv, Types, CallerTypes, Process

LEMMA OnlyRuns ==
  ASSUME HarnessInv, NEW c \in Callers, pc[c] \in {"lookup", "render", "run", "model"}
  PROVE  proc[c].inRun
BY Kinds DEF Sound, Stage, NewLabels, ResumeLabels, ReadLabels, Starting

LEMMA InRun ==
  ASSUME HarnessInv, NEW c \in Callers, proc[c].inRun
  PROVE  /\ proc[c].op \in {"run", "template"}
         /\ pc[c] # "done1" => proc[c].ses \in Sessions /\ active[proc[c].ses] = c
<1>1. proc[c].op \in {"run", "template"}
  BY Kinds DEF Sound, Stage
<1> QED BY <1>1, Kinds DEF Sound, Holds, OnSession

LEMMA Unshared ==
  ASSUME HarnessInv, NEW c \in Callers, NEW d \in Callers, Owns(c), Touches(d),
         proc[d].ses = proc[c].ses
  PROVE  d = c
<1>1. CASE proc[d].op = "new"
  BY <1>1, Kinds DEF HarnessInv, Owns, Touches, Alone, Admitted, Sound, Creates, Holds
<1>2. CASE proc[d].op # "new"
  <2>1. active[proc[d].ses] = d /\ proc[d].ses \in Sessions
    BY <1>2, Kinds DEF HarnessInv, Touches, Sound, Holds, Stage, Types, HistoryTypes, OnSession
  <2> QED BY <1>2, <2>1, Kinds DEF HarnessInv, Owns, Admitted, Sound, Creates
<1> QED BY <1>1, <1>2

-----------------------------------------------------------------------------
(* Moves that change no part and admit or release nobody.                  *)

LEMMA QuietCore ==
  ASSUME HarnessInv, NEW c \in Callers, HarnessTypes', CallerTypes', PartTypes', Onward(c),
         SameParts, Sound(c)',
         Ordered', OneCanceller', InterruptsOnlyAfterTimeout', UNCHANGED <<active, activeRuns,
         history>>
  PROVE  HarnessInv'
<1>0. Types'
  BY DEF HarnessInv, Types, HistoryTypes, history
<1>1. \A d \in Callers : proc'[d].op = proc[d].op /\ proc'[d].ses = proc[d].ses
                         /\ proc'[d].inRun = proc[d].inRun
  BY DEF Onward, Others, Same
<1>2. Balanced'
  <2>1. Inside' = Inside
    BY <1>1 DEF Inside
  <2>2. \A d \in Callers : pc'[d] = "done2" <=> pc[d] = "done2"
    BY DEF Onward, Others, Same
  <2>3. Doubly' = Doubly
    BY <1>1, <2>2 DEF Doubly
  <2> QED BY <2>1, <2>3 DEF HarnessInv, Balanced
<1>3. Pending'
  BY DEF HarnessInv, Pending, SameParts, SameStore, history
<1>5. ASSUME NEW d \in Callers PROVE Sound(d)'
  <2>1. CASE d = c
    BY <2>1
  <2>2. CASE d # c
    <3>1. Same(d)
      BY <2>2 DEF Onward, Others
    <3>2. Stage(d)' /\ Holds(d)' /\ Creates(d)'
      BY <3>1, Kinds DEF Same, Sound, Stage, Holds, Creates, SameParts, SameStore, history
    <3>3. Starts(d)' /\ Runs(d)'
      BY <3>1, Kinds DEF Same, Sound, Starts, Runs, Viewed, Full, SameParts, SameContexts,
         SameExtensions, history
    <3> QED BY <3>2, <3>3 DEF Sound
  <2> QED BY <2>1, <2>2
<1>6. Admitted'
  BY <1>1 DEF HarnessInv, Admitted, Types, HarnessTypes, Onward, Others, Same, history, OnSession
<1>7. Alone' /\ Fresh' /\ Readied'
  BY <1>1 DEF HarnessInv, Alone, Fresh, Readied, Viewed, Full, SameParts, SameStore, SameContexts,
     SameExtensions, history
<1>8. Accounted'
  BY DEF HarnessInv, Accounted, Types, PartTypes, Onward, Others, Same, SameParts, SameStore,
     history
<1>9. Policies' /\ Scopes'
  BY <1>1 DEF HarnessInv, Policies, Scopes, Types, HarnessTypes, Onward, Others, Same,
     SameParts, SameContexts
<1> QED BY <1>0, <1>2, <1>3, <1>5, <1>6, <1>7, <1>8, <1>9 DEF HarnessInv

LEMMA QuietStep ==
  ASSUME HarnessInv, NEW c \in Callers, CallerTypes', PartTypes', Onward(c), SameParts, Sound(c)',
         pc'[c] # "cancel" \/ pc'[c] = pc[c], UNCHANGED <<harness, mcpClosed, history>>
  PROVE  HarnessInv'
<1>1. HarnessTypes'
  BY DEF HarnessInv, Types, HarnessTypes, harness
<1>2. Ordered'
  BY DEF HarnessInv, Ordered, SameParts, SameContexts, SameExtensions, harness
<1>3. OneCanceller'
  BY DEF HarnessInv, OneCanceller, Onward, Others, Same, harness
<1>4. InterruptsOnlyAfterTimeout'
  BY DEF HarnessInv, InterruptsOnlyAfterTimeout, InCall, Onward, Others, Same, harness
<1> QED BY <1>1, <1>2, <1>3, <1>4, QuietCore DEF harness

Middle == Labels \ {"idle", "admit", "done1", "done2", "leave", "cancel"}

LEMMA MoveStep ==
  ASSUME HarnessInv, NEW c \in Callers, NEW l \in Middle, pc[c] \notin {"done1", "done2"},
         Goto(c, l), proc' = proc, PartTypes', SameParts, Moved(c, l) => Sound(c)',
         UNCHANGED <<harness, mcpClosed, history>>
  PROVE  HarnessInv'
<1>1. CallerTypes' /\ Moved(c, l)
  BY Mover, Kinds DEF Middle
<1>2. Onward(c)
  BY <1>1 DEF Moved, Holding, Onward, Middle
<1> QED BY <1>1, <1>2, QuietStep DEF Moved, Middle

LEMMA FailStep ==
  ASSUME HarnessInv, NEW c \in Callers, Fail(c),
         pc[c] \notin {"idle", "leave", "done1", "done2", "cancel", "closing"}, PartTypes',
         SameParts,
         UNCHANGED <<harness, mcpClosed, history>>
  PROVE  HarnessInv'
<1>1. CallerTypes' /\ Ended(c, FailTo(c), "failed") /\ FailTo(c) \in {"releaserun", "undo", "leave"}
  BY Failer, Kinds
<1>2. /\ FailTo(c) = "releaserun" <=> proc[c].inRun
      /\ FailTo(c) = "undo" <=> ~proc[c].inRun /\ proc[c].op = "new" /\ proc[c].ses # NULL
  BY <1>1 DEF FailTo
<1>3. proc[c].op # "none" /\ Sound(c)
  BY Kinds DEF Sound, Stage
<1>4. Onward(c)
  BY <1>1, <1>2, <1>3 DEF Ended, Holding, Onward
<1>5. Stage(c)'
  BY <1>1, <1>2, <1>3 DEF Ended, Holding, Sound, Stage, NewLabels, ResumeLabels, ReadLabels,
     RunLabels, Starting
<1>6. Holds(c)' /\ Creates(c)'
  BY <1>1, <1>2, <1>3 DEF Ended, Holding, Sound, Stage, Holds, Creates, SameParts, SameStore,
     harness, history,
     OnSession
<1>7. Starts(c)' /\ Runs(c)'
  BY <1>1, <1>2, <1>3 DEF Ended, Holding, Sound, Starts, Starting, Runs, SameParts, SameContexts
<1> QED BY <1>1, <1>4, <1>5, <1>6, <1>7, QuietStep DEF Sound, Ended

LEMMA CallStoreStep ==
  ASSUME HarnessInv, NEW c \in Callers, CallStore(c)
  PROVE  HarnessInv'
<1>1. PartTypes' /\ SameParts
  BY DEF HarnessInv, Types, PartTypes, CallStore, SameParts, SameStore, SameContexts,
     SameExtensions
<1>2. CASE store.closed \/ Cancelled(c)
  BY <1>1, <1>2, FailStep DEF CallStore
<1>3. CASE ~(store.closed \/ Cancelled(c))
  <2>1. ASSUME Moved(c, "storing") PROVE Sound(c)'
    <3>1. Stage(c)'
      BY <2>1, Kinds DEF Moved, Holding, Sound, Stage, CallStore, NewLabels, ResumeLabels,
         ReadLabels, RunLabels
    <3>2. Holds(c)' /\ Creates(c)' /\ Starts(c)' /\ Runs(c)'
      BY <1>1, <2>1, Kinds DEF Moved, Holding, Sound, Holds, Creates, Starts, Starting, Runs,
         CallStore,
         SameParts, SameStore, SameContexts, harness, history
    <3> QED BY <3>1, <3>2 DEF Sound
  <2> QED BY <1>1, <1>3, <2>1, MoveStep DEF CallStore, Middle, Labels
<1> QED BY <1>2, <1>3

LEMMA StoreReturnsStep ==
  ASSUME HarnessInv, NEW c \in Callers, StoreReturns(c)
  PROVE  HarnessInv'
<1>1. PartTypes' /\ SameParts
  BY DEF HarnessInv, Types, PartTypes, StoreReturns, SameParts, SameStore, SameContexts,
     SameExtensions
<1>2. CASE Fail(c)
  BY <1>1, <1>2, FailStep DEF StoreReturns
<1>3. ASSUME NEW l \in {"run", "dropmcp", "extension"}, Goto(c, l), proc' = proc,
             l = "run" <=> proc[c].inRun,
             l = "dropmcp" <=> ~proc[c].inRun /\ proc[c].op = "resume"
      PROVE HarnessInv'
  <2>1. ASSUME Moved(c, l) PROVE Sound(c)'
    <3>1. Stage(c)'
      BY <1>3, <2>1, Kinds DEF Moved, Holding, Sound, Stage, StoreReturns, NewLabels,
         ResumeLabels, ReadLabels, RunLabels
    <3>2. Holds(c)' /\ Creates(c)' /\ Starts(c)' /\ Runs(c)'
      BY <1>1, <1>3, <2>1, Kinds DEF Moved, Holding, Sound, Holds, Creates, Starts, Starting,
         Runs, StoreReturns,
         SameParts, SameStore, SameContexts, harness, history
    <3> QED BY <3>1, <3>2 DEF Sound
  <2> QED BY <1>1, <1>3, <2>1, MoveStep DEF StoreReturns, Middle, Labels
<1> QED BY <1>2, <1>3 DEF StoreReturns

LEMMA CallContextsStep ==
  ASSUME HarnessInv, NEW c \in Callers, CallContexts(c)
  PROVE  HarnessInv'
<1>1. PartTypes' /\ SameParts
  BY DEF HarnessInv, Types, PartTypes, CallContexts, parts,
     SameParts, SameStore, SameContexts, SameExtensions
<1>2. CASE Fail(c)
  BY <1>1, <1>2, FailStep DEF CallContexts, parts, history, harness
<1>3. ASSUME NEW l \in {"started"}, Goto(c, l), proc' = proc
      PROVE  HarnessInv'
  <2>1. ASSUME Moved(c, l) PROVE Sound(c)'
    <3>1. Stage(c)'
      BY <1>3, <2>1, Kinds DEF Moved, Holding, Sound, Stage, CallContexts, NewLabels,
         ResumeLabels,
         ReadLabels, RunLabels, Starting
    <3>2. Holds(c)' /\ Creates(c)' /\ Starts(c)' /\ Runs(c)'
      BY <1>1, <1>3, <2>1, Kinds DEF Moved, Holding, Sound, Stage, Holds, Creates, Starts,
         Starting,
         Runs, CallContexts, Viewed, Full, View, Catalog, SameParts, SameStore, SameContexts,
         SameExtensions,
         harness, history, parts, OnSession, NewLabels, ResumeLabels, ReadLabels, RunLabels
    <3> QED BY <3>1, <3>2 DEF Sound
  <2> QED BY <1>1, <1>3, <2>1, MoveStep DEF CallContexts, Middle, Labels, parts
<1> QED BY <1>2, <1>3 DEF CallContexts

LEMMA startSessionStep ==
  ASSUME HarnessInv, NEW c \in Callers, startSession(c)
  PROVE  HarnessInv'
<1>1. PartTypes' /\ SameParts
  BY DEF HarnessInv, Types, PartTypes, startSession, parts, LeaveContexts,
     SameParts, SameStore, SameContexts, SameExtensions
<1>2. CASE Fail(c)
  BY <1>1, <1>2, FailStep DEF startSession, parts, history, harness
<1>3. ASSUME NEW l \in {"discover", "lookup", "records"}, Goto(c, l), proc' = proc,
             l = "records" => ~proc[c].inRun /\ View(c) # "none", l = "lookup" => proc[c].inRun
      PROVE  HarnessInv'
  <2>1. ASSUME Moved(c, l) PROVE Sound(c)'
    <3>1. Stage(c)'
      BY <1>3, <2>1, Kinds DEF Moved, Holding, Sound, Stage, startSession, NewLabels,
         ResumeLabels,
         ReadLabels, RunLabels, Starting
    <3>2. Holds(c)' /\ Creates(c)' /\ Starts(c)' /\ Runs(c)'
      BY <1>1, <1>3, <2>1, Kinds DEF Moved, Holding, Sound, Stage, Holds, Creates, Starts,
         Starting,
         Runs, startSession, Viewed, Full, View, Catalog, SameParts, SameStore, SameContexts,
         SameExtensions,
         harness, history, parts, OnSession, NewLabels, ResumeLabels, ReadLabels, RunLabels
    <3> QED BY <3>1, <3>2 DEF Sound
  <2> QED BY <1>1, <1>3, <2>1, MoveStep DEF startSession, Middle, Labels, parts
<1> QED BY <1>2, <1>3 DEF startSession, AfterContext

LEMMA RunContinuesStep ==
  ASSUME HarnessInv, NEW c \in Callers, RunContinues(c)
  PROVE  HarnessInv'
<1>1. PartTypes' /\ SameParts
  BY DEF HarnessInv, Types, PartTypes, RunContinues, parts,
     SameParts, SameStore, SameContexts, SameExtensions
<1>2. ASSUME NEW l \in {"context", "extension", "store", "model"}, Goto(c, l), proc' = proc
      PROVE  HarnessInv'
  <2>1. ASSUME Moved(c, l) PROVE Sound(c)'
    <3>1. Stage(c)'
      BY <1>2, <2>1, Kinds DEF Moved, Holding, Sound, Stage, RunContinues, NewLabels,
         ResumeLabels,
         ReadLabels, RunLabels, Starting
    <3>2. Holds(c)' /\ Creates(c)' /\ Starts(c)' /\ Runs(c)'
      BY <1>1, <1>2, <2>1, Kinds DEF Moved, Holding, Sound, Stage, Holds, Creates, Starts,
         Starting,
         Runs, RunContinues, Viewed, Full, View, Catalog, SameParts, SameStore, SameContexts,
         SameExtensions,
         harness, history, parts, OnSession, NewLabels, ResumeLabels, ReadLabels, RunLabels
    <3> QED BY <3>1, <3>2 DEF Sound
  <2> QED BY <1>1, <1>2, <2>1, MoveStep DEF RunContinues, Middle, Labels, parts
<1> QED BY <1>2 DEF RunContinues

LEMMA ModelReturnsStep ==
  ASSUME HarnessInv, NEW c \in Callers, ModelReturns(c)
  PROVE  HarnessInv'
<1>1. PartTypes' /\ SameParts
  BY DEF HarnessInv, Types, PartTypes, ModelReturns, parts,
     SameParts, SameStore, SameContexts, SameExtensions
<1>2. ASSUME NEW l \in {"run"}, Goto(c, l), proc' = proc
      PROVE  HarnessInv'
  <2>1. ASSUME Moved(c, l) PROVE Sound(c)'
    <3>1. Stage(c)'
      BY <1>2, <2>1, Kinds DEF Moved, Holding, Sound, Stage, ModelReturns, NewLabels,
         ResumeLabels,
         ReadLabels, RunLabels, Starting
    <3>2. Holds(c)' /\ Creates(c)' /\ Starts(c)' /\ Runs(c)'
      BY <1>1, <1>2, <2>1, Kinds DEF Moved, Holding, Sound, Stage, Holds, Creates, Starts,
         Starting,
         Runs, ModelReturns, Viewed, Full, View, Catalog, SameParts, SameStore, SameContexts,
         SameExtensions,
         harness, history, parts, OnSession, NewLabels, ResumeLabels, ReadLabels, RunLabels
    <3> QED BY <3>1, <3>2 DEF Sound
  <2> QED BY <1>1, <1>2, <2>1, MoveStep DEF ModelReturns, Middle, Labels, parts
<1> QED BY <1>2 DEF ModelReturns

LEMMA ExpandStep ==
  ASSUME HarnessInv, NEW c \in Callers, Expand(c)
  PROVE  HarnessInv'
<1>1. PartTypes' /\ SameParts
  BY DEF HarnessInv, Types, PartTypes, Expand, parts,
     SameParts, SameStore, SameContexts, SameExtensions
<1>2. CASE Fail(c)
  BY <1>1, <1>2, FailStep DEF Expand, parts, history, harness
<1>3. ASSUME NEW l \in {"expanding"}, Goto(c, l), proc' = proc
      PROVE  HarnessInv'
  <2>1. ASSUME Moved(c, l) PROVE Sound(c)'
    <3>1. Stage(c)'
      BY <1>3, <2>1, Kinds DEF Moved, Holding, Sound, Stage, Expand, NewLabels, ResumeLabels,
         ReadLabels, RunLabels, Starting
    <3>2. Holds(c)' /\ Creates(c)' /\ Starts(c)' /\ Runs(c)'
      BY <1>1, <1>3, <2>1, Kinds DEF Moved, Holding, Sound, Stage, Holds, Creates, Starts,
         Starting,
         Runs, Expand, Viewed, Full, View, Catalog, SameParts, SameStore, SameContexts,
         SameExtensions,
         harness, history, parts, OnSession, NewLabels, ResumeLabels, ReadLabels, RunLabels
    <3> QED BY <3>1, <3>2 DEF Sound
  <2> QED BY <1>1, <1>3, <2>1, MoveStep DEF Expand, Middle, Labels, parts
<1> QED BY <1>2, <1>3 DEF Expand

LEMMA SetterTypes ==
  ASSUME CallerTypes, NEW c \in Callers, UNCHANGED pc,
         NEW x \in BOOLEAN, Local(c, "cancelled", x)
  PROVE  CallerTypes' /\ \A d \in Callers : Same(d)
<1>1. proc' \in [Callers -> Process] /\ \A d \in Callers : d # c => proc'[d] = proc[d]
  BY DEF CallerTypes, Local, Process
<1>2. Same(c)
  BY DEF CallerTypes, Local, Process, Same
<1> QED BY <1>1, <1>2 DEF CallerTypes, Same

(* A cancellation is of no concern to the invariant.                       *)
LEMMA CancelledStep ==
  ASSUME HarnessInv, NEW c \in Callers, HostCancels(c) \/ linkedOperationContext(c)
  PROVE  HarnessInv'
<1>1. UNCHANGED <<harness, parts, history, pc>> /\ Local(c, "cancelled", TRUE)
  BY DEF HostCancels, linkedOperationContext
<1>2. CallerTypes' /\ \A d \in Callers : Same(d)
  BY <1>1, SetterTypes, Kinds
<1>3. PartTypes' /\ SameParts
  BY <1>1 DEF HarnessInv, Types, PartTypes, SameParts, SameStore, SameContexts, SameExtensions,
     parts
<1>4. Stage(c)' /\ Holds(c)' /\ Creates(c)'
  BY <1>1, <1>2, Kinds DEF Same, Sound, Stage, Holds, Creates, history, parts, harness
<1>5. Starts(c)' /\ Runs(c)'
  BY <1>1, <1>2, Kinds DEF Same, Sound, Starts, Runs, Viewed, Full, history, parts, harness
<1>6. Onward(c)
  BY <1>2 DEF Onward, Same, Others
<1> QED BY <1>1, <1>2, <1>3, <1>4, <1>5, <1>6, QuietStep DEF Sound, parts

LEMMA TakeViewStep ==
  ASSUME HarnessInv, NEW c \in Callers, TakeView(c)
  PROVE  HarnessInv'
<1>1. PartTypes' /\ SameParts
  BY DEF HarnessInv, Types, PartTypes, TakeView, LeaveContexts, parts, SameParts, SameStore,
     SameContexts,
     SameExtensions
<1>2. CASE Fail(c)
  BY <1>1, <1>2, FailStep DEF TakeView
<1>3. CASE Goto(c, "render") /\ Local(c, "view", View(c)) /\ View(c) # "none"
  <2>1. proc[c].inRun /\ proc[c].ses \in Sessions /\ active[proc[c].ses] = c
    BY OnlyRuns, InRun DEF TakeView
  <2>2. View(c) \in {"plain", "policy"} /\ ~contexts.closed
    BY <1>3, <2>1 DEF View, HarnessInv, Ordered, Types, PartTypes
  <2>3. View(c) = "policy" <=> proc[c].op = "template"
    BY <2>1, <2>2, Kinds DEF View, TakeView, Sound, Runs, HarnessInv, Policies
  <2>4. CallerTypes' /\ Others(c)
    <3>1. proc' \in [Callers -> Process] /\ \A d \in Callers : d # c => proc'[d] = proc[d]
      BY <1>3, <2>2, Kinds DEF CallerTypes, Local, Process
    <3> QED BY <1>3, <3>1, Goes, Kinds DEF CallerTypes, Others, Same, Labels
  <2>5. pc'[c] = "render" /\ Holding(c, proc[c].inRun, proc[c].recs, View(c), proc[c].result)
    <3>1. proc'[c] = [proc[c] EXCEPT !["view"] = View(c)]
      BY <1>3, Kinds DEF CallerTypes, Local
    <3> QED BY <1>3, <3>1, Goes, Kinds DEF CallerTypes, Process, Holding, Labels
  <2>6. Onward(c)
    BY <2>4, <2>5 DEF Onward, Holding, TakeView
  <2>7. Stage(c)'
    BY <2>5, Kinds DEF Holding, TakeView, Sound, Stage, NewLabels, ResumeLabels, ReadLabels,
       RunLabels, Starting
  <2>8. Holds(c)' /\ Creates(c)' /\ Starts(c)' /\ Runs(c)'
    BY <1>1, <2>3, <2>5, Kinds DEF Holding, TakeView, Sound, Holds, Creates, Starts, Starting,
       Runs,
       SameParts, SameStore, SameContexts, harness, history
  <2> QED BY <1>1, <2>4, <2>5, <2>6, <2>7, <2>8, QuietStep DEF Sound, TakeView
<1> QED BY <1>2, <1>3 DEF TakeView

LEMMA InstructionRecordsStep ==
  ASSUME HarnessInv, NEW c \in Callers, InstructionRecords(c)
  PROVE  HarnessInv'
<1>1. PartTypes' /\ SameParts
  BY DEF HarnessInv, Types, PartTypes, InstructionRecords, parts, SameParts, SameStore,
     SameContexts,
     SameExtensions
<1> DEFINE b == ~contexts.closed /\ View(c) # "none"
<1>2. pc[c] = "records" /\ Goto(c, "extension") /\ proc' = [proc EXCEPT ![c]["recs"] = b] /\ b \in BOOLEAN
  BY Zenon DEF InstructionRecords, Local
<1>3. proc[c].op \in {"new", "resume"}
  BY <1>2, Kinds DEF Sound, Stage, ReadLabels, RunLabels, CallerTypes, Process
<1>4. b \/ extensions.closed
  BY <1>2, <1>3, Kinds DEF View, Sound, Starts, Viewed, HarnessInv, Ordered, AfterContexts,
     AfterExtensions
<1> HIDE DEF b
<1>5. CallerTypes' /\ Others(c)
  <2>1. proc' \in [Callers -> Process] /\ \A d \in Callers : d # c => proc'[d] = proc[d]
    BY <1>2, Kinds DEF CallerTypes, Process
  <2> QED BY <1>2, <2>1, Goes, Kinds DEF CallerTypes, Others, Same, Labels
<1>6. pc'[c] = "extension" /\ Holding(c, proc[c].inRun, b, proc[c].view, proc[c].result)
  <2>1. proc'[c] = [proc[c] EXCEPT !["recs"] = b]
    BY <1>2, Kinds DEF CallerTypes
  <2> QED BY <1>2, <2>1, Goes, Kinds DEF CallerTypes, Process, Holding, Labels
<1>7. Onward(c)
  BY <1>2, <1>5, <1>6 DEF Onward, Holding
<1>8. Stage(c)'
  BY <1>2, <1>3, <1>6, Kinds DEF Holding, Sound, Stage, NewLabels, ResumeLabels, ReadLabels,
     RunLabels, Starting
<1>9. Holds(c)' /\ Creates(c)' /\ Starts(c)' /\ Runs(c)'
  BY <1>1, <1>2, <1>4, <1>6, Kinds DEF Holding, InstructionRecords, Sound, Stage, Holds,
     Creates, Starts, Starting, Runs,
     Viewed, Full, SameParts, SameStore, SameContexts, SameExtensions, harness, history, parts
<1> QED BY <1>1, <1>5, <1>6, <1>7, <1>8, <1>9, QuietStep DEF Sound, InstructionRecords, parts

LEMMA AdmitFails ==
  ASSUME HarnessInv, NEW c \in Callers, pc[c] = "admit", Fail(c),
         UNCHANGED <<harness, parts, history>>
  PROVE  HarnessInv'
<1>1. PartTypes' /\ SameParts
  BY DEF HarnessInv, Types, PartTypes, parts, SameParts, SameStore, SameContexts, SameExtensions
<1> QED BY <1>1, FailStep DEF parts

(* A move that also sets the result.                                       *)
LEMMA EndStep ==
  ASSUME HarnessInv, NEW c \in Callers, NEW l \in Labels, NEW v \in {"none", "ok", "failed"},
         pc[c] \notin {"done1", "done2"}, l \notin {"idle", "admit", "done1", "done2", "cancel"},
         l = "leave" => ~proc[c].inRun /\ (proc[c].op = "new" /\ proc[c].ses # NULL => v = "ok"),
         Goto(c, l), Local(c, "result", v), PartTypes', SameParts, Ended(c, l, v) => Sound(c)',
         UNCHANGED <<harness, mcpClosed, history>>
  PROVE  HarnessInv'
<1>1. CallerTypes' /\ Ended(c, l, v)
  BY Ender, Kinds
<1>2. Onward(c)
  BY <1>1 DEF Ended, Holding, Onward
<1> QED BY <1>1, <1>2, QuietStep DEF Ended

LEMMA SucceedStep ==
  ASSUME HarnessInv, NEW c \in Callers, Succeed(c), proc[c].op \in {"list", "get"},
         pc[c] \in {"snapshot", "expanding"}, UNCHANGED <<harness, parts, history>>
  PROVE  HarnessInv'
<1>1. PartTypes' /\ SameParts
  BY DEF HarnessInv, Types, PartTypes, parts, SameParts, SameStore, SameContexts, SameExtensions
<1>2. Sound(c) /\ ~proc[c].inRun
  BY Kinds DEF Sound, Stage
<1>3. ASSUME Ended(c, "leave", "ok") PROVE Sound(c)'
  BY <1>1, <1>2, <1>3 DEF Ended, Holding, Sound, Stage, ReadLabels, RunLabels, Holds, OnSession,
     Creates, Starts, Starting, Runs, harness, history
<1> QED BY <1>1, <1>2, <1>3, EndStep DEF Succeed, Labels, parts

LEMMA RunEndsStep ==
  ASSUME HarnessInv, NEW c \in Callers, RunEnds(c)
  PROVE  HarnessInv'
<1>1. PartTypes' /\ SameParts
  BY DEF HarnessInv, Types, PartTypes, RunEnds, parts, SameParts, SameStore, SameContexts,
     SameExtensions
<1>2. PICK v \in {"ok", "failed"} : Local(c, "result", v)
  BY DEF RunEnds
<1>3. pc[c] = "run" /\ Sound(c) /\ proc[c].inRun /\ proc[c].op \in {"run", "template"}
  BY Kinds, OnlyRuns, InRun DEF RunEnds
<1>4. ASSUME Ended(c, "releaserun", v) PROVE Sound(c)'
  BY <1>1, <1>3, <1>4 DEF Ended, Holding, Sound, Stage, RunLabels, Holds, OnSession,
     Creates, Starts, Starting, Runs, SameParts, SameContexts, RunEnds, harness, history
<1> QED BY <1>1, <1>2, <1>3, <1>4, EndStep DEF RunEnds, Labels, parts

LEMMA ExpandedStep ==
  ASSUME HarnessInv, NEW c \in Callers, Expanded(c)
  PROVE  HarnessInv'
<1>1. PartTypes' /\ SameParts
  BY DEF HarnessInv, Types, PartTypes, Expanded, parts, SameParts, SameStore, SameContexts,
     SameExtensions
<1>2. CASE Fail(c)
  BY <1>1, <1>2, FailStep DEF Expanded, parts
<1>3. CASE proc[c].op = "get" /\ Succeed(c)
  BY <1>3, SucceedStep DEF Expanded
<1>4. CASE proc[c].op = "template" /\ Goto(c, "policy") /\ proc' = proc
  <2>1. ~proc[c].inRun /\ Sound(c)
    BY <1>4, Kinds DEF Expanded, Sound, Stage, RunLabels
  <2>2. ASSUME Moved(c, "policy") PROVE Sound(c)'
    BY <1>1, <1>4, <2>1, <2>2 DEF Moved, Holding, Sound, Stage, ReadLabels, Holds, OnSession,
       Expanded,
       Creates, Starts, Starting, Runs, harness, history
  <2> QED BY <1>1, <1>4, <2>2, MoveStep DEF Expanded, Middle, Labels, parts
<1> QED BY <1>2, <1>3, <1>4 DEF Expanded

LEMMA SnapshotStep ==
  ASSUME HarnessInv, NEW c \in Callers, Snapshot(c)
  PROVE  HarnessInv'
<1>1. PartTypes' /\ SameParts
  BY DEF HarnessInv, Types, PartTypes, Snapshot, parts, SameParts, SameStore, SameContexts,
     SameExtensions
<1>2. CASE Fail(c)
  BY <1>1, <1>2, FailStep DEF Snapshot, parts
<1>3. CASE proc[c].op = "list" /\ Succeed(c)
  BY <1>3, SucceedStep DEF Snapshot
<1>4. CASE Goto(c, "expand") /\ proc' = proc
  <2>1. Sound(c) /\ ~proc[c].inRun /\ proc[c].op \in {"list", "get", "template"}
    BY Kinds DEF Snapshot, Sound, Stage, NewLabels, ResumeLabels, RunLabels, Starting
  <2>2. ASSUME Moved(c, "expand") PROVE Sound(c)'
    BY <1>1, <1>4, <2>1, <2>2 DEF Moved, Holding, Sound, Stage, ReadLabels, Holds, OnSession,
       Snapshot,
       Creates, Starts, Starting, Runs, harness, history
  <2> QED BY <1>1, <1>4, <2>2, MoveStep DEF Snapshot, Middle, Labels, parts
<1> QED BY <1>2, <1>3, <1>4 DEF Snapshot

LEMMA CloseReturnsStep ==
  ASSUME HarnessInv, NEW c \in Callers, CloseReturns(c)
  PROVE  HarnessInv'
<1>1. PartTypes' /\ SameParts
  BY DEF HarnessInv, Types, PartTypes, CloseReturns, parts, SameParts, SameStore, SameContexts,
     SameExtensions
<1>2. CASE proc[c].inRun
  <2>1. proc[c].op \in {"run", "template"} /\ Sound(c)
    BY <1>2, InRun, Kinds
  <2>2. ASSUME Moved(c, "run") PROVE Sound(c)'
    BY <1>1, <1>2, <2>1, <2>2 DEF Moved, Holding, Sound, Stage, RunLabels, Holds, OnSession,
       CloseReturns,
       Creates, Starts, Starting, Runs, SameParts, SameContexts, harness, history
  <2> QED BY <1>1, <1>2, <2>2, MoveStep DEF CloseReturns, Middle, Labels, parts
<1>3. CASE ~proc[c].inRun
  <2>1. proc[c].op = "none" /\ Sound(c)
    BY <1>3, Kinds DEF CloseReturns, Sound, Stage, NewLabels, ResumeLabels, ReadLabels, Starting
  <2>2. CallerTypes' /\ Moved(c, "idle")
    BY <1>3, Mover, Kinds DEF CloseReturns, Labels
  <2>3. Onward(c)
    BY <2>1, <2>2 DEF Moved, Holding, Onward, CloseReturns
  <2>4. Sound(c)'
    BY <2>1, <2>2 DEF Moved, Holding, Sound, Stage, Holds, OnSession, Creates, Starts, Starting,
       Runs,
       CloseReturns
  <2> QED BY <1>1, <2>2, <2>3, <2>4, QuietStep DEF CloseReturns, Moved, parts
<1> QED BY <1>2, <1>3

LEMMA ExtensionFailsStep ==
  ASSUME HarnessInv, NEW c \in Callers, ExtensionFails(c), pc[c] \in {"extension", "catalog"},
         PartTypes', SameParts, UNCHANGED <<harness, mcpClosed, history>>
  PROVE  HarnessInv'
<1>1. CASE proc[c].op \notin {"new", "resume"}
  BY <1>1, FailStep DEF ExtensionFails, Fail
<1>2. CASE proc[c].op \in {"new", "resume"}
  <2>1. Sound(c) /\ ~proc[c].inRun
    BY <1>2, Kinds DEF Sound, Stage
  <2>2. ASSUME Ended(c, "dropcontext", "failed") PROVE Sound(c)'
    BY <1>2, <2>1, <2>2 DEF Ended, Holding, Sound, Stage, NewLabels, ResumeLabels, Starting,
       Holds,
       OnSession, Creates, Starts, Runs, SameParts, SameStore, harness, history
  <2> QED BY <1>2, <2>1, <2>2, EndStep DEF ExtensionFails, Fails, Labels
<1> QED BY <1>1, <1>2

LEMMA CallExtensionsStep ==
  ASSUME HarnessInv, NEW c \in Callers, CallExtensions(c)
  PROVE  HarnessInv'
<1>1. PartTypes' /\ SameParts
  BY DEF HarnessInv, Types, PartTypes, CallExtensions, SameParts, SameStore, SameContexts,
     SameExtensions
<1>2. CASE Cancelled(c) \/ extensions.closed
  BY <1>1, <1>2, ExtensionFailsStep DEF CallExtensions
<1>3. CASE ~(Cancelled(c) \/ extensions.closed) /\ Catalog(c) # "none"
  <2>1. proc[c].op \notin {"new", "resume"} /\ Sound(c)
    BY <1>3, Kinds DEF CallExtensions, Catalog, Sound, Starts, Starting
  <2>2. PICK l \in {"run", "snapshot"} : Goto(c, l) /\ proc' = proc /\ (l = "run" <=> proc[c].inRun)
    BY <1>3, <2>1 DEF CallExtensions, ExtensionDone, AfterExtension
  <2>3. ASSUME Moved(c, l) PROVE Sound(c)'
    BY <1>1, <2>1, <2>2, <2>3 DEF Moved, Holding, Sound, Stage, ReadLabels, RunLabels, Holds,
       OnSession,
       CallExtensions, Creates, Starts, Starting, Runs, SameParts, SameContexts, harness, history
  <2> QED BY <1>1, <2>2, <2>3, MoveStep DEF CallExtensions, Middle, Labels
<1>4. CASE ~(Cancelled(c) \/ extensions.closed) /\ Catalog(c) = "none"
  <2>1. Sound(c)
    BY Kinds
  <2>2. ASSUME Moved(c, "catalog") PROVE Sound(c)'
    <3>1. Stage(c)' /\ Holds(c)' /\ Creates(c)'
      BY <1>1, <2>1, <2>2 DEF Moved, Holding, Sound, Stage, NewLabels, ResumeLabels, ReadLabels,
         RunLabels,
         Starting, Holds, OnSession, CallExtensions, Creates, SameParts, SameStore, harness,
         history
    <3>2. Starts(c)' /\ Runs(c)'
      BY <1>1, <1>4, <2>1, <2>2 DEF Moved, Holding, Sound, CallExtensions, Catalog, Starts,
         Starting,
         Viewed, Full, Runs, SameParts, SameContexts, SameExtensions, harness, history
    <3> QED BY <3>1, <3>2 DEF Sound
  <2> QED BY <1>1, <1>4, <2>2, MoveStep DEF CallExtensions, Middle, Labels
<1> QED BY <1>2, <1>3, <1>4

-----------------------------------------------------------------------------
(* Moves that change what the parts keep of the caller's own session.      *)

Within(c) ==
  /\ proc'[c].op = proc[c].op /\ proc'[c].ses = proc[c].ses
  /\ Others(c)
  /\ pc[c] # "done2" /\ pc'[c] \notin {"done2", "cancel"}
  /\ proc[c].op # "none" => pc'[c] \notin {"idle", "admit", "done1"}
Elsewhere(s) == \A t \in Sessions \ {s} :
  /\ contexts'.views[t] = contexts.views[t] /\ contexts'.scopes[t] = contexts.scopes[t]
  /\ extensions'.views[t] = extensions.views[t]
  /\ t \in store'.ids => t \in store.ids
Shutters == contexts'.closed = contexts.closed /\ extensions'.closed = extensions.closed
            /\ store'.pending = store.pending
AtHome(c, s) ==
  /\ contexts.closed => contexts'.views[s] = "none"
  /\ s \in store'.ids => \/ s \in known \cup leftover' \cup {store.pending}
                         \/ proc[c].op = "new" /\ (pc'[c] = "leave" => proc'[c].result = "ok")
  /\ s \in ready' =>
       /\ contexts'.views[s] # "none" \/ contexts.closed
       /\ extensions'.views[s] = "full" \/ (extensions.closed /\ extensions'.views[s] = "none")
  /\ contexts'.views[s] = "policy" => active[s] = c /\ proc[c].op = "template" /\ proc'[c].inRun /\ pc'[c] # "leave"
  /\ contexts'.scopes[s] # "none" =>
       /\ active[s] = c /\ proc'[c].inRun /\ pc'[c] # "leave"
       /\ (contexts'.scopes[s] = "narrowed") <=> (proc[c].op = "template")

LEMMA Bystanders ==
  ASSUME HarnessInv, NEW c \in Callers, NEW d \in Callers, d # c, Owns(c), Others(c),
         UNCHANGED <<harness, used, known>>, ready' \subseteq ready, Shutters,
         Elsewhere(proc[c].ses)
  PROVE  Sound(d)'
<1>1. Same(d) /\ Sound(d)
  BY Kinds DEF Others
<1>2. Stage(d)' /\ Holds(d)' /\ Creates(d)'
  BY <1>1 DEF Same, Sound, Stage, Holds, Creates, Shutters, harness
<1>3. ASSUME Touches(d)
      PROVE  proc[d].ses \in Sessions =>
               /\ contexts'.views[proc[d].ses] = contexts.views[proc[d].ses]
               /\ extensions'.views[proc[d].ses] = extensions.views[proc[d].ses]
  BY <1>3, Unshared DEF Elsewhere
<1>4. proc[d].op \in OnSession \cup {"new", "resume", "none"}
  BY <1>1, Kinds DEF Sound, Stage, OnSession
<1>5. Touches(d) \/ pc[d] \in {"idle", "admit", "leave", "done1", "done2", "cancel", "closing"}
  BY <1>1, <1>4 DEF Sound, Stage, Touches
<1>6. Touches(d) /\ proc[d].ses = NULL => pc[d] \in {"store", "storing", "leave", "done1"} /\ proc[d].result # "ok"
  BY <1>1, <1>4, Kinds DEF Sound, Holds, Creates, Touches, HarnessInv, Types, HistoryTypes
<1>7. Runs(d)'
  <2>1. ASSUME proc[d].op = "template", proc[d].inRun, pc[d] \notin {"leave", "done1"}
        PROVE  Touches(d) /\ proc[d].ses \in Sessions
    BY <1>1, <2>1, InRun DEF Touches, OnSession
  <2> QED BY <1>1, <1>3, <2>1 DEF Same, Sound, Runs, Shutters
<1>8. Starts(d)'
  <2>1. pc[d] \in Starting => Touches(d) /\ proc[d].ses \in Sessions
    BY <1>5, <1>6, Kinds DEF Starting
  <2>2. proc[d].op \in {"new", "resume"} /\ pc[d] = "leave" /\ proc[d].result = "ok" =>
          Touches(d) /\ proc[d].ses \in Sessions
    BY <1>6, Kinds DEF Touches
  <2> QED BY <1>1, <1>3, <2>1, <2>2 DEF Same, Sound, Starts, Starting, Viewed, Full, Shutters
<1> QED BY <1>2, <1>7, <1>8 DEF Sound

LEMMA OwnStep ==
  ASSUME HarnessInv, NEW c \in Callers, Owns(c), Within(c), CallerTypes', PartTypes',
         UNCHANGED <<harness, mcpClosed, used, known>>, ready' \subseteq ready,
         leftover \subseteq leftover', leftover' \subseteq used,
         Shutters, Elsewhere(proc[c].ses), AtHome(c, proc[c].ses), Sound(c)'
  PROVE  HarnessInv'
<1> DEFINE s == proc[c].ses
<1>0. Types'
  BY DEF HarnessInv, Types, HarnessTypes, HistoryTypes, harness
<1>1. \A d \in Callers : proc'[d].op = proc[d].op /\ proc'[d].ses = proc[d].ses
  BY DEF Within, Others, Same
<1>2. Balanced'
  <2>1. Inside' = Inside
    BY <1>1 DEF Inside
  <2>2. \A d \in Callers : pc'[d] = "done2" <=> pc[d] = "done2"
    BY DEF Within, Others, Same
  <2>3. Doubly' = Doubly
    BY <1>1, <2>2 DEF Doubly, harness
  <2> QED BY <2>1, <2>3 DEF HarnessInv, Balanced, harness
<1>3. s \in Sessions /\ s \in used /\ s # store.pending
  BY Kinds DEF Owns, HarnessInv, Sound, Creates, Admitted, Pending, Types, HistoryTypes
<1>4. Ordered' /\ Pending' /\ Fresh'
  BY <1>3 DEF HarnessInv, Ordered, Pending, Fresh, Shutters, Elsewhere, AtHome, harness
<1>5. InterruptsOnlyAfterTimeout' /\ OneCanceller'
  BY <1>1 DEF HarnessInv, InterruptsOnlyAfterTimeout, InCall, OneCanceller, Within, Others,
     Same, harness
<1>6. \A d \in Callers : Sound(d)'
  BY Bystanders DEF Within
<1>7. Admitted' /\ Alone'
  BY <1>1 DEF HarnessInv, Admitted, Alone, Types, HarnessTypes, Within, Others, Same, harness,
     OnSession
<1>8. Accounted'
  <2>1. ASSUME NEW t \in store'.ids, t # s
        PROVE  \/ t \in known' \cup leftover' \cup {store'.pending}
               \/ \E d \in Callers : /\ proc'[d].op = "new" /\ proc'[d].ses = t
                                     /\ pc'[d] # "done1" /\ (pc'[d] = "leave" => proc'[d].result = "ok")
    <3>1. t \in store.ids
      BY <2>1 DEF PartTypes, Elsewhere
    <3>2. CASE t \in known \cup leftover \cup {store.pending}
      BY <3>2 DEF Shutters
    <3>3. ASSUME NEW d \in Callers, proc[d].op = "new", proc[d].ses = t, pc[d] # "done1",
                 pc[d] = "leave" => proc[d].result = "ok"
          PROVE  Same(d)
      BY <2>1, <3>3 DEF Within, Others
    <3> QED BY <3>1, <3>2, <3>3 DEF HarnessInv, Accounted, Same
  <2>2. ASSUME s \in store'.ids
        PROVE  \/ s \in known' \cup leftover' \cup {store'.pending}
               \/ /\ proc'[c].op = "new" /\ proc'[c].ses = s
                  /\ pc'[c] # "done1" /\ (pc'[c] = "leave" => proc'[c].result = "ok")
    BY <2>2 DEF AtHome, Shutters, Within
  <2> QED BY <2>1, <2>2 DEF Accounted
<1>9. Readied'
  BY <1>3 DEF HarnessInv, Readied, Viewed, Full, Types, HistoryTypes, Shutters, Elsewhere, AtHome
<1>10. ASSUME NEW t \in Sessions, t # s, active[t] # NULL
       PROVE  active[t] \in Callers /\ active'[t] = active[t] /\ Same(active[t])
  BY <1>10 DEF HarnessInv, Admitted, Types, HarnessTypes, Within, Others, harness
<1>11. Policies' /\ Scopes'
  BY <1>1, <1>3, <1>10, Nulls DEF HarnessInv, Policies, Scopes, Elsewhere, AtHome, Same, harness
<1> QED BY <1>0, <1>2, <1>4, <1>5, <1>6, <1>7, <1>8, <1>9, <1>11 DEF HarnessInv

LEMMA OwnMove ==
  ASSUME HarnessInv, NEW c \in Callers, NEW l \in Labels \ {"idle", "admit", "done1", "done2",
         "cancel"},
         pc[c] # "done2", Owns(c), Goto(c, l), proc' = proc, PartTypes',
         UNCHANGED <<harness, mcpClosed, used, known>>, ready' \subseteq ready,
         leftover \subseteq leftover', leftover' \subseteq used, Shutters, Elsewhere(proc[c].ses),
         Moved(c, l) => AtHome(c, proc[c].ses) /\ Sound(c)'
  PROVE  HarnessInv'
<1>1. CallerTypes' /\ Moved(c, l)
  BY Mover, Kinds
<1>2. Within(c)
  BY <1>1 DEF Moved, Holding, Within
<1> QED BY <1>1, <1>2, OwnStep

(* Whose the session of a caller is.                                       *)
LEMMA Owner ==
  ASSUME HarnessInv, NEW c \in Callers, pc[c] \notin {"idle", "admit", "store", "storing",
         "leave",
         "done1", "done2", "cancel", "closing"}
  PROVE  /\ Owns(c) /\ proc[c].ses \in Sessions /\ proc[c].op \in OnSession \cup {"new", "resume"}
         /\ proc[c].op # "new" => active[proc[c].ses] = c
<1>1. proc[c].op \in OnSession \cup {"new", "resume"}
  BY Kinds DEF Sound, Stage, OnSession
<1>2. CASE proc[c].op = "new"
  BY <1>2, Kinds DEF Sound, Creates, Owns
<1>3. CASE proc[c].op # "new"
  BY <1>1, <1>3, Kinds DEF Sound, Holds, Owns, OnSession, HarnessInv, Types, HistoryTypes
<1> QED BY <1>1, <1>2, <1>3

LEMMA Newborn ==
  ASSUME HarnessInv, NEW c \in Callers, proc[c].op = "new", proc[c].ses # NULL, pc[c] # "done1"
  PROVE  /\ proc[c].ses \in Sessions /\ proc[c].ses \notin known /\ proc[c].ses \notin ready
         /\ active[proc[c].ses] = NULL /\ contexts.views[proc[c].ses] # "policy"
         /\ contexts.scopes[proc[c].ses] = "none"
<1>1. proc[c].ses \in Sessions /\ proc[c].ses \notin known /\ proc[c].ses \notin ready
  BY Kinds DEF Sound, Creates, HarnessInv, Types, HistoryTypes
<1>2. active[proc[c].ses] = NULL
  BY <1>1 DEF HarnessInv, Admitted
<1> QED BY <1>1, <1>2 DEF HarnessInv, Policies, Scopes

LEMMA CallDeleteStep ==
  ASSUME HarnessInv, NEW c \in Callers, CallDelete(c)
  PROVE  HarnessInv'
<1>1. PartTypes' /\ Shutters /\ Elsewhere(proc[c].ses) /\ SameContexts /\ SameExtensions
  BY DEF HarnessInv, Types, PartTypes, CallDelete, Shutters, Elsewhere, SameContexts,
     SameExtensions
<1>2. /\ Owns(c) /\ proc[c].op = "new" /\ proc[c].ses # NULL /\ proc[c].ses \in Sessions
      /\ proc[c].result # "ok" /\ Sound(c)
  BY Owner, Kinds DEF CallDelete, Sound, Stage, Creates, ResumeLabels, ReadLabels, RunLabels,
     Starting
<1>3. PICK l \in {"leave", "undoing"} : /\ Goto(c, l)
                                        /\ l = "leave" => leftover' = leftover \cup {proc[c].ses}
                                        /\ l # "leave" => leftover' = leftover
  BY DEF CallDelete
<1>4. ASSUME Moved(c, l) PROVE AtHome(c, proc[c].ses) /\ Sound(c)'
  <2>1. AtHome(c, proc[c].ses)
    BY <1>1, <1>2, <1>3, <1>4, Newborn DEF AtHome, Moved, CallDelete, SameContexts, HarnessInv,
       Ordered
  <2>2. Sound(c)'
    BY <1>1, <1>2, <1>3, <1>4 DEF Moved, Holding, Sound, Stage, NewLabels, Holds, OnSession,
       Creates,
       Starts, Starting, Runs, CallDelete, Shutters, harness
  <2> QED BY <2>1, <2>2
<1>5. leftover' \subseteq used /\ leftover \subseteq leftover'
  BY <1>2, <1>3 DEF HarnessInv, Types, HistoryTypes, Sound, Creates
<1> QED BY <1>1, <1>2, <1>3, <1>4, <1>5, OwnMove DEF CallDelete, Labels

LEMMA DeleteReturnsStep ==
  ASSUME HarnessInv, NEW c \in Callers, DeleteReturns(c)
  PROVE  HarnessInv'
<1>0. pc[c] = "undoing" /\ Goto(c, "leave")
      /\ UNCHANGED <<harness, contexts, extensions, mcpClosed, proc, used, known, ready>>
  BY DEF DeleteReturns
<1> DEFINE s == proc[c].ses
<1>1. PICK lost \in SUBSET {s} :
        /\ store' = [store EXCEPT !.ids = @ \ lost, !.inside = @ \ {c}]
        /\ (lost = {s} /\ leftover' = leftover) \/ leftover' = leftover \cup {s}
  BY DEF DeleteReturns
<1>2. /\ Owns(c) /\ proc[c].op = "new" /\ s # NULL /\ s \in Sessions
      /\ proc[c].result # "ok" /\ Sound(c) /\ s \in used
  BY <1>0, Owner, Kinds DEF Sound, Stage, Creates, ResumeLabels, ReadLabels, RunLabels, Starting
<1>3. /\ PartTypes' /\ Shutters /\ Elsewhere(s) /\ SameContexts /\ SameExtensions
      /\ s \in store'.ids => s \in leftover'
  BY <1>0, <1>1 DEF HarnessInv, Types, PartTypes, Shutters, Elsewhere, SameContexts,
     SameExtensions
<1>4. ASSUME Moved(c, "leave") PROVE AtHome(c, s) /\ Sound(c)'
  <2>1. AtHome(c, s)
    BY <1>0, <1>2, <1>3, <1>4, Newborn DEF AtHome, Moved, SameContexts, HarnessInv, Ordered
  <2>2. Sound(c)'
    BY <1>0, <1>2, <1>3, <1>4 DEF Moved, Holding, Sound, Stage, NewLabels, Holds, OnSession,
       Creates,
       Starts, Starting, Runs, Shutters, harness
  <2> QED BY <2>1, <2>2
<1>5. leftover' \subseteq used /\ leftover \subseteq leftover'
  BY <1>1, <1>2 DEF HarnessInv, Types, HistoryTypes
<1> QED BY <1>0, <1>2, <1>3, <1>4, <1>5, OwnMove DEF Labels

LEMMA ContextStartsStep ==
  ASSUME HarnessInv, NEW c \in Callers, ContextStarts(c)
  PROVE  HarnessInv'
<1>0. pc[c] = "discover" /\ UNCHANGED <<harness, store, extensions, mcpClosed, history>>
  BY DEF ContextStarts
<1> DEFINE s == proc[c].ses
           v == IF contexts.views[s] = "none" THEN "plain" ELSE contexts.views[s]
           inside == IF proc[c].inRun THEN contexts.inside ELSE contexts.inside \ {c}
<1>1. CASE LeaveContexts(c) /\ Fail(c)
  <2>1. PartTypes' /\ SameParts
    BY <1>0, <1>1 DEF HarnessInv, Types, PartTypes, LeaveContexts, SameParts, SameStore,
       SameContexts, SameExtensions
  <2> QED BY <1>0, <1>1, <2>1, FailStep
<1>2. CASE /\ ~contexts.closed /\ Goto(c, AfterContext(c)) /\ proc' = proc
           /\ contexts' = [contexts EXCEPT !.views[s] = v, !.inside = inside]
  <2>1. /\ Owns(c) /\ s \in Sessions /\ Sound(c)
        /\ proc[c].op # "new" => active[s] = c
        /\ proc[c].op = "new" => s # NULL
    BY <1>0, Owner, Kinds
  <2>2. v \in {"plain", "policy"} /\ (v = "policy" <=> contexts.views[s] = "policy")
    BY <2>1 DEF HarnessInv, Types, PartTypes
  <2>3. inside \in SUBSET Callers
    BY DEF HarnessInv, Types, PartTypes
  <2> HIDE DEF v, inside
  <2>4. /\ PartTypes' /\ contexts'.scopes = contexts.scopes /\ contexts'.closed = contexts.closed
        /\ contexts'.views[s] = v /\ \A t \in Sessions \ {s} : contexts'.views[t] = contexts.views[t]
    <3> DEFINE f == [contexts.views EXCEPT ![s] = v]
    <3>1. f \in [Sessions -> {"none", "plain", "policy"}] /\ f[s] = v
          /\ \A t \in Sessions \ {s} : f[t] = contexts.views[t]
      BY <2>1, <2>2 DEF HarnessInv, Types, PartTypes
    <3>2. contexts' = [contexts EXCEPT !.views = f, !.inside = inside]
      BY <1>2
    <3> HIDE DEF f
    <3> QED BY <1>0, <2>3, <3>1, <3>2 DEF HarnessInv, Types, PartTypes
  <2>5. Shutters /\ Elsewhere(s)
    BY <1>0, <2>4 DEF Shutters, Elsewhere
  <2>6. PICK l \in {"lookup", "records"} : Goto(c, l) /\ (l = "lookup" <=> proc[c].inRun)
    BY <1>2 DEF AfterContext
  <2>7. ASSUME Moved(c, l) PROVE AtHome(c, s)
    <3>1. /\ pc'[c] # "leave" /\ proc'[c].inRun = proc[c].inRun /\ ready' = ready
          /\ leftover' = leftover /\ store' = store /\ extensions' = extensions
      BY <1>0, <2>7 DEF Moved, Holding, history
    <3>2. CASE proc[c].op = "new"
      BY <1>0, <1>2, <2>1, <2>2, <2>4, <3>1, <3>2, Newborn DEF AtHome
    <3>3. s \in store.ids /\ proc[c].op # "new" => s \in known
      BY <2>1, Nulls DEF HarnessInv, Admitted
    <3>4. CASE proc[c].op # "new"
      BY <1>2, <2>1, <2>2, <2>4, <3>1, <3>3, <3>4, Nulls DEF AtHome, HarnessInv, Policies,
         Scopes, Readied, Full
    <3> QED BY <3>2, <3>4
  <2>8. ASSUME Moved(c, l) PROVE Sound(c)'
    <3>1. Stage(c)' /\ Holds(c)' /\ Creates(c)'
      BY <1>0, <2>1, <2>6, <2>8 DEF Moved, Holding, Sound, Stage, NewLabels, ResumeLabels,
         ReadLabels, RunLabels,
         Starting, Holds, OnSession, Creates, harness, history
    <3>2. Starts(c)' /\ Runs(c)'
      BY <1>0, <1>2, <2>1, <2>2, <2>4, <2>6, <2>8, Kinds DEF Moved, Holding, Sound, Starts,
         Starting, Runs, Viewed,
         Full, harness, history
    <3> QED BY <3>1, <3>2 DEF Sound
  <2> QED BY <1>0, <1>2, <2>1, <2>4, <2>5, <2>6, <2>7, <2>8, OwnMove DEF Labels, history,
             HarnessInv, Types, HistoryTypes
<1> QED BY <1>1, <1>2 DEF ContextStarts, Discovered

LEMMA Known ==
  ASSUME HarnessInv, NEW c \in Callers, NEW s \in Sessions, active[s] = c
  PROVE  s \in known
BY Nulls DEF HarnessInv, Admitted

LEMMA InstructionsStep ==
  ASSUME HarnessInv, NEW c \in Callers, Instructions(c)
  PROVE  HarnessInv'
<1>0. pc[c] = "render" /\ UNCHANGED <<harness, store, extensions, mcpClosed, history>>
  BY DEF Instructions
<1> DEFINE s == proc[c].ses
           w == SetOrIntersectPolicy(contexts.scopes[s], proc[c].view)
<1>1. CASE LeaveContexts(c) /\ Fail(c)
  <2>1. PartTypes' /\ SameParts
    BY <1>0, <1>1 DEF HarnessInv, Types, PartTypes, LeaveContexts, SameParts, SameStore,
       SameContexts, SameExtensions
  <2> QED BY <1>0, <1>1, <2>1, FailStep
<1>2. CASE /\ Goto(c, "run") /\ proc' = proc
           /\ contexts' = [contexts EXCEPT !.inside = @ \ {c}, !.scopes[s] = w]
  <2>1. /\ Owns(c) /\ s \in Sessions /\ Sound(c) /\ active[s] = c /\ s \in known
        /\ proc[c].inRun /\ proc[c].op \in {"run", "template"}
    BY <1>0, Owner, OnlyRuns, InRun, Known, Kinds
  <2>2. w \in {"open", "narrowed"} /\ (w = "narrowed" <=> proc[c].op = "template")
    <3>1. proc[c].view = "policy" <=> proc[c].op = "template"
      BY <1>0, <2>1 DEF Sound, Runs
    <3>2. contexts.scopes[s] = "narrowed" => proc[c].op = "template"
      BY <2>1, Nulls DEF HarnessInv, Scopes
    <3> QED BY <3>1, <3>2 DEF SetOrIntersectPolicy
  <2> HIDE DEF w
  <2>3. /\ PartTypes' /\ contexts'.closed = contexts.closed /\ contexts'.scopes[s] = w
        /\ contexts'.views = contexts.views
        /\ \A t \in Sessions \ {s} : contexts'.scopes[t] = contexts.scopes[t]
    <3> DEFINE g == [contexts.scopes EXCEPT ![s] = w]
               i == contexts.inside \ {c}
    <3>1. /\ g \in [Sessions -> {"none", "open", "narrowed"}] /\ g[s] = w
          /\ \A t \in Sessions \ {s} : g[t] = contexts.scopes[t]
      BY <2>1, <2>2 DEF HarnessInv, Types, PartTypes
    <3>2. i \in SUBSET Callers
      BY DEF HarnessInv, Types, PartTypes
    <3>3. contexts' = [contexts EXCEPT !.inside = i, !.scopes = g]
      BY <1>2
    <3> HIDE DEF g, i
    <3> QED BY <1>0, <3>1, <3>2, <3>3 DEF HarnessInv, Types, PartTypes
  <2>5. Shutters /\ Elsewhere(s)
    BY <1>0, <2>3 DEF Shutters, Elsewhere
  <2>4. ASSUME Moved(c, "run") PROVE AtHome(c, s) /\ Sound(c)'
    <3>1. AtHome(c, s)
      BY <1>0, <2>1, <2>2, <2>3, <2>4, Nulls DEF Moved, Holding, AtHome, HarnessInv, Ordered,
         Policies, Readied,
         Viewed, Full, history
    <3>2. Sound(c)'
      BY <1>0, <2>1, <2>3, <2>4 DEF Moved, Holding, Sound, Stage, RunLabels, Holds, OnSession,
         Creates,
         Starts, Starting, Runs, harness, history
    <3> QED BY <3>1, <3>2
  <2> QED BY <1>0, <1>2, <2>1, <2>3, <2>4, <2>5, OwnMove DEF Labels, history, HarnessInv, Types,
             HistoryTypes
<1> QED BY <1>1, <1>2 DEF Instructions

LEMMA DropContextStep ==
  ASSUME HarnessInv, NEW c \in Callers, DropContext(c)
  PROVE  HarnessInv'
<1>0. /\ pc[c] = "dropcontext" /\ UNCHANGED <<harness, store, extensions, mcpClosed, history>>
      /\ proc' = proc
  BY DEF DropContext
<1> DEFINE s == proc[c].ses
<1>1. /\ Owns(c) /\ s \in Sessions /\ Sound(c) /\ proc[c].op \in {"new", "resume"}
      /\ proc[c].op = "resume" => active[s] = c
      /\ ~proc[c].inRun /\ proc[c].result # "ok" /\ s # NULL
  BY <1>0, Owner, Kinds DEF Sound, Stage, ReadLabels, RunLabels, Starting, OnSession
<1>2. PartTypes' /\ Shutters /\ Elsewhere(s)
      /\ contexts'.closed = contexts.closed /\ contexts'.scopes[s] = "none" /\ contexts'.views[s] = "none"
  <2> DEFINE f == [contexts.views EXCEPT ![s] = "none"]
             g == [contexts.scopes EXCEPT ![s] = "none"]
  <2>1. contexts' = [contexts EXCEPT !.views = f, !.scopes = g]
    BY DEF DropContext, DropView
  <2>2. /\ f \in [Sessions -> {"none", "plain", "policy"}] /\ f[s] = "none"
        /\ g \in [Sessions -> {"none", "open", "narrowed"}] /\ g[s] = "none"
        /\ \A t \in Sessions \ {s} : f[t] = contexts.views[t] /\ g[t] = contexts.scopes[t]
    BY <1>1 DEF HarnessInv, Types, PartTypes
  <2> HIDE DEF f, g
  <2>3. PartTypes' /\ contexts'.closed = contexts.closed /\ contexts'.scopes = g /\ contexts'.views = f
    BY <1>0, <2>1, <2>2 DEF HarnessInv, Types, PartTypes
  <2> QED BY <1>0, <2>2, <2>3 DEF Shutters, Elsewhere
<1>3. PICK l \in {"undo", "leave", "dropextension"} :
        /\ Goto(c, l)
        /\ l = "undo" <=> proc[c].op = "new"
        /\ l = "leave" <=> proc[c].op = "resume" /\ proc[c].result = "failed"
  BY <1>0, <1>1 DEF DropContext, FailTo, Sound, Stage
<1>4. s \notin ready
  BY <1>0, <1>1, Newborn DEF Sound, Starts
<1>5. ASSUME Moved(c, l) PROVE AtHome(c, s) /\ Sound(c)'
  <2>1. s \in store.ids /\ proc[c].op # "new" => s \in known
    BY <1>1, Known
  <2>2. AtHome(c, s)
    BY <1>0, <1>1, <1>2, <1>3, <1>4, <1>5, <2>1 DEF Moved, Holding, AtHome, history
  <2>3. Stage(c)' /\ Holds(c)' /\ Creates(c)'
    BY <1>0, <1>1, <1>3, <1>5 DEF Moved, Holding, Sound, Stage, NewLabels, ResumeLabels, Holds,
       OnSession,
       Creates, harness, history
  <2>4. Starts(c)' /\ Runs(c)'
    BY <1>0, <1>1, <1>3, <1>4, <1>5 DEF Moved, Holding, Sound, Starts, Starting, Runs, history
  <2> QED BY <2>2, <2>3, <2>4 DEF Sound
<1> QED BY <1>0, <1>1, <1>2, <1>3, <1>5, OwnMove DEF Labels, history, HarnessInv, Types,
           HistoryTypes

LEMMA ReleaseRunStep ==
  ASSUME HarnessInv, NEW c \in Callers, ReleaseRun(c)
  PROVE  HarnessInv'
<1>0. /\ pc[c] = "releaserun" /\ UNCHANGED <<harness, store, extensions, mcpClosed, history>>
      /\ proc' = proc /\ Goto(c, "leave")
  BY DEF ReleaseRun
<1> DEFINE s == proc[c].ses
           v == IF contexts.views[s] = "none" THEN contexts.views[s] ELSE "plain"
<1>1. /\ Owns(c) /\ s \in Sessions /\ Sound(c) /\ proc[c].op \in {"run", "template"}
      /\ active[s] = c /\ s \in known
  BY <1>0, Owner, Known, Kinds DEF Sound, Stage, NewLabels, ResumeLabels, ReadLabels, Starting,
     OnSession
<1>2. v \in {"none", "plain"} /\ (v = "none" <=> contexts.views[s] = "none")
  OBVIOUS
<1>3. contexts' = [contexts EXCEPT !.scopes[s] = "none", !.views[s] = v]
  BY DEF ReleaseRun, ReleasedRun
<1> HIDE DEF v
<1>4. PartTypes' /\ Shutters /\ Elsewhere(s)
      /\ contexts'.closed = contexts.closed /\ contexts'.scopes[s] = "none" /\ contexts'.views[s] = v
  <2> DEFINE f == [contexts.views EXCEPT ![s] = v]
             g == [contexts.scopes EXCEPT ![s] = "none"]
  <2>1. contexts' = [contexts EXCEPT !.views = f, !.scopes = g]
    BY <1>3
  <2>2. /\ f \in [Sessions -> {"none", "plain", "policy"}] /\ f[s] = v
        /\ g \in [Sessions -> {"none", "open", "narrowed"}] /\ g[s] = "none"
        /\ \A t \in Sessions \ {s} : f[t] = contexts.views[t] /\ g[t] = contexts.scopes[t]
    BY <1>1, <1>2 DEF HarnessInv, Types, PartTypes
  <2> HIDE DEF f, g
  <2>3. PartTypes' /\ contexts'.closed = contexts.closed /\ contexts'.scopes = g /\ contexts'.views = f
    BY <1>0, <2>1, <2>2 DEF HarnessInv, Types, PartTypes
  <2> QED BY <1>0, <2>2, <2>3 DEF Shutters, Elsewhere
<1>5. ASSUME Moved(c, "leave") PROVE AtHome(c, s) /\ Sound(c)'
  <2>1. AtHome(c, s)
    BY <1>0, <1>1, <1>2, <1>4, <1>5 DEF Moved, Holding, AtHome, HarnessInv, Ordered, Readied,
       Viewed, Full, history
  <2>2. Sound(c)'
    BY <1>0, <1>1, <1>5 DEF Moved, Holding, Sound, Stage, ReadLabels, RunLabels, Holds,
       OnSession, Creates,
       Starts, Starting, Runs, harness, history
  <2> QED BY <2>1, <2>2
<1> QED BY <1>0, <1>1, <1>4, <1>5, OwnMove DEF Labels, history, HarnessInv, Types, HistoryTypes

LEMMA SetRunPolicyStep ==
  ASSUME HarnessInv, NEW c \in Callers, SetRunPolicy(c)
  PROVE  HarnessInv'
<1>0. pc[c] = "policy" /\ UNCHANGED <<harness, store, extensions, mcpClosed, history>>
  BY DEF SetRunPolicy
<1> DEFINE s == proc[c].ses
<1>1. /\ Owns(c) /\ s \in Sessions /\ Sound(c) /\ proc[c].op = "template" /\ ~proc[c].inRun
      /\ active[s] = c /\ s \in known
  BY <1>0, Owner, Known, Kinds DEF Sound, Stage, NewLabels, ResumeLabels, ReadLabels, RunLabels,
     Starting, OnSession
<1>2. CASE Fails(c, "releaserun") /\ UNCHANGED contexts
  <2>1. PartTypes' /\ SameParts
    BY <1>0, <1>2 DEF HarnessInv, Types, PartTypes, SameParts, SameStore, SameContexts,
       SameExtensions
  <2>2. ASSUME Ended(c, "releaserun", "failed") PROVE Sound(c)'
    BY <1>0, <1>1, <2>2 DEF Ended, Holding, Sound, Stage, Holds, OnSession, Creates, Starts,
       Starting, Runs, harness
  <2> QED BY <1>0, <1>1, <1>2, <2>1, <2>2, EndStep DEF Fails, Labels
<1>3. CASE /\ View(c) # "none" /\ contexts' = [contexts EXCEPT !.views[s] = "policy"]
           /\ Goto(c, "store") /\ Local(c, "inRun", TRUE)
  <2>1. /\ PartTypes' /\ contexts'.scopes = contexts.scopes /\ contexts'.closed = contexts.closed
        /\ contexts'.views[s] = "policy" /\ \A t \in Sessions \ {s} : contexts'.views[t] = contexts.views[t]
    <3> DEFINE f == [contexts.views EXCEPT ![s] = "policy"]
    <3>1. f \in [Sessions -> {"none", "plain", "policy"}] /\ f[s] = "policy"
          /\ \A t \in Sessions \ {s} : f[t] = contexts.views[t]
      BY <1>1 DEF HarnessInv, Types, PartTypes
    <3>2. contexts' = [contexts EXCEPT !.views = f]
      BY <1>3
    <3> HIDE DEF f
    <3> QED BY <1>0, <3>1, <3>2 DEF HarnessInv, Types, PartTypes
  <2>2. Shutters /\ Elsewhere(s)
    BY <1>0, <2>1 DEF Shutters, Elsewhere
  <2>3. CallerTypes' /\ Others(c)
    <3> DEFINE b == TRUE
    <3>1. b \in BOOLEAN /\ proc' = [proc EXCEPT ![c]["inRun"] = b]
      BY <1>3 DEF Local
    <3> HIDE DEF b
    <3>2. proc' \in [Callers -> Process] /\ \A d \in Callers : d # c => proc'[d] = proc[d]
      BY <3>1, Kinds DEF CallerTypes, Process
    <3> QED BY <1>3, <3>2, Goes, Kinds DEF CallerTypes, Others, Same, Labels
  <2>4. pc'[c] = "store" /\ Holding(c, TRUE, proc[c].recs, proc[c].view, proc[c].result)
    <3>1. proc'[c] = [proc[c] EXCEPT !["inRun"] = TRUE]
      BY <1>3, Kinds DEF CallerTypes, Local
    <3> QED BY <1>3, <3>1, Goes, Kinds DEF CallerTypes, Process, Holding, Labels
  <2>5. ~contexts.closed
    BY <1>1, <1>3 DEF View, HarnessInv, Ordered
  <2>6. AtHome(c, s)
    <3>1. contexts.scopes[s] = "none"
      BY <1>1, Nulls DEF HarnessInv, Scopes
    <3> QED BY <1>0, <1>1, <1>3, <2>1, <2>4, <2>5, <3>1 DEF View, AtHome, Holding, HarnessInv,
               Readied, Viewed,
          Full, history
  <2>7. Sound(c)'
    BY <1>0, <1>1, <2>1, <2>4 DEF Holding, Sound, Stage, RunLabels, Holds, OnSession, Creates,
       Starts, Starting, Runs, harness, history
  <2>8. Within(c)
    BY <1>0, <2>3, <2>4 DEF Within, Holding
  <2> QED BY <1>0, <1>1, <2>1, <2>2, <2>3, <2>6, <2>7, <2>8, OwnStep DEF history, HarnessInv,
             Types, HistoryTypes
<1> QED BY <1>2, <1>3 DEF SetRunPolicy

LEMMA ExtensionStartsStep ==
  ASSUME HarnessInv, NEW c \in Callers, ExtensionStarts(c)
  PROVE  HarnessInv'
<1>0. pc[c] = "catalog" /\ UNCHANGED <<harness, store, contexts, mcpClosed, history>>
  BY DEF ExtensionStarts
<1> DEFINE s == proc[c].ses
           v == IF proc[c].recs THEN "full" ELSE "plain"
<1>1. /\ Owns(c) /\ s \in Sessions /\ Sound(c) /\ extensions.views[s] = "none"
      /\ proc[c].op \in OnSession \cup {"new", "resume"}
      /\ proc[c].op # "new" => active[s] = c
  BY <1>0, Owner, Kinds DEF Sound, Starts
<1>2. CASE extensions' = [extensions EXCEPT !.inside = @ \ {c}] /\ ExtensionFails(c)
  <2>1. PartTypes' /\ SameParts
    BY <1>0, <1>2 DEF HarnessInv, Types, PartTypes, SameParts, SameStore, SameContexts,
       SameExtensions
  <2> QED BY <1>0, <1>2, <2>1, ExtensionFailsStep
<1>3. CASE /\ ~extensions.closed /\ ExtensionDone(c)
           /\ extensions' = [extensions EXCEPT !.inside = @ \ {c}, !.views[s] = v]
  <2>1. /\ PartTypes' /\ extensions'.closed = extensions.closed
        /\ extensions'.views[s] = v /\ \A t \in Sessions \ {s} : extensions'.views[t] = extensions.views[t]
    <3> DEFINE f == [extensions.views EXCEPT ![s] = v]
    <3>1. f \in [Sessions -> {"none", "plain", "full"}] /\ f[s] = v
          /\ \A t \in Sessions \ {s} : f[t] = extensions.views[t]
      BY <1>1 DEF HarnessInv, Types, PartTypes
    <3>2. extensions' = [extensions EXCEPT !.inside = @ \ {c}, !.views = f]
      BY <1>3
    <3> HIDE DEF f, v
    <3> QED BY <1>0, <3>1, <3>2 DEF HarnessInv, Types, PartTypes
  <2>2. Shutters /\ Elsewhere(s)
    BY <1>0, <2>1 DEF Shutters, Elsewhere
  <2>3. s \notin ready
    BY <1>1, <1>3 DEF HarnessInv, Readied, Full
  <2>4. proc[c].op \in {"new", "resume"} => v = "full" /\ Viewed(s) /\ ~proc[c].inRun
    BY <1>0, <1>1, <1>3 DEF Sound, Starts, Stage
  <2>5. PICK l \in {"run", "leave", "snapshot"}, r \in {"none", "ok", "failed"} :
          /\ CallerTypes' /\ Ended(c, l, r)
          /\ l = "run" <=> proc[c].inRun
          /\ l = "leave" <=> proc[c].op \in {"new", "resume"}
          /\ IF l = "leave" THEN r = "ok" ELSE r = proc[c].result
    <3>1. CASE AfterExtension(c) = "leave"
      <4>1. proc[c].op \in {"new", "resume"} /\ ~proc[c].inRun
        BY <3>1 DEF AfterExtension
      <4> QED BY <1>3, <3>1, <4>1, Ender, Kinds DEF ExtensionDone, Labels
    <3>2. CASE AfterExtension(c) # "leave"
      <4>1. /\ AfterExtension(c) \in {"run", "snapshot"} /\ AfterExtension(c) \in Labels
            /\ AfterExtension(c) = "run" <=> proc[c].inRun
            /\ proc[c].op \notin {"new", "resume"}
        BY <1>1, <2>4, <3>2 DEF AfterExtension, Labels
      <4>2. CallerTypes' /\ Moved(c, AfterExtension(c))
        BY <1>3, <3>2, <4>1, Mover, Kinds DEF ExtensionDone
      <4>3. proc[c].result \in {"none", "ok", "failed"}
        BY Kinds DEF CallerTypes, Process
      <4> QED BY <4>1, <4>2, <4>3 DEF Moved, Ended
    <3> QED BY <3>1, <3>2
  <2> HIDE DEF v
  <2>6. pc'[c] = l /\ proc'[c].result = r /\ Holding(c, proc[c].inRun, proc[c].recs, proc[c].view, r)
        /\ Within(c)
    BY <1>0, <2>5 DEF Ended, Holding, Within
  <2>7. AtHome(c, s)
    <3>1. contexts.closed => contexts.views[s] = "none"
      BY <1>1 DEF HarnessInv, Ordered
    <3>2. CASE proc[c].op = "new"
      BY <1>0, <1>1, <2>3, <2>5, <2>6, <3>1, <3>2, Newborn, Nulls DEF AtHome, history
    <3>3. CASE proc[c].op # "new"
      BY <1>0, <1>1, <2>3, <2>5, <2>6, <3>1, <3>3, Known, Nulls DEF AtHome, Holding, HarnessInv,
         Policies, Scopes, history,
         Sound, Stage
    <3> QED BY <3>2, <3>3
  <2>8. Sound(c)'
    <3>1. Stage(c)'
      BY <1>0, <1>1, <2>5, <2>6 DEF Holding, Sound, Stage, NewLabels, ResumeLabels, ReadLabels,
         RunLabels, OnSession
    <3>2. Holds(c)' /\ Creates(c)' /\ Runs(c)'
      BY <1>0, <1>1, <2>5, <2>6 DEF Holding, Sound, Holds, OnSession, Creates, Runs, harness,
         history
    <3>3. Starts(c)'
      BY <1>0, <1>1, <2>1, <2>4, <2>5, <2>6 DEF Holding, Starts, Starting, Viewed, Full
    <3> QED BY <3>1, <3>2, <3>3 DEF Sound
  <2> QED BY <1>0, <1>1, <2>1, <2>2, <2>5, <2>6, <2>7, <2>8, OwnStep DEF history, HarnessInv,
             Types, HistoryTypes
<1> QED BY <1>2, <1>3 DEF ExtensionStarts

LEMMA DropMCPStep ==
  ASSUME HarnessInv, NEW c \in Callers, DropMCP(c)
  PROVE  HarnessInv'
<1>0. pc[c] = "dropmcp" /\ UNCHANGED <<harness, parts, used, known, leftover>>
  BY DEF DropMCP
<1> DEFINE s == proc[c].ses
<1>1. /\ Owns(c) /\ s \in Sessions /\ Sound(c) /\ proc[c].op = "resume" /\ active[s] = c /\ s \in known
      /\ ~proc[c].inRun /\ proc[c].result # "ok"
  BY <1>0, Owner, Known, Kinds DEF Sound, Stage, NewLabels, ReadLabels, RunLabels, Starting,
     OnSession
<1>2. PartTypes' /\ SameParts /\ Shutters /\ Elsewhere(s)
  BY <1>0 DEF HarnessInv, Types, PartTypes, SameParts, SameStore, SameContexts, SameExtensions,
     parts,
     Shutters, Elsewhere
<1>3. CASE Fail(c) /\ UNCHANGED ready
  BY <1>0, <1>2, <1>3, FailStep DEF parts, history
<1>4. CASE Goto(c, "dropcontext") /\ proc' = proc /\ ready' = ready \ {s}
  <2>1. ASSUME Moved(c, "dropcontext") PROVE AtHome(c, s) /\ Sound(c)'
    <3>1. AtHome(c, s)
      BY <1>0, <1>1, <1>2, <1>4, <2>1, Nulls DEF AtHome, Moved, HarnessInv, Ordered, Policies,
         Scopes,
         SameParts, SameContexts
    <3>2. Sound(c)'
      BY <1>0, <1>1, <1>4, <2>1 DEF Moved, Holding, Sound, Stage, ResumeLabels, Holds,
         OnSession, Creates,
         Starts, Starting, Runs, harness
    <3> QED BY <3>1, <3>2
  <2> QED BY <1>0, <1>1, <1>2, <1>4, <2>1, OwnMove DEF Labels, parts, HarnessInv, Types,
             HistoryTypes
<1> QED BY <1>3, <1>4 DEF DropMCP

LEMMA DropExtensionStep ==
  ASSUME HarnessInv, NEW c \in Callers, DropExtension(c)
  PROVE  HarnessInv'
<1>0. /\ pc[c] = "dropextension" /\ Goto(c, "context")
      /\ UNCHANGED <<harness, store, contexts, mcpClosed, proc, history>>
  BY DEF DropExtension
<1> DEFINE s == proc[c].ses
<1>1. /\ Owns(c) /\ s \in Sessions /\ Sound(c) /\ proc[c].op = "resume" /\ active[s] = c /\ s \in known
      /\ ~proc[c].inRun /\ proc[c].result # "ok" /\ s \notin ready
  BY <1>0, Owner, Known, Kinds DEF Sound, Stage, NewLabels, ReadLabels, RunLabels, Starting,
     OnSession, Starts
<1>2. /\ PartTypes' /\ extensions'.closed = extensions.closed /\ extensions'.views[s] = "none"
      /\ \A t \in Sessions \ {s} : extensions'.views[t] = extensions.views[t]
  <2> DEFINE f == [extensions.views EXCEPT ![s] = "none"]
  <2>1. f \in [Sessions -> {"none", "plain", "full"}] /\ f[s] = "none"
        /\ \A t \in Sessions \ {s} : f[t] = extensions.views[t]
    BY <1>1 DEF HarnessInv, Types, PartTypes
  <2>2. extensions' = [extensions EXCEPT !.views = f]
    BY DEF DropExtension
  <2> HIDE DEF f
  <2> QED BY <1>0, <2>1, <2>2 DEF HarnessInv, Types, PartTypes
<1>3. Shutters /\ Elsewhere(s)
  BY <1>0, <1>2 DEF Shutters, Elsewhere
<1>4. ASSUME Moved(c, "context") PROVE AtHome(c, s) /\ Sound(c)'
  <2>1. AtHome(c, s)
    BY <1>0, <1>1, <1>2, <1>4, Nulls DEF AtHome, Moved, HarnessInv, Ordered, Policies, Scopes,
       history
  <2>2. Sound(c)'
    BY <1>0, <1>1, <1>2, <1>4 DEF Moved, Holding, Sound, Stage, ResumeLabels, Holds, OnSession,
       Creates,
       Starts, Starting, Runs, harness, history
  <2> QED BY <2>1, <2>2
<1> QED BY <1>0, <1>1, <1>2, <1>3, <1>4, OwnMove DEF Labels, history, HarnessInv, Types,
           HistoryTypes

-----------------------------------------------------------------------------
(* Close.                                                                  *)

LEMMA CallCloseStep ==
  ASSUME HarnessInv, NEW c \in Callers, CallClose(c)
  PROVE  HarnessInv'
<1>1. PartTypes' /\ SameParts
  BY DEF HarnessInv, Types, PartTypes, CallClose, parts, SameParts, SameStore, SameContexts,
     SameExtensions
<1>2. Sound(c) /\ (pc[c] = "idle" => proc[c].op = "none" /\ ~proc[c].inRun)
      /\ (pc[c] # "idle" => pc[c] = "run" /\ proc[c].inRun)
  BY Kinds, OnlyRuns DEF CallClose, Sound, Stage, NewLabels, ResumeLabels, ReadLabels,
     RunLabels, Starting, OnSession
<1>3. ASSUME NEW l \in {"closing", "cancel"}, Moved(c, l) PROVE Sound(c)'
  BY <1>1, <1>2, <1>3 DEF Moved, Holding, Sound, Stage, RunLabels, Holds, OnSession, Creates,
     Starts,
     Starting, Runs, SameParts, SameContexts, CallClose, history
<1>4. CASE closed
  BY <1>1, <1>2, <1>3, <1>4, MoveStep DEF CallClose, Middle, Labels, harness, parts
<1>5. CASE ~closed
  <2>1. CallerTypes' /\ Moved(c, "cancel")
    BY <1>5, Mover, Kinds DEF CallClose, Labels
  <2>2. Onward(c)
    BY <1>2, <2>1 DEF Moved, Holding, Onward
  <2>3. finish = "open" /\ finish' = "called" /\ closed' = TRUE
    BY <1>5, Zenon DEF CallClose, HarnessInv, Ordered
  <2>4. HarnessTypes'
    BY <2>3 DEF CallClose, HarnessInv, Types, HarnessTypes, parts
  <2>5. Ordered'
    BY <1>1, <2>3 DEF HarnessInv, Ordered, SameParts, SameContexts, SameExtensions,
       AfterContexts, AfterExtensions
  <2>6. OneCanceller'
    BY <2>1, <2>3 DEF HarnessInv, OneCanceller, Moved, Others, Same
  <2>7. InterruptsOnlyAfterTimeout'
    BY <2>3 DEF InterruptsOnlyAfterTimeout, Teardown
  <2> QED BY <1>1, <1>3, <2>1, <2>2, <2>4, <2>5, <2>6, <2>7, QuietCore DEF CallClose
<1> QED BY <1>4, <1>5

LEMMA CancelAllStep ==
  ASSUME HarnessInv, NEW c \in Callers, CancelAll(c)
  PROVE  HarnessInv'
<1>1. PartTypes' /\ SameParts
  BY DEF HarnessInv, Types, PartTypes, CancelAll, parts, SameParts, SameStore, SameContexts,
     SameExtensions
<1>2. finish = "called" /\ finish' = "wait" /\ pc[c] = "cancel"
  BY DEF CancelAll, HarnessInv, OneCanceller
<1>3. CallerTypes' /\ Moved(c, "closing")
  <2>1. ASSUME NEW d \in Callers
        PROVE  /\ proc'[d] \in Process
               /\ proc'[d].op = proc[d].op /\ proc'[d].ses = proc[d].ses
               /\ proc'[d].inRun = proc[d].inRun /\ proc'[d].recs = proc[d].recs
               /\ proc'[d].view = proc[d].view /\ proc'[d].result = proc[d].result
    <3> DEFINE b == proc[d].cancelled \/ Held(d) # {}
    <3>1. b \in BOOLEAN
      BY Kinds, Zenon DEF CallerTypes, Process
    <3>2. proc'[d] = [proc[d] EXCEPT !.cancelled = b]
      BY DEF CancelAll
    <3> HIDE DEF b
    <3> QED BY <3>1, <3>2, Kinds DEF CallerTypes, Process
  <2>2. proc' \in [Callers -> Process]
    <3>1. proc' = [d \in Callers |-> proc'[d]]
      BY DEF CancelAll
    <3> QED BY <2>1, <3>1
  <2>3. pc' \in [Callers -> Labels] /\ pc'[c] = "closing" /\ \A d \in Callers : d # c => pc'[d] = pc[d]
    BY Goes, Kinds DEF CancelAll, Labels
  <2> QED BY <2>1, <2>2, <2>3 DEF CallerTypes, Moved, Holding, Others, Same
<1>4. Sound(c)'
  BY <1>1, <1>2, <1>3, Kinds DEF Moved, Holding, Sound, Stage, NewLabels, ResumeLabels,
     ReadLabels, RunLabels, Holds, OnSession, Creates, Starts,
     Starting, Runs, SameParts, SameContexts, CancelAll, history
<1>5. Onward(c)
  BY <1>2, <1>3 DEF Moved, Holding, Onward
<1>6. HarnessTypes'
  BY <1>2, Zenon DEF CancelAll, HarnessInv, Types, HarnessTypes, parts
<1>7. Ordered'
  BY <1>1, <1>2 DEF CancelAll, HarnessInv, Ordered, SameParts, SameContexts, SameExtensions,
     AfterContexts, AfterExtensions
<1>8. OneCanceller'
  BY <1>2, <1>3 DEF HarnessInv, OneCanceller, Moved, Others, Same
<1>9. InterruptsOnlyAfterTimeout'
  BY <1>2 DEF InterruptsOnlyAfterTimeout, Teardown
<1> QED BY <1>1, <1>3, <1>4, <1>5, <1>6, <1>7, <1>8, <1>9, QuietCore DEF CancelAll

(* What finishClose takes down, it takes down for good.                    *)
LEMMA FinishCore ==
  ASSUME HarnessInv, HarnessTypes', PartTypes', Ordered', OneCanceller',
         InterruptsOnlyAfterTimeout', SameStore,
         UNCHANGED <<active, activeRuns, pc, proc, history>>,
         contexts.closed => contexts'.closed, extensions.closed => extensions'.closed,
         \A s \in Sessions :
           /\ contexts'.views[s] = contexts.views[s] \/ (contexts'.closed /\ contexts'.views[s] = "none")
           /\ contexts'.scopes[s] = contexts.scopes[s] \/ contexts'.scopes[s] = "none"
           /\ extensions'.views[s] = extensions.views[s] \/ (extensions'.closed /\ extensions'.views[s] = "none")
  PROVE  HarnessInv'
<1>1. Types'
  BY DEF HarnessInv, Types, CallerTypes, HistoryTypes, history
<1>2. Balanced'
  BY DEF HarnessInv, Balanced, Inside, Doubly
<1>3. ASSUME NEW d \in Callers PROVE Sound(d)'
  <2>1. Stage(d)' /\ Holds(d)' /\ Creates(d)'
    BY Kinds DEF Sound, Stage, Holds, Creates, SameStore, history
  <2>2. Runs(d)'
    <3>1. proc[d].op = "template" /\ proc[d].inRun /\ pc[d] \notin {"leave", "done1"} => proc[d].ses \in Sessions
      BY InRun
    <3> QED BY <3>1, Kinds DEF Sound, Runs
  <2>3. Starts(d)'
    <3>1. pc[d] \in Starting => proc[d].ses \in Sessions
      BY Owner DEF Starting
    <3>2. proc[d].op \in {"new", "resume"} /\ pc[d] = "leave" /\ proc[d].result = "ok" => proc[d].ses \in Sessions
      BY Kinds DEF Sound, Creates, Holds, HarnessInv, Types, HistoryTypes
    <3> QED BY <3>1, <3>2, Kinds DEF Sound, Starts, Starting, Viewed, Full, history
  <2> QED BY <2>1, <2>2, <2>3 DEF Sound
<1>4. Admitted' /\ Alone' /\ Pending' /\ Accounted'
  BY DEF HarnessInv, Admitted, Alone, Pending, Accounted, SameStore, history
<1>5. Fresh' /\ Readied'
  BY DEF HarnessInv, Fresh, Readied, Viewed, Full, SameStore, Types, HistoryTypes, history
<1>6. Policies' /\ Scopes'
  BY DEF HarnessInv, Policies, Scopes
<1> QED BY <1>1, <1>2, <1>3, <1>4, <1>5, <1>6 DEF HarnessInv

LEMMA FinishHarness ==
  ASSUME HarnessInv, NEW f \in Teardown \cup {"open", "called", "wait"}, finish # "called",
         finish # "open",
         finish' = f, f # "open", closeErr' \subseteq {"timeout", "resource"},
         mcpClosed' \in BOOLEAN,
         UNCHANGED <<closed, rootDone, active, activeRuns, pc, proc, history>>
  PROVE  HarnessTypes' /\ OneCanceller'
<1>1. HarnessTypes'
  BY DEF HarnessInv, Types, HarnessTypes
<1>2. OneCanceller'
  BY DEF HarnessInv, OneCanceller
<1> QED BY <1>1, <1>2

LEMMA FinishQuiet ==
  ASSUME HarnessInv, NEW f \in Teardown, Finish(finish, f), finish # "called", finish # "open",
         f \in AfterExtensions <=> finish \in AfterExtensions,
         f \in AfterContexts <=> finish \in AfterContexts,
         closeErr' \subseteq {"timeout", "resource"}, mcpClosed' \in BOOLEAN, PartTypes',
         SameParts,
         \/ finish \in Teardown /\ ("timeout" \in closeErr => "timeout" \in closeErr')
         \/ "timeout" \in closeErr' \/ activeRuns = 0,
         Keeps
  PROVE  HarnessInv'
<1>1. HarnessTypes' /\ OneCanceller'
  BY FinishHarness DEF Finish, Keeps, Teardown
<1>2. Ordered'
  BY DEF HarnessInv, Ordered, SameParts, SameContexts, SameExtensions, Finish, Keeps, Teardown
<1>3. InterruptsOnlyAfterTimeout'
  <2>1. ASSUME activeRuns = 0 PROVE \A c \in Callers : ~InCall(c)
    <3>1. Cardinality(Inside) = 0
      BY <2>1, Counts DEF HarnessInv, Balanced
    <3>2. Inside = {}
      BY <3>1, Counts, FS_EmptySet
    <3> QED BY <3>2 DEF Inside, InCall
  <2> QED BY <2>1 DEF HarnessInv, InterruptsOnlyAfterTimeout, InCall, Keeps, Finish
<1> QED BY <1>1, <1>2, <1>3, FinishCore DEF Keeps, SameParts, SameContexts, SameExtensions

LEMMA Errors ==
  ASSUME HarnessInv, NEW kind, NoError \/ MayFail(kind) \/ closeErr' = closeErr \cup {"timeout"}
  PROVE  closeErr' \subseteq {"timeout", "resource"} /\ ("timeout" \in closeErr => "timeout" \in closeErr')
BY DEF HarnessInv, Types, HarnessTypes, NoError, MayFail

LEMMA FinishPlain ==
  ASSUME HarnessInv, UNCHANGED parts,
         StopsWaiting \/ TimesOut \/ closePluginResources \/ StoreClosed \/ PublishClose
  PROVE  HarnessInv'
<1>1. PartTypes' /\ SameParts /\ mcpClosed' \in BOOLEAN
  <2>1. mcpClosed' \in BOOLEAN
    BY Zenon DEF HarnessInv, Types, HarnessTypes, parts
  <2>2. PartTypes' /\ SameParts
    BY DEF HarnessInv, Types, PartTypes, SameParts, SameStore, SameContexts, SameExtensions, parts
  <2> QED BY <2>1, <2>2
<1>2. closeErr' \subseteq {"timeout", "resource"} /\ ("timeout" \in closeErr => "timeout" \in closeErr')
  BY Errors DEF StopsWaiting, TimesOut, closePluginResources, StoreClosed, PublishClose
<1>3. CASE StopsWaiting
  BY <1>1, <1>2, <1>3, FinishQuiet DEF StopsWaiting, RunsStopped, Finish, Teardown,
     AfterExtensions, AfterContexts
<1>4. CASE TimesOut
  BY <1>1, <1>2, <1>4, FinishQuiet DEF TimesOut, Finish, Teardown, AfterExtensions, AfterContexts
<1>5. CASE closePluginResources
  BY <1>1, <1>2, <1>5, FinishQuiet DEF closePluginResources, Finish, Teardown, AfterExtensions,
     AfterContexts
<1>6. CASE StoreClosed
  BY <1>1, <1>2, <1>6, FinishQuiet DEF StoreClosed, Finish, Teardown, AfterExtensions,
     AfterContexts
<1>7. CASE PublishClose
  BY <1>1, <1>2, <1>7, FinishQuiet DEF PublishClose, Finish, Teardown, AfterExtensions,
     AfterContexts
<1> QED BY <1>3, <1>4, <1>5, <1>6, <1>7

LEMMA CloseMCPStep ==
  ASSUME HarnessInv, CloseMCP
  PROVE  HarnessInv'
<1>1. mcpClosed' \in BOOLEAN
  BY Zenon DEF CloseMCP
<1>2. PartTypes' /\ SameParts
  BY DEF CloseMCP, HarnessInv, Types, PartTypes, SameParts, SameStore, SameContexts,
     SameExtensions
<1>3. closeErr' \subseteq {"timeout", "resource"} /\ ("timeout" \in closeErr => "timeout" \in closeErr')
  BY Errors DEF CloseMCP
<1> QED BY <1>1, <1>2, <1>3, FinishQuiet DEF CloseMCP, Finish, Teardown, AfterExtensions,
           AfterContexts

LEMMA CloseStoreStep ==
  ASSUME HarnessInv, CloseStore
  PROVE  HarnessInv'
<1>1. mcpClosed' \in BOOLEAN
  BY Zenon DEF CloseStore, HarnessInv, Types, HarnessTypes
<1>2. PartTypes' /\ SameParts
  <2>1. store' = [store EXCEPT !.closed = TRUE] /\ UNCHANGED <<contexts, extensions>>
    BY DEF CloseStore
  <2> DEFINE b == TRUE
  <2>2. b \in BOOLEAN /\ store' = [store EXCEPT !.closed = b]
    BY <2>1
  <2> HIDE DEF b
  <2> QED BY <2>1, <2>2 DEF HarnessInv, Types, PartTypes, SameParts, SameStore, SameContexts,
             SameExtensions
<1>3. closeErr' \subseteq {"timeout", "resource"} /\ ("timeout" \in closeErr => "timeout" \in closeErr')
  BY Errors DEF CloseStore
<1> QED BY <1>1, <1>2, <1>3, FinishQuiet DEF CloseStore, Finish, Teardown, AfterExtensions,
           AfterContexts

LEMMA CloseExtensionsStep ==
  ASSUME HarnessInv, CloseExtensions
  PROVE  HarnessInv'
<1>1. /\ finish = "extensions" /\ finish' = "extensionswait" /\ closeErr' = closeErr
      /\ UNCHANGED <<store, contexts, mcpClosed, closed, rootDone, active, activeRuns, pc, proc, history>>
  BY DEF CloseExtensions, Finish, Keeps, NoError
<1>2. /\ PartTypes' /\ extensions'.closed /\ extensions'.views = extensions.views /\ contexts' = contexts
  <2> DEFINE b == TRUE
  <2>1. b \in BOOLEAN /\ extensions' = [extensions EXCEPT !.closed = b]
    BY DEF CloseExtensions
  <2> HIDE DEF b
  <2>2. PartTypes' /\ extensions'.closed = b /\ extensions'.views = extensions.views
    BY <1>1, <2>1 DEF HarnessInv, Types, PartTypes
  <2> QED BY <1>1, <2>2 DEF b
<1>3. HarnessTypes' /\ OneCanceller'
  <2>1. mcpClosed' \in BOOLEAN
    BY <1>1, Zenon DEF HarnessInv, Types, HarnessTypes
  <2>2. closeErr' \subseteq {"timeout", "resource"}
    BY <1>1 DEF HarnessInv, Types, HarnessTypes
  <2> QED BY <1>1, <2>1, <2>2, FinishHarness DEF Teardown
<1>4. Ordered'
  BY <1>1, <1>2 DEF HarnessInv, Ordered, AfterExtensions, AfterContexts
<1>5. InterruptsOnlyAfterTimeout'
  BY <1>1 DEF HarnessInv, InterruptsOnlyAfterTimeout, InCall, Teardown
<1>6. SameStore
  BY <1>1 DEF SameStore
<1>7. extensions.closed <=> finish \in AfterExtensions
  BY DEF HarnessInv, Ordered
<1> QED BY <1>1, <1>2, <1>3, <1>4, <1>5, <1>6, <1>7, FinishCore DEF AfterExtensions

LEMMA ExtensionsClosedStep ==
  ASSUME HarnessInv, ExtensionsClosed
  PROVE  HarnessInv'
<1>1. /\ finish = "extensionswait" /\ finish' = "contexts" /\ closeErr' = closeErr
      /\ UNCHANGED <<store, contexts, mcpClosed, closed, rootDone, active, activeRuns, pc, proc, history>>
  BY DEF ExtensionsClosed, Finish, Keeps, NoError
<1>2. /\ PartTypes' /\ extensions'.closed = extensions.closed /\ (\A s \in Sessions : extensions'.views[s] = "none") /\ contexts' = contexts
  <2> DEFINE f == [s \in Sessions |-> "none"]
  <2>1. f \in [Sessions -> {"none", "plain", "full"}] /\ \A s \in Sessions : f[s] = "none"
    OBVIOUS
  <2>2. extensions' = [extensions EXCEPT !.views = f]
    BY DEF ExtensionsClosed
  <2> HIDE DEF f
  <2>3. PartTypes' /\ extensions'.closed = extensions.closed /\ extensions'.views = f
    BY <1>1, <2>1, <2>2 DEF HarnessInv, Types, PartTypes
  <2> QED BY <1>1, <2>1, <2>3
<1>3. HarnessTypes' /\ OneCanceller'
  <2>1. mcpClosed' \in BOOLEAN
    BY <1>1, Zenon DEF HarnessInv, Types, HarnessTypes
  <2>2. closeErr' \subseteq {"timeout", "resource"}
    BY <1>1 DEF HarnessInv, Types, HarnessTypes
  <2> QED BY <1>1, <2>1, <2>2, FinishHarness DEF Teardown
<1>4. Ordered'
  BY <1>1, <1>2 DEF HarnessInv, Ordered, AfterExtensions, AfterContexts
<1>5. InterruptsOnlyAfterTimeout'
  BY <1>1 DEF HarnessInv, InterruptsOnlyAfterTimeout, InCall, Teardown
<1>6. SameStore
  BY <1>1 DEF SameStore
<1>7. extensions.closed <=> finish \in AfterExtensions
  BY DEF HarnessInv, Ordered
<1> QED BY <1>1, <1>2, <1>3, <1>4, <1>5, <1>6, <1>7, FinishCore DEF AfterExtensions

LEMMA CloseContextsStep ==
  ASSUME HarnessInv, CloseContexts
  PROVE  HarnessInv'
<1>1. /\ finish = "contexts" /\ finish' = "contextswait" /\ closeErr' = closeErr
      /\ UNCHANGED <<store, extensions, mcpClosed, closed, rootDone, active, activeRuns, pc, proc, history>>
  BY DEF CloseContexts, Finish, Keeps, NoError
<1>2. /\ PartTypes' /\ contexts'.closed /\ (\A s \in Sessions : contexts'.views[s] = "none")
      /\ contexts'.scopes = contexts.scopes /\ extensions' = extensions
  <2> DEFINE f == [s \in Sessions |-> "none"]
             gone == {s \in Sessions : contexts.views[s] # "none"}
             b == TRUE
  <2>1. f \in [Sessions -> {"none", "plain", "policy"}] /\ (\A s \in Sessions : f[s] = "none")
        /\ gone \in SUBSET Sessions /\ b \in BOOLEAN
    OBVIOUS
  <2>2. contexts' = [contexts EXCEPT !.closed = b, !.views = f, !.dropping = gone]
    BY DEF CloseContexts
  <2> HIDE DEF f, gone, b
  <2>3. contexts' = [closed |-> b, inside |-> contexts.inside, dropping |-> gone, views |-> f,
                     scopes |-> contexts.scopes]
    BY <2>2 DEF HarnessInv, Types, PartTypes
  <2>4. PartTypes' /\ contexts'.closed = b /\ contexts'.views = f /\ contexts'.scopes = contexts.scopes
    BY <1>1, <2>1, <2>3 DEF HarnessInv, Types, PartTypes
  <2> QED BY <1>1, <2>1, <2>4 DEF b
<1>3. HarnessTypes' /\ OneCanceller'
  <2>1. mcpClosed' \in BOOLEAN
    BY <1>1, Zenon DEF HarnessInv, Types, HarnessTypes
  <2>2. closeErr' \subseteq {"timeout", "resource"}
    BY <1>1 DEF HarnessInv, Types, HarnessTypes
  <2> QED BY <1>1, <2>1, <2>2, FinishHarness DEF Teardown
<1>4. Ordered'
  BY <1>1, <1>2 DEF HarnessInv, Ordered, AfterExtensions, AfterContexts
<1>5. InterruptsOnlyAfterTimeout'
  BY <1>1 DEF HarnessInv, InterruptsOnlyAfterTimeout, InCall, Teardown
<1>6. SameStore
  BY <1>1 DEF SameStore
<1>7. extensions.closed <=> finish \in AfterExtensions
  BY DEF HarnessInv, Ordered
<1> QED BY <1>1, <1>2, <1>3, <1>4, <1>5, <1>6, <1>7, FinishCore DEF AfterExtensions

LEMMA ContextsClosedStep ==
  ASSUME HarnessInv, ContextsClosed
  PROVE  HarnessInv'
<1>1. /\ finish = "contextswait" /\ finish' = "store" /\ closeErr' = closeErr
      /\ UNCHANGED <<store, extensions, mcpClosed, closed, rootDone, active, activeRuns, pc, proc, history>>
  BY DEF ContextsClosed, Finish, Keeps, NoError
<1>2. /\ PartTypes' /\ contexts'.closed = contexts.closed /\ contexts'.views = contexts.views
      /\ (\A s \in Sessions : contexts'.scopes[s] = contexts.scopes[s] \/ contexts'.scopes[s] = "none")
      /\ extensions' = extensions
  <2> DEFINE g == [s \in Sessions |-> IF s \in contexts.dropping THEN "none" ELSE contexts.scopes[s]]
  <2>1. g \in [Sessions -> {"none", "open", "narrowed"}]
        /\ \A s \in Sessions : g[s] = contexts.scopes[s] \/ g[s] = "none"
    BY DEF HarnessInv, Types, PartTypes
  <2>2. contexts' = [contexts EXCEPT !.dropping = {}, !.scopes = g]
    BY DEF ContextsClosed
  <2> HIDE DEF g
  <2>3. PartTypes' /\ contexts'.closed = contexts.closed /\ contexts'.views = contexts.views /\ contexts'.scopes = g
    BY <1>1, <2>1, <2>2 DEF HarnessInv, Types, PartTypes
  <2> QED BY <1>1, <2>1, <2>3
<1>3. HarnessTypes' /\ OneCanceller'
  <2>1. mcpClosed' \in BOOLEAN
    BY <1>1, Zenon DEF HarnessInv, Types, HarnessTypes
  <2>2. closeErr' \subseteq {"timeout", "resource"}
    BY <1>1 DEF HarnessInv, Types, HarnessTypes
  <2> QED BY <1>1, <2>1, <2>2, FinishHarness DEF Teardown
<1>4. Ordered'
  BY <1>1, <1>2 DEF HarnessInv, Ordered, AfterExtensions, AfterContexts
<1>5. InterruptsOnlyAfterTimeout'
  BY <1>1 DEF HarnessInv, InterruptsOnlyAfterTimeout, InCall, Teardown
<1>6. SameStore
  BY <1>1 DEF SameStore
<1>7. extensions.closed <=> finish \in AfterExtensions
  BY DEF HarnessInv, Ordered
<1> QED BY <1>1, <1>2, <1>3, <1>4, <1>5, <1>6, <1>7, FinishCore DEF AfterExtensions

LEMMA FinishCloseStep ==
  ASSUME HarnessInv, finishClose
  PROVE  HarnessInv'
<1>1. CASE StopsWaiting \/ TimesOut \/ closePluginResources \/ StoreClosed \/ PublishClose
  BY <1>1, FinishPlain DEF StopsWaiting, TimesOut, closePluginResources, StoreClosed, PublishClose
<1>2. CASE CloseMCP \/ CloseExtensions \/ ExtensionsClosed
  BY <1>2, CloseMCPStep, CloseExtensionsStep, ExtensionsClosedStep
<1>3. CASE CloseContexts \/ ContextsClosed \/ CloseStore
  BY <1>3, CloseContextsStep, ContextsClosedStep, CloseStoreStep
<1> QED BY <1>1, <1>2, <1>3 DEF finishClose

-----------------------------------------------------------------------------
(* Admission and release.                                                  *)

LEMMA IdleTypes ==
  ASSUME CallerTypes, NEW c \in Callers, NEW l \in Labels, NEW x \in Process,
         Goto(c, l), proc' = [proc EXCEPT ![c] = x]
  PROVE  CallerTypes' /\ Others(c) /\ pc'[c] = l /\ proc'[c] = x
<1>1. proc' \in [Callers -> Process] /\ proc'[c] = x /\ \A d \in Callers : d # c => proc'[d] = proc[d]
  BY DEF CallerTypes
<1> QED BY <1>1, Goes DEF CallerTypes, Others, Same

LEMMA Calls ==
  ASSUME NEW op \in Ops \cup {"none"}, NEW s \in Sessions \cup {NULL}, NEW run \in BOOLEAN,
         NEW linked \in BOOLEAN
  PROVE  /\ [Idle EXCEPT !.op = op, !.ses = s, !.linked = linked, !.inRun = run] \in Process
         /\ [Idle EXCEPT !.op = op, !.linked = linked] \in Process
         /\ [Idle EXCEPT !.op = op, !.ses = s, !.linked = linked] \in Process
BY DEF Idle, Process

(* A caller that begins or ends leaves the other operations as they are.   *)
LEMMA Unaffected ==
  ASSUME HarnessInv, NEW d \in Callers, Same(d), UNCHANGED <<parts, history>>,
         \A s \in Sessions : active[s] = d => active'[s] = d
  PROVE  Sound(d)'
<1>1. Stage(d)' /\ Creates(d)' /\ Starts(d)' /\ Runs(d)'
  BY Kinds DEF Same, Sound, Stage, Creates, Starts, Runs, Viewed, Full, parts, history
<1>2. Holds(d)'
  BY Kinds DEF Same, Sound, Holds, history, HarnessInv, Types, HistoryTypes
<1> QED BY <1>1, <1>2 DEF Sound

(* What does not depend on who is admitted.                                *)
LEMMA PartsStay ==
  ASSUME HarnessInv, UNCHANGED <<closed, rootDone, finish, closeErr, parts, history>>,
         active' \in [Sessions -> Callers \cup {NULL}], activeRuns' \in Int, CallerTypes'
  PROVE  Types' /\ Ordered' /\ Pending' /\ Fresh' /\ Readied'
<1>1. HarnessTypes'
  BY Zenon DEF HarnessInv, Types, HarnessTypes, parts
<1>2. PartTypes' /\ HistoryTypes'
  BY DEF HarnessInv, Types, PartTypes, HistoryTypes, parts, history
<1>3. Ordered' /\ Pending' /\ Fresh' /\ Readied'
  BY DEF HarnessInv, Ordered, Pending, Fresh, Readied, Viewed, Full, parts, history
<1> QED BY <1>1, <1>2, <1>3 DEF Types

(* An operation that begins, with or without its session.                  *)
LEMMA BeginStep ==
  ASSUME HarnessInv, NEW c \in Callers, pc[c] = "idle", ~closed, CallerTypes', Others(c),
         UNCHANGED <<closed, rootDone, finish, closeErr, parts, history>>,
         NEW s \in Sessions \cup {NULL}, proc'[c].ses = s, proc'[c].result = "none",
         activeRuns' = activeRuns + 1,
         \/ proc'[c].op = "new" /\ s = NULL /\ pc'[c] = "store" /\ ~proc'[c].inRun /\ active' = active
         \/ proc'[c].op = "resume" /\ s \in known /\ pc'[c] = "admit" /\ ~proc'[c].inRun /\ active' = active
         \/ /\ proc'[c].op \in OnSession /\ s \in known /\ pc'[c] = "store"
            /\ proc'[c].inRun <=> proc'[c].op = "run"
            /\ active[s] = NULL /\ active' = [active EXCEPT ![s] = c]
  PROVE  HarnessInv'
<1>1. proc[c].op = "none"
  BY Kinds DEF Sound, Stage, NewLabels, ResumeLabels, ReadLabels, RunLabels, Starting, OnSession
<1>2. s \in known => s \in Sessions
  BY DEF HarnessInv, Types, HistoryTypes
<1>3. /\ active \in [Sessions -> Callers \cup {NULL}] /\ active' \in [Sessions -> Callers \cup {NULL}]
      /\ \A t \in Sessions : active'[t] = active[t] \/ (t = s /\ active[t] = NULL /\ active'[t] = c
                                                        /\ proc'[c].op \in OnSession /\ s \in known)
  BY DEF HarnessInv, Types, HarnessTypes
<1>4. \A t \in Sessions : active[t] # c
  BY <1>1, Nulls DEF HarnessInv, Admitted, OnSession
<1>5. activeRuns' \in Int
  BY DEF HarnessInv, Types, HarnessTypes
<1>6. Types' /\ Ordered' /\ Pending' /\ Fresh' /\ Readied'
  BY <1>3, <1>5, PartsStay
<1>7. Balanced'
  <2>1. c \notin Inside /\ Inside' = Inside \cup {c}
    BY <1>1 DEF Inside, Others, Same, OnSession
  <2>2. Doubly' = Doubly
    <3>1. ASSUME NEW d \in Callers, d # c PROVE d \in Doubly' <=> d \in Doubly
      <4>1. \A t \in Sessions : active'[t] = d <=> active[t] = d
        BY <1>3, <3>1, Nulls
      <4> QED BY <3>1, <4>1 DEF Doubly, Others, Same
    <3>2. c \notin Doubly /\ c \notin Doubly'
      <4>1. proc'[c].op = "resume" => \A t \in Sessions : active'[t] # c
        BY <1>3, <1>4 DEF OnSession
      <4> QED BY <1>1, <4>1 DEF Doubly, OnSession
    <3> QED BY <3>1, <3>2 DEF Doubly
  <2>3. Cardinality(Inside \cup {c}) = Cardinality(Inside) + 1
    BY <2>1, Counts, FS_AddElement
  <2> QED BY <2>1, <2>2, <2>3, Counts DEF HarnessInv, Balanced, Types, HarnessTypes
<1>8. OneCanceller' /\ InterruptsOnlyAfterTimeout'
  <2>1. finish' = "open"
    BY DEF HarnessInv, Ordered
  <2> QED BY <2>1 DEF HarnessInv, OneCanceller, InterruptsOnlyAfterTimeout, Teardown, Others, Same
<1>9. ASSUME NEW d \in Callers PROVE Sound(d)'
  <2>1. CASE d # c
    BY <1>3, <2>1, Nulls, Unaffected DEF Others
  <2>2. CASE d = c
    <3>1. Stage(c)' /\ Creates(c)' /\ Starts(c)'
      BY DEF Stage, Creates, Starts, Starting, NewLabels, ResumeLabels, ReadLabels, RunLabels,
         OnSession
    <3>2. Holds(c)' /\ Runs(c)'
      BY <1>2, <1>3 DEF Holds, Runs, OnSession, history, HarnessInv, Types, HarnessTypes
    <3> QED BY <2>2, <3>1, <3>2 DEF Sound
  <2> QED BY <2>1, <2>2
<1>10. Admitted'
  BY <1>2, <1>3, <1>4 DEF HarnessInv, Admitted, Others, Same, history
<1>11. Alone'
  BY <1>1 DEF HarnessInv, Alone, Others, Same, OnSession
<1>12. Accounted'
  BY <1>1 DEF HarnessInv, Accounted, Others, Same, parts, history
<1>13. Policies' /\ Scopes'
  <2>1. \A t \in Sessions : contexts'.views[t] = contexts.views[t] /\ contexts'.scopes[t] = contexts.scopes[t]
    BY DEF parts
  <2>2. ASSUME NEW t \in Sessions, active[t] # NULL
        PROVE  active[t] \in Callers /\ active[t] # c /\ active'[t] = active[t]
    BY <1>3, <1>4, <2>2
  <2> QED BY <2>1, <2>2, Nulls DEF HarnessInv, Policies, Scopes, Others, Same
<1> QED BY <1>6, <1>7, <1>8, <1>9, <1>10, <1>11, <1>12, <1>13 DEF HarnessInv

LEMMA CallOperationStep ==
  ASSUME HarnessInv, NEW c \in Callers, CallOperation(c)
  PROVE  HarnessInv'
<1>1. /\ pc[c] = "idle" /\ ~closed /\ activeRuns' = activeRuns + 1
      /\ UNCHANGED <<closed, rootDone, active, finish, closeErr, parts, history>>
  BY DEF CallOperation, beginOperation
<1>2. CASE "new" \in Ops /\ Goto(c, "store") /\ proc' = [proc EXCEPT ![c] = [Idle EXCEPT !.op = "new", !.linked = TRUE]]
  <2> DEFINE x == [Idle EXCEPT !.op = "new", !.linked = TRUE]
  <2>1. x \in Process /\ x.op = "new" /\ x.ses = NULL /\ ~x.inRun /\ x.result = "none"
    BY <1>2, Calls DEF Idle
  <2> HIDE DEF x
  <2>2. /\ CallerTypes' /\ Others(c) /\ pc'[c] = "store"
        /\ proc'[c].op = "new" /\ proc'[c].ses = NULL /\ ~proc'[c].inRun /\ proc'[c].result = "none"
    <3>1. CallerTypes' /\ Others(c) /\ pc'[c] = "store" /\ proc'[c] = x
      BY <1>2, <2>1, IdleTypes, Kinds DEF Labels, x
    <3> QED BY <2>1, <3>1
  <2> QED BY <1>1, <2>2, BeginStep
<1>3. ASSUME NEW s \in known, "resume" \in Ops, Goto(c, "admit"),
             proc' = [proc EXCEPT ![c] = [Idle EXCEPT !.op = "resume", !.ses = s,
             !.linked = TRUE]]
      PROVE  HarnessInv'
  <2>1. s \in Sessions
    BY DEF HarnessInv, Types, HistoryTypes
  <2> DEFINE x == [Idle EXCEPT !.op = "resume", !.ses = s, !.linked = TRUE]
  <2>2. x \in Process /\ x.op = "resume" /\ x.ses = s /\ ~x.inRun /\ x.result = "none"
    BY <1>3, <2>1, Calls DEF Idle
  <2> HIDE DEF x
  <2>3. /\ CallerTypes' /\ Others(c) /\ pc'[c] = "admit"
        /\ proc'[c].op = "resume" /\ proc'[c].ses = s /\ ~proc'[c].inRun /\ proc'[c].result = "none"
    <3>1. CallerTypes' /\ Others(c) /\ pc'[c] = "admit" /\ proc'[c] = x
      BY <1>3, <2>2, IdleTypes, Kinds DEF Labels, x
    <3> QED BY <2>2, <3>1
  <2> QED BY <1>1, <2>1, <2>3, BeginStep
<1> QED BY <1>2, <1>3 DEF CallOperation

LEMMA CallSessionOperationStep ==
  ASSUME HarnessInv, NEW c \in Callers, CallSessionOperation(c)
  PROVE  HarnessInv'
<1>1. PICK op \in Ops \cap {"run", "template", "list", "get"}, s \in known :
        /\ beginSessionOperation(c, s) /\ Goto(c, "store")
        /\ proc' = [proc EXCEPT ![c] = [Idle EXCEPT !.op = op, !.ses = s, !.linked = TRUE, !.inRun = (op = "run")]]
  BY DEF CallSessionOperation
<1>2. /\ pc[c] = "idle" /\ ~closed /\ activeRuns' = activeRuns + 1 /\ active[s] = NULL
      /\ active' = [active EXCEPT ![s] = c]
      /\ UNCHANGED <<closed, rootDone, finish, closeErr, parts, history>>
  BY <1>1 DEF CallSessionOperation, beginSessionOperation
<1>3. s \in Sessions
  BY DEF HarnessInv, Types, HistoryTypes
<1> DEFINE r == (op = "run")
           t == TRUE
           x == [Idle EXCEPT !.op = op, !.ses = s, !.linked = t, !.inRun = r]
<1>4. r \in BOOLEAN /\ t \in BOOLEAN /\ (r <=> op = "run")
  OBVIOUS
<1>5. Goto(c, "store") /\ proc' = [proc EXCEPT ![c] = x]
  BY <1>1
<1> HIDE DEF r, t
<1>6. x \in Process /\ x.op = op /\ x.ses = s /\ x.inRun = r /\ x.result = "none"
  BY <1>3, <1>4, Calls DEF Idle
<1> HIDE DEF x
<1>7. /\ CallerTypes' /\ Others(c) /\ pc'[c] = "store"
      /\ proc'[c].op = op /\ proc'[c].ses = s /\ proc'[c].inRun = r /\ proc'[c].result = "none"
  <2>1. CallerTypes' /\ Others(c) /\ pc'[c] = "store" /\ proc'[c] = x
    BY <1>5, <1>6, IdleTypes, Kinds DEF Labels
  <2> QED BY <1>6, <2>1
<1>8. op \in OnSession
  BY DEF OnSession
<1> QED BY <1>2, <1>3, <1>4, <1>7, <1>8, BeginStep

LEMMA AdmitStep ==
  ASSUME HarnessInv, NEW c \in Callers, Admit(c)
  PROVE  HarnessInv'
<1> DEFINE s == proc[c].ses
<1>0. /\ pc[c] = "admit" /\ UNCHANGED <<closed, rootDone, finish, closeErr, parts, history>>
      /\ \/ Fail(c) /\ UNCHANGED <<active, activeRuns>>
         \/ beginSessionOperation(c, s) /\ Goto(c, "store") /\ proc' = proc
  BY DEF Admit
<1>1. CASE Fail(c) /\ UNCHANGED <<active, activeRuns>>
  BY <1>0, <1>1, AdmitFails DEF harness
<1>2. CASE beginSessionOperation(c, s) /\ Goto(c, "store") /\ proc' = proc
  <2>1. /\ proc[c].op = "resume" /\ s \in known /\ s \in Sessions /\ ~proc[c].inRun
        /\ proc[c].result # "ok" /\ Sound(c)
    BY <1>0, Kinds DEF Sound, Stage, NewLabels, ReadLabels, RunLabels, Starting, OnSession,
       Holds, HarnessInv,
       Types, HistoryTypes
  <2>2. CallerTypes' /\ Moved(c, "store")
    BY <1>2, Mover, Kinds DEF Labels
  <2>3. /\ active \in [Sessions -> Callers \cup {NULL}] /\ active' \in [Sessions -> Callers \cup {NULL}]
        /\ active[s] = NULL /\ active'[s] = c /\ \A t \in Sessions \ {s} : active'[t] = active[t]
        /\ activeRuns' = activeRuns + 1
    BY <1>2, <2>1 DEF beginSessionOperation, HarnessInv, Types, HarnessTypes
  <2>4. \A t \in Sessions : active[t] # c
    BY <1>0, Nulls DEF HarnessInv, Admitted
  <2>5. activeRuns' \in Int
    BY <2>3 DEF HarnessInv, Types, HarnessTypes
  <2>6. Types' /\ Ordered' /\ Pending' /\ Fresh' /\ Readied'
    BY <1>0, <2>2, <2>3, <2>5, PartsStay
  <2>7. \A d \in Callers : proc'[d].op = proc[d].op /\ proc'[d].ses = proc[d].ses /\ proc'[d].inRun = proc[d].inRun
    BY <1>2
  <2>8. Balanced'
    <3>1. Inside' = Inside
      BY <2>7 DEF Inside
    <3>2. c \notin Doubly /\ c \in Doubly'
      BY <1>0, <2>1, <2>2, <2>3, <2>4 DEF Doubly, Moved, Holding
    <3>3. ASSUME NEW d \in Callers, d # c PROVE d \in Doubly' <=> d \in Doubly
      <4>1. \A t \in Sessions : active'[t] = d <=> active[t] = d
        BY <2>3, <3>3, Nulls
      <4> QED BY <2>2, <3>3, <4>1 DEF Doubly, Moved, Others, Same
    <3>4. Doubly' = Doubly \cup {c}
      BY <3>2, <3>3 DEF Doubly
    <3>5. Cardinality(Doubly \cup {c}) = Cardinality(Doubly) + 1
      BY <3>2, Counts, FS_AddElement
    <3> QED BY <2>3, <3>1, <3>4, <3>5, Counts DEF HarnessInv, Balanced, Types, HarnessTypes
  <2>9. OneCanceller' /\ InterruptsOnlyAfterTimeout'
    BY <1>0, <2>2, <2>7 DEF HarnessInv, OneCanceller, InterruptsOnlyAfterTimeout, InCall, Moved,
       Others, Same
  <2>10. ASSUME NEW d \in Callers PROVE Sound(d)'
    <3>1. CASE d # c
      BY <1>0, <2>2, <2>3, <3>1, Nulls, Unaffected DEF Moved, Others
    <3>2. CASE d = c
      <4>1. Stage(c)' /\ Creates(c)' /\ Starts(c)' /\ Runs(c)'
        BY <2>1, <2>2 DEF Moved, Holding, Sound, Stage, ResumeLabels, Creates, Starts, Starting,
           Runs, OnSession
      <4>2. Holds(c)'
        BY <1>0, <2>1, <2>2, <2>3 DEF Moved, Holding, Holds, OnSession, history
      <4> QED BY <3>2, <4>1, <4>2 DEF Sound
    <3> QED BY <3>1, <3>2
  <2>11. Admitted'
    BY <1>0, <2>1, <2>2, <2>3, <2>4 DEF HarnessInv, Admitted, Moved, Holding, Others, Same,
       history
  <2>12. Alone' /\ Accounted'
    BY <1>0, <2>1, <2>2, <2>7 DEF HarnessInv, Alone, Accounted, Moved, Others, Same, parts,
       history
  <2>13. Policies' /\ Scopes'
    <3>1. \A t \in Sessions : contexts'.views[t] = contexts.views[t] /\ contexts'.scopes[t] = contexts.scopes[t]
      BY <1>0 DEF parts
    <3>2. ASSUME NEW t \in Sessions, active[t] # NULL
          PROVE  active[t] \in Callers /\ active[t] # c /\ active'[t] = active[t] /\ Same(active[t])
      BY <2>2, <2>3, <2>4, <3>2 DEF Moved, Others
    <3> QED BY <3>1, <3>2, Nulls DEF HarnessInv, Policies, Scopes, Same
  <2> QED BY <2>6, <2>8, <2>9, <2>10, <2>11, <2>12, <2>13 DEF HarnessInv
<1> QED BY <1>0, <1>1, <1>2

(* A release frees the session and publishes what the start made ready.    *)
LEMMA LeaveStep ==
  ASSUME HarnessInv, NEW c \in Callers, Leave(c)
  PROVE  HarnessInv'
<1> DEFINE s == proc[c].ses
           won == proc[c].result = "ok" /\ proc[c].op \in {"new", "resume"}
<1>1. /\ pc[c] = "leave" /\ UNCHANGED <<closed, rootDone, activeRuns, finish, closeErr, parts, used, leftover>>
      /\ active' = [t \in Sessions |-> IF active[t] = c THEN NULL ELSE active[t]]
      /\ won => ready' = ready \cup {s} /\ known' = known \cup {s}
      /\ ~won => ready' = ready /\ known' = known
  BY DEF Leave
<1>2. /\ proc[c].op \in OnSession \cup {"new", "resume"} /\ Sound(c)
      /\ proc[c].op = "new" => \A t \in Sessions : active[t] # c
  <2>1. proc[c].op \in OnSession \cup {"new", "resume"} /\ Sound(c)
    BY <1>1, Kinds DEF Sound, Stage, OnSession
  <2>2. ASSUME NEW t \in Sessions, active[t] = c PROVE proc[c].op # "new"
    BY <2>2, Nulls DEF HarnessInv, Admitted, OnSession
  <2> QED BY <2>1, <2>2
<1>3. won => Owns(c) /\ s \in Sessions /\ s \in used /\ Viewed(s) /\ Full(s) /\ s # store.pending
             /\ (proc[c].op = "resume" => s \in known)
  BY <1>1, <1>2, Nulls DEF Sound, Creates, Holds, Starts, Owns, HarnessInv, Types, HistoryTypes,
     Pending
<1>4. PICK l \in {"done1", "done2"} :
        /\ Goto(c, l)
        /\ l = "done2" <=> proc[c].op = "resume" /\ \E t \in Sessions : active[t] = c
  BY DEF Leave, Held
<1>5. CallerTypes' /\ Moved(c, l)
  <2> DEFINE b == FALSE
  <2>1. b \in BOOLEAN /\ proc' = [proc EXCEPT ![c]["linked"] = b]
    BY DEF Leave, Local
  <2> HIDE DEF b
  <2>2. proc' \in [Callers -> Process] /\ \A d \in Callers : d # c => proc'[d] = proc[d]
    BY <2>1, Kinds DEF CallerTypes, Process
  <2>3. proc'[c] = [proc[c] EXCEPT !["linked"] = b]
    BY <2>1, Kinds DEF CallerTypes
  <2>4. Holding(c, proc[c].inRun, proc[c].recs, proc[c].view, proc[c].result)
    BY <2>3, Kinds DEF CallerTypes, Process, Holding
  <2> QED BY <1>4, <2>2, <2>4, Goes, Kinds DEF CallerTypes, Moved, Others, Same, Labels
<1>6. /\ active' \in [Sessions -> Callers \cup {NULL}]
      /\ \A t \in Sessions : /\ active'[t] # c
                             /\ active[t] # c => active'[t] = active[t]
                             /\ active'[t] # NULL => active'[t] = active[t]
  BY <1>1, Nulls DEF HarnessInv, Types, HarnessTypes
<1>7. \A d \in Callers : proc'[d].op = proc[d].op /\ proc'[d].ses = proc[d].ses /\ proc'[d].inRun = proc[d].inRun
  BY <1>5 DEF Moved, Holding, Others, Same
<1>8. Types'
  <2>1. HarnessTypes'
    BY <1>1, <1>6, Zenon DEF HarnessInv, Types, HarnessTypes, parts
  <2>2. PartTypes' /\ HistoryTypes'
    BY <1>1, <1>3 DEF HarnessInv, Types, PartTypes, HistoryTypes, parts
  <2> QED BY <1>5, <2>1, <2>2 DEF Types
<1>9. Ordered' /\ Pending' /\ Fresh' /\ Readied'
  BY <1>1, <1>3 DEF HarnessInv, Ordered, Pending, Fresh, Readied, Viewed, Full, parts
<1>10. Balanced'
  <2>1. Inside' = Inside
    BY <1>7 DEF Inside
  <2>2. c \in Doubly' <=> c \in Doubly
    BY <1>1, <1>4, <1>5, <1>6 DEF Doubly, Moved, Holding
  <2>3. ASSUME NEW d \in Callers, d # c PROVE d \in Doubly' <=> d \in Doubly
    <3>1. \A t \in Sessions : active'[t] = d <=> active[t] = d
      BY <1>6, <2>3, Nulls
    <3> QED BY <1>5, <2>3, <3>1 DEF Doubly, Moved, Others, Same
  <2>4. Doubly' = Doubly
    BY <2>2, <2>3 DEF Doubly
  <2> QED BY <1>1, <2>1, <2>4 DEF HarnessInv, Balanced
<1>11. OneCanceller' /\ InterruptsOnlyAfterTimeout'
  BY <1>1, <1>5, <1>7 DEF HarnessInv, OneCanceller, InterruptsOnlyAfterTimeout, InCall, Moved,
     Others, Same
<1>12. ASSUME NEW d \in Callers PROVE Sound(d)'
  <2>1. CASE d # c
    <3>1. Same(d) /\ Sound(d)
      BY <1>5, <2>1, Kinds DEF Moved, Others
    <3>2. Stage(d)' /\ Runs(d)'
      BY <1>1, <3>1 DEF Same, Sound, Stage, Runs, parts
    <3>3. Holds(d)'
      <4>1. known \subseteq known' /\ known \subseteq Sessions
        BY <1>1 DEF HarnessInv, Types, HistoryTypes
      <4>2. \A t \in Sessions : active[t] = d => active'[t] = d
        BY <1>6, <2>1
      <4> QED BY <3>1, <4>1, <4>2 DEF Same, Sound, Holds
    <3>4. Creates(d)'
      <4>1. proc[d].op = "new" /\ pc[d] # "done1" /\ won => proc[d].ses # s
        BY <1>3, <2>1, Unshared DEF Touches
      <4> QED BY <1>1, <3>1, <4>1 DEF Same, Sound, Creates, parts
    <3>5. Starts(d)'
      <4>1. proc[d].op = "resume" /\ pc[d] \in Starting \cup {"dropcontext", "dropextension"} /\ won =>
              proc[d].ses # s
        BY <1>3, <2>1, Unshared DEF Touches, Starting
      <4> QED BY <1>1, <3>1, <4>1 DEF Same, Sound, Starts, Viewed, Full, parts
    <3> QED BY <3>2, <3>3, <3>4, <3>5 DEF Sound
  <2>2. CASE d = c
    <3>1. Stage(c)' /\ Starts(c)' /\ Runs(c)'
      BY <1>1, <1>2, <1>4, <1>5 DEF Moved, Holding, Sound, Stage, NewLabels, ResumeLabels,
         ReadLabels, RunLabels,
         Starts, Starting, Runs, OnSession
    <3>2. Holds(c)' /\ Creates(c)'
      BY <1>1, <1>2, <1>4, <1>5 DEF Moved, Holding, Sound, Holds, Creates, OnSession, parts
    <3> QED BY <2>2, <3>1, <3>2 DEF Sound
  <2> QED BY <2>1, <2>2
<1>13. known \subseteq known'
  BY <1>1
<1>14. Admitted' /\ Alone'
  BY <1>5, <1>6, <1>7, <1>13 DEF HarnessInv, Admitted, Alone, Types, HarnessTypes, Moved,
     Others, Same
<1>15. Accounted'
  <2>1. ASSUME NEW d \in Callers, proc[d].op = "new", pc[d] # "done1", pc[d] = "leave" => proc[d].result = "ok"
        PROVE  proc[d].ses \in known' \/ (d # c /\ Same(d))
    BY <1>1, <1>5, <2>1 DEF Moved, Others
  <2> QED BY <1>1, <1>13, <2>1 DEF HarnessInv, Accounted, Same, parts
<1>16. Policies' /\ Scopes'
  <2>1. \A t \in Sessions : contexts'.views[t] = contexts.views[t] /\ contexts'.scopes[t] = contexts.scopes[t]
    BY <1>1 DEF parts
  <2>2. ASSUME NEW t \in Sessions, active[t] # NULL, active[t] # c
        PROVE  active[t] \in Callers /\ active'[t] = active[t] /\ Same(active[t])
    BY <1>5, <1>6, <2>2 DEF Moved, Others, HarnessInv, Types, HarnessTypes
  <2> QED BY <1>1, <2>1, <2>2, Nulls DEF HarnessInv, Policies, Scopes, Same
<1> QED BY <1>8, <1>9, <1>10, <1>11, <1>12, <1>14, <1>15, <1>16 DEF HarnessInv

LEMMA DoneStep ==
  ASSUME HarnessInv, NEW c \in Callers, Done(c)
  PROVE  HarnessInv'
<1>1. /\ pc[c] \in {"done1", "done2"} /\ activeRuns' = activeRuns - 1
      /\ UNCHANGED <<closed, rootDone, active, finish, closeErr, parts, history>>
  BY DEF Done
<1>2. Sound(c) /\ proc[c].op # "none" /\ \A t \in Sessions : active[t] # c
  <2>1. \A t \in Sessions : active[t] # c
    BY <1>1, Nulls DEF HarnessInv, Admitted
  <2> QED BY <1>1, <2>1, Kinds DEF Sound, Stage
<1>3. /\ CallerTypes' /\ Others(c) /\ proc'[c].op \in {proc[c].op, "none"}
      /\ pc[c] = "done2" => Moved(c, "done1")
      /\ pc[c] = "done1" => /\ pc'[c] = "idle" /\ proc'[c].op = "none" /\ proc'[c].ses = NULL
                            /\ ~proc'[c].inRun /\ proc'[c].result = "none"
  <2>1. CASE pc[c] = "done2"
    <3>1. CallerTypes' /\ Moved(c, "done1")
      BY <2>1, Mover, Kinds DEF Done, Labels
    <3> QED BY <2>1, <3>1 DEF Moved, Holding
  <2>2. CASE pc[c] = "done1"
    <3>1. Goto(c, "idle") /\ proc' = [proc EXCEPT ![c] = Idle]
      BY <2>2 DEF Done
    <3>2. Idle \in Process
      BY DEF Idle, Process
    <3>3. CallerTypes' /\ Others(c) /\ pc'[c] = "idle" /\ proc'[c] = Idle
      BY <3>1, <3>2, IdleTypes, Kinds DEF Labels
    <3> QED BY <2>2, <3>3 DEF Idle
  <2> QED BY <1>1, <2>1, <2>2
<1>4. activeRuns' \in Int /\ active' \in [Sessions -> Callers \cup {NULL}]
  BY <1>1 DEF HarnessInv, Types, HarnessTypes
<1>5. Types' /\ Ordered' /\ Pending' /\ Fresh' /\ Readied'
  BY <1>1, <1>3, <1>4, PartsStay
<1>6. Balanced'
  <2>1. CASE pc[c] = "done2"
    <3>1. Inside' = Inside
      BY <1>3, <2>1 DEF Inside, Moved, Holding, Others, Same
    <3>2. proc[c].op = "resume"
      BY <1>2, <2>1, Kinds DEF Sound, Stage, NewLabels, ReadLabels, RunLabels, Starting
    <3>3. c \in Doubly /\ Doubly' = Doubly \ {c}
      BY <1>1, <1>2, <1>3, <2>1, <3>2 DEF Doubly, Moved, Others, Same
    <3>4. Cardinality(Doubly \ {c}) = Cardinality(Doubly) - 1
      BY <3>3, Counts, FS_RemoveElement
    <3> QED BY <1>1, <3>1, <3>3, <3>4, Counts DEF HarnessInv, Balanced, Types, HarnessTypes
  <2>2. CASE pc[c] = "done1"
    <3>1. c \in Inside /\ Inside' = Inside \ {c}
      BY <1>2, <1>3, <2>2 DEF Inside, Others, Same
    <3>2. Doubly' = Doubly
      BY <1>1, <1>2, <1>3, <2>2 DEF Doubly, Others, Same
    <3>3. Cardinality(Inside \ {c}) = Cardinality(Inside) - 1
      BY <3>1, Counts, FS_RemoveElement
    <3> QED BY <1>1, <3>1, <3>2, <3>3, Counts DEF HarnessInv, Balanced, Types, HarnessTypes
  <2> QED BY <1>1, <2>1, <2>2
<1>7. OneCanceller' /\ InterruptsOnlyAfterTimeout'
  BY <1>1, <1>3 DEF HarnessInv, OneCanceller, InterruptsOnlyAfterTimeout, InCall, Moved, Others,
     Same
<1>8. ASSUME NEW d \in Callers PROVE Sound(d)'
  <2>1. CASE d # c
    BY <1>1, <1>3, <2>1, Unaffected DEF Others
  <2>2. CASE d = c /\ pc[c] = "done2"
    <3>1. proc[c].op = "resume"
      BY <1>2, <2>2, Kinds DEF Sound, Stage, NewLabels, ReadLabels, RunLabels, Starting
    <3> QED BY <1>1, <1>2, <1>3, <2>2, <3>1 DEF Moved, Holding, Sound, Stage, ResumeLabels,
               Holds, Creates, Starts,
          Starting, Runs, OnSession, history
  <2>3. CASE d = c /\ pc[c] = "done1"
    BY <1>3, <2>3 DEF Sound, Stage, Holds, Creates, Starts, Starting, Runs, OnSession
  <2> QED BY <1>1, <2>1, <2>2, <2>3
<1>9. Admitted'
  BY <1>1, <1>2, <1>3 DEF HarnessInv, Admitted, Types, HarnessTypes, Others, Same, history
<1>10. Alone'
  BY <1>1, <1>3 DEF HarnessInv, Alone, Moved, Holding, Others, Same
<1>11. Accounted'
  <2>1. ASSUME NEW d \in Callers, proc[d].op = "new", pc[d] # "done1"
        PROVE  Same(d)
    <3>1. CASE d # c
      BY <1>3, <3>1 DEF Others
    <3>2. CASE d = c
      BY <1>1, <1>2, <2>1, <3>2 DEF Sound, Stage, NewLabels, Starting
    <3> QED BY <3>1, <3>2
  <2> QED BY <1>1, <2>1 DEF HarnessInv, Accounted, Same, parts, history
<1>12. Policies' /\ Scopes'
  <2>1. \A t \in Sessions : contexts'.views[t] = contexts.views[t] /\ contexts'.scopes[t] = contexts.scopes[t]
    BY <1>1 DEF parts
  <2>2. ASSUME NEW t \in Sessions, active[t] # NULL
        PROVE  active'[t] = active[t] /\ Same(active[t])
    BY <1>1, <1>2, <1>3, <2>2 DEF Others, HarnessInv, Types, HarnessTypes
  <2> QED BY <1>1, <2>1, <2>2, Nulls DEF HarnessInv, Policies, Scopes, Same
<1> QED BY <1>5, <1>6, <1>7, <1>8, <1>9, <1>10, <1>11, <1>12 DEF HarnessInv

(* A NewSession receives the session that no other operation is about: a   *)
(* new ID, or the ID of the create that failed before.                     *)
LEMMA CreateReturnsStep ==
  ASSUME HarnessInv, NEW c \in Callers, CreateReturns(c)
  PROVE  HarnessInv'
<1>0. /\ pc[c] = "storing" /\ proc[c].op = "new"
      /\ UNCHANGED <<harness, contexts, extensions, mcpClosed, known, ready, leftover>>
  BY DEF CreateReturns
<1>1. PICK s \in IF store.pending = NULL THEN Sessions \ used ELSE {store.pending} :
        /\ used' = used \cup {s}
        /\ \/ /\ store' = [store EXCEPT !.ids = @ \cup {s}, !.pending = NULL, !.inside = @ \ {c}]
              /\ Local(c, "ses", s)
              /\ Goto(c, "context")
           \/ /\ "store" \in Faults
              /\ \E kept \in SUBSET {s} :
                   store' = [store EXCEPT !.ids = @ \cup kept, !.pending = s, !.inside = @ \ {c}]
              /\ Fails(c, "leave")
  BY DEF CreateReturns
<1>2. /\ proc[c].ses = NULL /\ ~proc[c].inRun /\ proc[c].result # "ok" /\ Sound(c)
      /\ \A t \in Sessions : active[t] # c
  <2>1. Sound(c)
    BY Kinds
  <2>2. \A t \in Sessions : active[t] # c
    BY <1>0, Nulls DEF HarnessInv, Admitted, OnSession
  <2> QED BY <1>0, <2>1, <2>2 DEF Sound, Creates, Stage
<1>3. /\ s \in Sessions /\ s \notin known /\ (s \notin used \/ s = store.pending)
      /\ store.pending # NULL => s = store.pending
      /\ extensions.views[s] = "none" /\ s \notin ready
  <2>1. s \in Sessions /\ s \notin known /\ (s \notin used \/ s = store.pending)
        /\ (store.pending # NULL => s = store.pending)
    BY DEF HarnessInv, Pending, Types, PartTypes, HistoryTypes
  <2> QED BY <2>1 DEF HarnessInv, Fresh, Types, HistoryTypes
<1>4. \A d \in Callers : proc[d].op = "new" => proc[d].ses # s
  BY <1>3, Nulls, Kinds DEF Sound, Creates
<1>5. PICK kept \in SUBSET {s}, p \in {NULL, s}, l \in {"context", "leave"} :
        /\ store' = [store EXCEPT !.ids = @ \cup kept, !.pending = p, !.inside = @ \ {c}]
        /\ Goto(c, l)
        /\ l = "context" => p = NULL /\ Local(c, "ses", s)
        /\ l = "leave" => p = s /\ Local(c, "result", "failed")
  <2>1. CASE /\ store' = [store EXCEPT !.ids = @ \cup {s}, !.pending = NULL, !.inside = @ \ {c}]
             /\ Local(c, "ses", s) /\ Goto(c, "context")
    BY <2>1
  <2>2. ASSUME NEW kept \in SUBSET {s}, Fails(c, "leave"),
               store' = [store EXCEPT !.ids = @ \cup kept, !.pending = s, !.inside = @ \ {c}]
        PROVE  Goto(c, "leave") /\ Local(c, "result", "failed")
    BY <2>2 DEF Fails
  <2> QED BY <1>1, <2>1, <2>2
<1>6. /\ PartTypes' /\ store'.pending = p /\ \A t \in store'.ids : t \in store.ids \/ t = s
      /\ SameContexts /\ SameExtensions
  <2>1. PartTypes'
    BY <1>0, <1>3, <1>5 DEF HarnessInv, Types, PartTypes
  <2>2. store'.pending = p /\ \A t \in store'.ids : t \in store.ids \/ t = s
    BY <1>5 DEF HarnessInv, Types, PartTypes
  <2> QED BY <1>0, <2>1, <2>2 DEF SameContexts, SameExtensions
<1>7. /\ CallerTypes' /\ Others(c) /\ pc'[c] = l /\ proc'[c].op = "new" /\ ~proc'[c].inRun
      /\ proc'[c].result # "ok" /\ proc'[c].ses = IF l = "context" THEN s ELSE NULL
  <2>1. CASE l = "context"
    <3>1. proc' \in [Callers -> Process] /\ \A d \in Callers : d # c => proc'[d] = proc[d]
      BY <1>3, <1>5, <2>1, Kinds DEF CallerTypes, Local, Process
    <3>2. proc'[c] = [proc[c] EXCEPT !["ses"] = s]
      BY <1>5, <2>1, Kinds DEF CallerTypes, Local
    <3>3. proc'[c].op = "new" /\ proc'[c].inRun = proc[c].inRun /\ proc'[c].result = proc[c].result /\ proc'[c].ses = s
      BY <1>0, <3>2, Kinds DEF CallerTypes, Process
    <3> QED BY <1>2, <1>5, <2>1, <3>1, <3>3, Goes, Kinds DEF CallerTypes, Others, Same, Labels
  <2>2. CASE l = "leave"
    <3>1. CallerTypes' /\ Ended(c, "leave", "failed")
      BY <1>5, <2>2, Ender, Kinds DEF Labels
    <3> QED BY <1>0, <1>2, <2>2, <3>1 DEF Ended, Holding
  <2> QED BY <2>1, <2>2
<1>8. Types'
  BY <1>0, <1>1, <1>3, <1>6, <1>7 DEF HarnessInv, Types, HarnessTypes, HistoryTypes, harness
<1>9. \A d \in Callers : proc'[d].op = proc[d].op
  BY <1>0, <1>7 DEF Others, Same
<1>10. Balanced'
  <2>1. Inside' = Inside
    BY <1>9 DEF Inside
  <2>2. Doubly' = Doubly
    BY <1>0, <1>7, <1>9 DEF Doubly, Others, Same, harness
  <2> QED BY <1>0, <2>1, <2>2 DEF HarnessInv, Balanced, harness
<1>11. Ordered' /\ OneCanceller' /\ InterruptsOnlyAfterTimeout'
  BY <1>0, <1>7, <1>9 DEF HarnessInv, Ordered, OneCanceller, InterruptsOnlyAfterTimeout, InCall,
     Others, Same, harness
<1>12. ASSUME NEW d \in Callers PROVE Sound(d)'
  <2>1. CASE d # c
    <3>1. Same(d) /\ Sound(d)
      BY <1>7, <2>1, Kinds DEF Others
    <3>2. Stage(d)' /\ Holds(d)' /\ Starts(d)' /\ Runs(d)'
      BY <1>0, <3>1 DEF Same, Sound, Stage, Holds, Starts, Runs, Viewed, Full, harness
    <3>3. Creates(d)'
      BY <1>0, <1>1, <1>4, <1>6, <3>1 DEF Same, Sound, Creates
    <3> QED BY <3>2, <3>3 DEF Sound
  <2>2. CASE d = c
    <3>1. Stage(c)' /\ Holds(c)' /\ Runs(c)'
      BY <1>7 DEF Stage, NewLabels, Starting, Holds, Runs, OnSession
    <3>2. Creates(c)'
      BY <1>0, <1>1, <1>3, <1>5, <1>6, <1>7, Nulls DEF Creates
    <3>3. Starts(c)'
      BY <1>0, <1>3, <1>7 DEF Starts, Starting
    <3> QED BY <2>2, <3>1, <3>2, <3>3 DEF Sound
  <2> QED BY <2>1, <2>2
<1>13. Admitted'
  BY <1>0, <1>2, <1>7 DEF HarnessInv, Admitted, Types, HarnessTypes, Others, Same, harness
<1>14. Alone'
  BY <1>4, <1>7, <1>9 DEF HarnessInv, Alone, Others, Same
<1>15. Pending'
  BY <1>0, <1>1, <1>3, <1>6 DEF Pending
<1>16. Accounted'
  <2>1. s \in {store'.pending} \/ (proc'[c].op = "new" /\ proc'[c].ses = s /\ pc'[c] = "context")
    BY <1>5, <1>6, <1>7
  <2>2. ASSUME NEW d \in Callers, NEW t \in store.ids, proc[d].ses = t PROVE Same(d)
    <3>1. t \in Sessions
      BY DEF HarnessInv, Types, PartTypes
    <3> QED BY <1>2, <1>7, <2>2, <3>1, Nulls DEF Others
  <2> QED BY <1>0, <1>3, <1>6, <2>1, <2>2, Nulls DEF HarnessInv, Accounted, Same, Types, PartTypes
<1>17. Fresh' /\ Readied'
  <2>1. Fresh'
    BY <1>0, <1>1, <1>3, <1>6, Nulls DEF HarnessInv, Fresh
  <2>2. Readied'
    BY <1>0 DEF HarnessInv, Readied, Viewed, Full
  <2> QED BY <2>1, <2>2
<1>18. Policies' /\ Scopes'
  <2>1. ASSUME NEW t \in Sessions, active[t] # NULL PROVE active'[t] = active[t] /\ Same(active[t])
    BY <1>0, <1>2, <1>7, <2>1 DEF Others, HarnessInv, Types, HarnessTypes, harness
  <2> QED BY <1>0, <2>1, Nulls DEF HarnessInv, Policies, Scopes, Same
<1> QED BY <1>8, <1>10, <1>11, <1>12, <1>13, <1>14, <1>15, <1>16, <1>17, <1>18 DEF HarnessInv

-----------------------------------------------------------------------------
(* The theorems.                                                           *)

LEMMA InitInv == Init => HarnessInv
<1> SUFFICES ASSUME Init PROVE HarnessInv
  OBVIOUS
<1>1. PICK old \in SUBSET Sessions :
        /\ store = [ids |-> old, pending |-> NULL, closed |-> FALSE, inside |-> {}]
        /\ used = old /\ known = old
  BY DEF Init
<1>2. Types
  <2>1. HarnessTypes
    <3>1. closed \in BOOLEAN /\ rootDone \in BOOLEAN /\ mcpClosed \in BOOLEAN
      BY Zenon DEF Init
    <3>2. active \in [Sessions -> Callers \cup {NULL}] /\ activeRuns \in Int /\ closeErr = {} /\ finish = "open"
      BY DEF Init
    <3> QED BY <3>1, <3>2, Zenon DEF HarnessTypes
  <2>2. PartTypes
    BY <1>1 DEF Init, PartTypes
  <2>3. CallerTypes /\ HistoryTypes
    BY <1>1 DEF Init, CallerTypes, HistoryTypes, Process, Idle, Labels
  <2> QED BY <2>1, <2>2, <2>3 DEF Types
<1>3. \A c \in Callers : pc[c] = "idle" /\ proc[c] = Idle
  BY DEF Init
<1>4. Balanced
  <2>1. Inside = {} /\ Doubly = {}
    BY <1>3 DEF Inside, Doubly, Idle
  <2> QED BY <2>1, FS_EmptySet DEF Init, Balanced
<1>5. Ordered /\ OneCanceller /\ InterruptsOnlyAfterTimeout
  BY <1>3 DEF Init, Ordered, OneCanceller, InterruptsOnlyAfterTimeout, AfterExtensions,
     AfterContexts, Teardown
<1>6. \A c \in Callers : Sound(c)
  BY <1>3 DEF Idle, Sound, Stage, Holds, Creates, Starts, Starting, Runs, OnSession
<1>7. Admitted /\ Alone /\ Pending /\ Accounted /\ Fresh /\ Readied /\ Policies /\ Scopes
  BY <1>1, <1>3 DEF Init, Admitted, Alone, Pending, Accounted, Fresh, Readied, Policies, Scopes,
     Idle
<1> QED BY <1>2, <1>4, <1>5, <1>6, <1>7 DEF HarnessInv

LEMMA StepInv ==
  ASSUME HarnessInv, NEW c \in Callers, Step(c)
  PROVE  HarnessInv'
<1>1. CASE Admit(c) \/ Leave(c) \/ Done(c)
  BY <1>1, AdmitStep, LeaveStep, DoneStep
<1>2. CASE CallStore(c) \/ CreateReturns(c) \/ StoreReturns(c) \/ CallDelete(c) \/ DeleteReturns(c)
  BY <1>2, CallStoreStep, CreateReturnsStep, StoreReturnsStep, CallDeleteStep, DeleteReturnsStep
<1>3. CASE CallContexts(c) \/ startSession(c) \/ ContextStarts(c) \/ TakeView(c) \/ Instructions(c)
  BY <1>3, CallContextsStep, startSessionStep, ContextStartsStep, TakeViewStep, InstructionsStep
<1>4. CASE InstructionRecords(c) \/ DropContext(c) \/ Expand(c) \/ Expanded(c) \/ SetRunPolicy(c) \/ ReleaseRun(c)
  BY <1>4, InstructionRecordsStep, DropContextStep, ExpandStep, ExpandedStep, SetRunPolicyStep,
     ReleaseRunStep
<1>5. CASE CallExtensions(c) \/ ExtensionStarts(c) \/ Snapshot(c) \/ DropMCP(c) \/ DropExtension(c)
  BY <1>5, CallExtensionsStep, ExtensionStartsStep, SnapshotStep, DropMCPStep, DropExtensionStep
<1>6. CASE CancelAll(c) \/ CloseReturns(c)
  BY <1>6, CancelAllStep, CloseReturnsStep
<1> QED BY <1>1, <1>2, <1>3, <1>4, <1>5, <1>6 DEF Step

LEMMA NextInv == HarnessInv /\ [Next]_vars => HarnessInv'
<1> SUFFICES ASSUME HarnessInv, [Next]_vars PROVE HarnessInv'
  OBVIOUS
<1>1. ASSUME NEW c \in Callers, CallOperation(c) \/ CallSessionOperation(c) \/ CallClose(c)
      PROVE  HarnessInv'
  BY <1>1, CallOperationStep, CallSessionOperationStep, CallCloseStep
<1>2. ASSUME NEW c \in Callers, HostCancels(c) \/ linkedOperationContext(c)
      PROVE  HarnessInv'
  BY <1>2, CancelledStep
<1>3. ASSUME NEW c \in Callers, RunContinues(c) \/ RunEnds(c) \/ ModelReturns(c)
      PROVE  HarnessInv'
  BY <1>3, RunContinuesStep, RunEndsStep, ModelReturnsStep
<1>4. ASSUME NEW c \in Callers, Step(c) PROVE HarnessInv'
  BY <1>4, StepInv
<1>5. CASE finishClose
  BY <1>5, FinishCloseStep
<1>6. CASE UNCHANGED vars
  <2>1. UNCHANGED <<harness, parts, pc, proc, history>>
    BY <1>6 DEF vars
  <2>2. Types' /\ Balanced' /\ Ordered' /\ OneCanceller' /\ InterruptsOnlyAfterTimeout'
    <3>1. HarnessTypes' /\ PartTypes' /\ CallerTypes' /\ HistoryTypes'
      BY <2>1, Zenon DEF HarnessInv, Types, HarnessTypes, PartTypes, CallerTypes, HistoryTypes,
         harness, parts, history
    <3>2. Balanced' /\ Ordered' /\ OneCanceller' /\ InterruptsOnlyAfterTimeout'
      BY <2>1 DEF HarnessInv, Balanced, Inside, Doubly, Ordered, OneCanceller,
         InterruptsOnlyAfterTimeout, InCall,
         harness, parts
    <3> QED BY <3>1, <3>2 DEF Types
  <2>3. ASSUME NEW d \in Callers PROVE Sound(d)'
    <3>1. Same(d)
      BY <2>1 DEF Same
    <3> QED BY <2>1, <3>1, Unaffected DEF harness
  <2>4. Admitted' /\ Alone' /\ Pending' /\ Accounted'
    BY <2>1 DEF HarnessInv, Admitted, Alone, Pending, Accounted, harness, parts, history
  <2>5. Fresh' /\ Readied' /\ Policies' /\ Scopes'
    BY <2>1 DEF HarnessInv, Fresh, Readied, Viewed, Full, Policies, Scopes, harness, parts,
       history
  <2> QED BY <2>2, <2>3, <2>4, <2>5 DEF HarnessInv
<1> QED BY <1>1, <1>2, <1>3, <1>4, <1>5, <1>6 DEF Next

LEMMA AlwaysInv == Spec => []HarnessInv
BY InitInv, NextInv, PTL DEF Spec

(* The variables keep their types: the WaitGroup of the Harness, for one,  *)
(* is never told of more operations that end than have begun, which would  *)
(* panic, whatever order beginOperation, the second admission of           *)
(* ResumeSession, the releases and Close come in.                          *)
THEOREM TypeCorrect == Spec => []TypeOK
<1>1. HarnessInv => TypeOK
  <2> SUFFICES ASSUME HarnessInv PROVE TypeOK
    OBVIOUS
  <2>1. activeRuns \in Nat
    BY Counts DEF HarnessInv, Balanced
  <2>2. /\ closed \in BOOLEAN /\ rootDone \in BOOLEAN /\ mcpClosed \in BOOLEAN
        /\ active \in [Sessions -> Callers \cup {NULL}]
        /\ finish \in Teardown \cup {"open", "called", "wait"}
        /\ closeErr \subseteq {"timeout", "resource"}
    BY Zenon DEF HarnessInv, Types, HarnessTypes
  <2>3. PartTypes /\ CallerTypes /\ HistoryTypes
    BY DEF HarnessInv, Types
  <2> QED BY <2>1, <2>2, <2>3, Zenon DEF TypeOK, PartTypes, CallerTypes, HistoryTypes, Process,
             Labels
<1> QED BY <1>1, AlwaysInv, PTL

(* finishClose takes the plugins, the MCP manager, the extensions, the     *)
(* contexts and the store down while an operation is still running only    *)
(* after its timer, and then Close reports ErrCloseTimeout.                *)
THEOREM Interrupts == Spec => []InterruptsOnlyAfterTimeout
<1>1. HarnessInv => InterruptsOnlyAfterTimeout
  BY DEF HarnessInv
<1> QED BY <1>1, AlwaysInv, PTL

(* NewSession and ResumeSession are all or nothing: no session of the      *)
(* store is lost to the host without an error that says so, and a session  *)
(* that was made ready keeps its view and its whole catalog until Close.   *)
THEOREM Whole == Spec => []SessionsAreWhole
<1>1. HarnessInv => SessionsAreWhole
  <2> SUFFICES ASSUME HarnessInv PROVE SessionsAreWhole
    OBVIOUS
  <2>1. ASSUME NEW s \in store.ids
        PROVE  \/ s \in known \cup leftover \cup {store.pending}
               \/ \E c \in Callers : proc[c].op = "new" /\ proc[c].ses = s
    BY DEF HarnessInv, Accounted
  <2>2. ASSUME NEW s \in ready
        PROVE  /\ finish \notin Teardown => contexts.views[s] # "none" /\ extensions.views[s] = "full"
               /\ extensions.views[s] # "plain"
    <3>1. Viewed(s) /\ Full(s)
      BY DEF HarnessInv, Readied
    <3>2. finish \notin Teardown => ~contexts.closed /\ ~extensions.closed
      BY DEF HarnessInv, Ordered, AfterContexts, AfterExtensions, Teardown
    <3> QED BY <3>1, <3>2 DEF Viewed, Full
  <2> QED BY <2>1, <2>2 DEF SessionsAreWhole
<1> QED BY <1>1, AlwaysInv, PTL

(* The tool-policy scope of a session exists only during the run that      *)
(* Instructions made it for, and is narrowed exactly when RunTemplate set  *)
(* the policy of a template on it: neither outlives releaseRun, whichever  *)
(* way the run ends and whoever closes the Harness meanwhile.              *)
THEOREM Scoped == Spec => []ScopesFollowRuns
<1>1. HarnessInv => ScopesFollowRuns
  <2> SUFFICES ASSUME HarnessInv, NEW s \in Sessions, contexts.scopes[s] # "none"
               PROVE  \E c \in Callers :
                        /\ Running(c, s)
                        /\ contexts.scopes[s] = "narrowed" <=> proc[c].op = "template"
    BY DEF ScopesFollowRuns
  <2>1. /\ active[s] \in Callers /\ proc[active[s]].inRun
        /\ contexts.scopes[s] = "narrowed" <=> proc[active[s]].op = "template"
    BY DEF HarnessInv, Scopes, Types, HarnessTypes
  <2> QED BY <2>1 DEF Running
<1> QED BY <1>1, AlwaysInv, PTL
=============================================================================
