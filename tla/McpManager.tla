----------------------------- MODULE McpManager -----------------------------
(***************************************************************************)
(* The owner of the MCP connections, src/mcp/manager.go: one client        *)
(* session and one transport (a child process or an HTTP client) for each  *)
(* pair of durable session and server, dialed when a model request asks    *)
(* for tools, replaced after a failed call, dropped when its session is    *)
(* resumed and closed with the harness.                                    *)
(*                                                                         *)
(* One lock for each server name serializes dialing and teardown over all  *)
(* sessions.  It is a Go mutex: the goroutine that tears a connection down *)
(* gives back the lock that the caller who started it took.                *)
(*                                                                         *)
(* Left out: the projection of tools and results, the output budget, the   *)
(* redaction of errors, and the abort of HTTP requests, which shortens a   *)
(* wait that ends anyway.                                                  *)
(***************************************************************************)
EXTENDS Naturals, FiniteSets

CONSTANTS
  Callers,       \* goroutines inside the manager at a time
  Sessions,
  Servers,       \* allowed server names of the catalogs
  Conns,         \* bound: connections that somebody still refers to
  FailureLimit,
  Ops,           \* the operations in use
  NULL

ASSUME ConstantsAssumption ==
  /\ FailureLimit \in Nat \ {0}
  /\ Ops \subseteq {"tools", "call", "drop", "close"}
  /\ NULL \notin Callers \cup Sessions \cup Servers \cup Conns
  /\ NULL \notin [ses: Sessions, srv: Servers]
  /\ Callers \cap Conns = {}
  /\ IsFiniteSet(Callers) /\ IsFiniteSet(Servers)

VARIABLES
  \* Manager
  closed,       \* Close has begun; rootDone is closed with it
  connections,  \* connections[s][v]: the connection in the map, or NULL
  locks,        \* locks[v]: the caller in the lock of v, the connection whose
                \* teardown goroutine will give it back, or NULL
  failures, suppressed,
  teardowns,    \* the wait group of that name
  result,       \* how the first Close ended: "none", "clean" or "timeout"
  orphans,      \* connections that goroutines of Close have yet to close
  \* the connections
  key,          \* key[c]: its session and server, or NULL
  wire,         \* wire[c]: its transport is "up", "draining" (up, and closing
                \* is set) or "down"
  \* the callers
  pc, proc

manager == <<closed, connections, result, orphans>>
health  == <<failures, suppressed>>
conns   == <<key, wire>>
vars    == <<manager, health, locks, teardowns, conns, pc, proc>>

\* todo: connections still to drain; pend: those that Close is to close
Idle == [ses |-> NULL, srv |-> NULL, con |-> NULL, todo |-> {}, pend |-> {}]

Init ==
  /\ closed = FALSE
  /\ connections = [s \in Sessions |-> [v \in Servers |-> NULL]]
  /\ locks = [v \in Servers |-> NULL]
  /\ failures = [v \in Servers |-> 0]
  /\ suppressed = [v \in Servers |-> FALSE]
  /\ teardowns = 0
  /\ result = "none"
  /\ orphans = {}
  /\ key = [c \in Conns |-> NULL]
  /\ wire = [c \in Conns |-> "down"]
  /\ pc = [p \in Callers |-> "idle"]
  /\ proc = [p \in Callers |-> Idle]

-----------------------------------------------------------------------------
(* Who is inside.  A definition named ..._Bug is that of a faulty manager: *)
(* it breaks a property below when it stands in for the one it precedes.   *)

Connecting == {"lock", "dial", "list"}
Calling    == {"calling", "finish", "drain", "broken", "transferred"}
Dropping   == {"dropdrain", "droplock", "dropwait"}
Closing    == {"closedrain", "closequiet", "collect", "closewait"}

Operations  == {p \in Callers : pc[p] \in Connecting \cup Dropping}
Active      == {p \in Callers : pc[p] \in Calling}
ActiveOn(c) == {p \in Active : proc[p].con = c}

(* Connections that some goroutine still refers to.                        *)
Held == {proc[p].con : p \in Callers} \cup {locks[v] : v \in Servers} \cup orphans
          \cup (UNION {proc[p].todo \cup proc[p].pend : p \in Callers})

Goto(p, label) == pc' = [pc EXCEPT ![p] = label]
Return(p) == Goto(p, "idle") /\ proc' = [proc EXCEPT ![p] = Idle]
Drain(c) == wire' = [wire EXCEPT ![c] = IF @ = "up" THEN "draining" ELSE @]
Shut(c)  == wire' = [wire EXCEPT ![c] = "down"]

Fail(v) ==
  /\ failures' = [failures EXCEPT ![v] = @ + 1]
  /\ suppressed' = [suppressed EXCEPT ![v] = @ \/ failures[v] + 1 >= FailureLimit]
Succeed(v) ==
  /\ failures' = [failures EXCEPT ![v] = 0]
  /\ suppressed' = [suppressed EXCEPT ![v] = FALSE]

-----------------------------------------------------------------------------
(* Tools, for one allowed server: Manager.connection and connect.          *)

(* The harness drops the connections of a session inside the exclusive     *)
(* operation of ResumeSession, so no model request of it asks for tools.   *)
Exclusive(s, labels) == \A q \in Callers : proc[q].ses = s => pc[q] \notin labels

BeginConnection(p) ==
  /\ "tools" \in Ops
  /\ pc[p] = "idle" /\ ~closed
  /\ \E s \in Sessions, v \in Servers :
       /\ Exclusive(s, Dropping)
       /\ proc' = [proc EXCEPT ![p] = [Idle EXCEPT !.ses = s, !.srv = v]]
  /\ Goto(p, "lock")
  /\ UNCHANGED <<manager, health, locks, teardowns, conns>>

(* The connection exists, or none may be made.                             *)
Settled(p) == \/ closed
              \/ connections[proc[p].ses][proc[p].srv] # NULL
              \/ suppressed[proc[p].srv]

LockToConnect(p) ==
  /\ pc[p] = "lock"
  /\ locks[proc[p].srv] = NULL
  /\ \/ Settled(p) /\ Return(p) /\ UNCHANGED locks
     \/ /\ ~Settled(p)
        /\ locks' = [locks EXCEPT ![proc[p].srv] = p]
        /\ Goto(p, "dial") /\ UNCHANGED proc
  /\ UNCHANGED <<manager, health, teardowns, conns>>

Unlock_Bug(p) ==
  IF pc[p] = "dial" THEN UNCHANGED locks ELSE locks' = [locks EXCEPT ![proc[p].srv] = NULL]
Unlock(p) == locks' = [locks EXCEPT ![proc[p].srv] = NULL]

(* client.Connect: the process is started, or the endpoint has answered.   *)
Dial(p) ==
  /\ pc[p] = "dial"
  /\ \E c \in Conns \ Held :
       /\ wire[c] = "down"
       /\ wire' = [wire EXCEPT ![c] = "up"]
       /\ key' = [key EXCEPT ![c] = [ses |-> proc[p].ses, srv |-> proc[p].srv]]
       /\ proc' = [proc EXCEPT ![p].con = c]
  /\ Goto(p, "list")
  /\ UNCHANGED <<manager, health, locks, teardowns>>

(* The server is not resolved, refuses, lists no valid tools or is too     *)
(* slow.  The failure does not count when the context of the request has   *)
(* ended.                                                                  *)
ConnectFails(p) ==
  /\ pc[p] \in {"dial", "list"}
  /\ IF pc[p] = "list" THEN Shut(proc[p].con) ELSE UNCHANGED wire
  /\ Fail(proc[p].srv) \/ UNCHANGED health
  /\ Unlock(p) /\ Return(p)
  /\ UNCHANGED <<manager, teardowns, key>>

(* The tools are listed: the connection goes into the map, unless Close    *)
(* has begun meanwhile.                                                    *)
Publish(p) ==
  IF closed THEN /\ Shut(proc[p].con)
                 /\ UNCHANGED connections
            ELSE /\ connections' = [connections EXCEPT ![proc[p].ses][proc[p].srv] = proc[p].con]
                 /\ UNCHANGED wire

Install(p) ==
  /\ pc[p] = "list"
  /\ Publish(p)
  /\ Unlock(p) /\ Return(p)
  /\ UNCHANGED <<closed, result, orphans, health, teardowns, key>>

-----------------------------------------------------------------------------
(* A tool call: connection.call.                                           *)

(* The tool may be stale: its connection need not be in the map.           *)
BeginCall(p) ==
  /\ "call" \in Ops
  /\ pc[p] = "idle" /\ ~closed
  /\ \E c \in Conns :
       /\ wire[c] = "up"
       /\ \A q \in Callers : ~(pc[q] = "list" /\ proc[q].con = c)
       /\ proc' = [proc EXCEPT ![p] = [Idle EXCEPT !.con = c, !.srv = key[c].srv]]
  /\ teardowns' = teardowns + 1
  /\ Goto(p, "calling")
  /\ UNCHANGED <<manager, health, locks, conns>>

CallSucceeds(p) ==
  /\ pc[p] = "calling"
  /\ Succeed(proc[p].srv)
  /\ Goto(p, "finish")
  /\ UNCHANGED <<manager, locks, teardowns, conns, proc>>

(* The call ends with an error: one of the caller's context or of the      *)
(* canceled connection, or else one that breaks the connection.            *)
CallFails(p) ==
  /\ pc[p] = "calling"
  /\ \/ Goto(p, "finish")
     \/ wire[proc[p].con] = "up" /\ Goto(p, "drain")
  /\ UNCHANGED <<manager, health, locks, teardowns, conns, proc>>

(* markBroken, up to the lock.                                             *)
DrainBroken(p) ==
  /\ pc[p] = "drain"
  /\ Drain(proc[p].con)
  /\ Goto(p, "broken")
  /\ UNCHANGED <<manager, health, locks, teardowns, key, proc>>

(* markBroken, with the lock: the goroutine it starts closes the           *)
(* connection and gives the lock back.                                     *)
Detach(c) ==
  connections' = [s \in Sessions |-> [v \in Servers |->
                    IF connections[s][v] = c THEN NULL ELSE connections[s][v]]]
MarkBroken_Bug(p) ==
  /\ pc[p] = "broken"
  /\ locks[proc[p].srv] = NULL
  /\ orphans' = orphans \cup {proc[p].con}
  /\ Detach(proc[p].con)
  /\ Fail(proc[p].srv)
  /\ Goto(p, "finish")
  /\ UNCHANGED <<closed, result, locks, teardowns, conns, proc>>
MarkBroken(p) ==
  /\ pc[p] = "broken"
  /\ locks[proc[p].srv] = NULL
  /\ locks' = [locks EXCEPT ![proc[p].srv] = proc[p].con]
  /\ Detach(proc[p].con)
  /\ Fail(proc[p].srv)
  /\ Goto(p, "transferred")
  /\ UNCHANGED <<closed, result, orphans, teardowns, conns, proc>>

(* finishCall, and the count of the teardown when none was started.        *)
FinishCall_Bug(p) ==
  /\ pc[p] \in {"finish", "transferred"}
  /\ teardowns' = teardowns - 1
  /\ Return(p)
  /\ UNCHANGED <<manager, health, locks, conns>>
FinishCall(p) ==
  /\ pc[p] \in {"finish", "transferred"}
  /\ teardowns' = IF pc[p] = "finish" THEN teardowns - 1 ELSE teardowns
  /\ Return(p)
  /\ UNCHANGED <<manager, health, locks, conns>>

-----------------------------------------------------------------------------
(* connection.close, in the goroutines of markBroken and DropSession.      *)

Closable(c) == ActiveOn(c) = {}

TeardownCloses(v) ==
  /\ locks[v] \in Conns
  /\ wire[locks[v]] # "down" /\ Closable(locks[v])
  /\ Shut(locks[v])
  /\ UNCHANGED <<manager, health, locks, teardowns, key, pc, proc>>

TeardownEnds(v) ==
  /\ locks[v] \in Conns
  /\ wire[locks[v]] = "down"
  /\ locks' = [locks EXCEPT ![v] = NULL]
  /\ teardowns' = teardowns - 1
  /\ UNCHANGED <<manager, health, conns, pc, proc>>

-----------------------------------------------------------------------------
(* DropSession.                                                            *)

Owned(s) == {connections[s][v] : v \in Servers} \ {NULL}

BeginDrop(p) ==
  /\ "drop" \in Ops
  /\ pc[p] = "idle" /\ ~closed
  /\ \E s \in Sessions :
       /\ Owned(s) # {}
       /\ Exclusive(s, Connecting \cup Dropping)
       /\ proc' = [proc EXCEPT ![p] = [Idle EXCEPT !.ses = s, !.todo = Owned(s)]]
       /\ connections' = [connections EXCEPT ![s] = [v \in Servers |-> NULL]]
  /\ Goto(p, "dropdrain")
  /\ UNCHANGED <<closed, result, orphans, health, locks, teardowns, conns>>

(* One connection after the other: drain it, wait for its lock, and leave  *)
(* both to a goroutine.                                                    *)
DropDrains(p) ==
  /\ pc[p] = "dropdrain"
  /\ \E c \in proc[p].todo :
       /\ Drain(c)
       /\ proc' = [proc EXCEPT ![p].con = c, ![p].srv = key[c].srv]
  /\ Goto(p, "droplock")
  /\ UNCHANGED <<manager, health, locks, teardowns, key>>

DropStarts(p) ==
  /\ pc[p] = "droplock"
  /\ locks[proc[p].srv] = NULL
  /\ locks' = [locks EXCEPT ![proc[p].srv] = proc[p].con]
  /\ teardowns' = teardowns + 1
  /\ proc' = [proc EXCEPT ![p].todo = @ \ {proc[p].con}]
  /\ Goto(p, IF proc[p].todo = {proc[p].con} THEN "dropwait" ELSE "dropdrain")
  /\ UNCHANGED <<manager, health, conns>>

(* All results are in, the context has ended or CloseGrace is over.  In    *)
(* each case the goroutines go on without the caller.                      *)
DropReturns(p) ==
  /\ pc[p] = "dropwait"
  /\ Return(p)
  /\ UNCHANGED <<manager, health, locks, teardowns, conns>>

-----------------------------------------------------------------------------
(* Close.                                                                  *)

Everything == UNION {Owned(s) : s \in Sessions}

BeginClose(p) ==
  /\ "close" \in Ops
  /\ pc[p] = "idle"
  /\ \/ /\ ~closed
        /\ closed' = TRUE
        /\ connections' = [s \in Sessions |-> [v \in Servers |-> NULL]]
        /\ proc' = [proc EXCEPT ![p] = [Idle EXCEPT !.todo = Everything, !.pend = Everything]]
        /\ Goto(p, IF Everything = {} THEN "closequiet" ELSE "closedrain")
     \/ /\ closed
        /\ Goto(p, "closewait")
        /\ UNCHANGED <<closed, connections, proc>>
  /\ UNCHANGED <<result, orphans, health, locks, teardowns, conns>>

CloseDrains(p) ==
  /\ pc[p] = "closedrain"
  /\ \E c \in proc[p].todo :
       /\ Drain(c)
       /\ proc' = [proc EXCEPT ![p].todo = @ \ {c}]
       /\ Goto(p, IF proc[p].todo = {c} THEN "closequiet" ELSE "closedrain")
  /\ UNCHANGED <<manager, health, locks, teardowns, key>>

(* The three wait groups are at zero: the connections are closed.          *)
Quiet == Operations = {} /\ Active = {} /\ teardowns = 0

CloseStarts(p) ==
  /\ pc[p] = "closequiet"
  /\ Quiet
  /\ orphans' = orphans \cup proc[p].pend
  /\ Goto(p, "collect")
  /\ UNCHANGED <<closed, connections, result, health, locks, teardowns, conns, proc>>

CloseOrphan(c) ==
  /\ c \in orphans
  /\ Closable(c)
  /\ Shut(c)
  /\ orphans' = orphans \ {c}
  /\ UNCHANGED <<closed, connections, result, health, locks, teardowns, key, pc, proc>>

CloseCollects(p) ==
  /\ pc[p] = "collect"
  /\ proc[p].pend \cap orphans = {}
  /\ result' = "clean"
  /\ Return(p)
  /\ UNCHANGED <<closed, connections, orphans, health, locks, teardowns, conns>>

(* CloseGrace is over: what is not closed yet is left to goroutines.       *)
CloseTimesOut_Bug(p) ==
  /\ pc[p] \in {"closequiet", "collect"}
  /\ result' = "timeout"
  /\ Return(p)
  /\ UNCHANGED <<closed, connections, orphans, health, locks, teardowns, conns>>
CloseTimesOut(p) ==
  /\ pc[p] \in {"closequiet", "collect"}
  /\ orphans' = IF pc[p] = "closequiet" THEN orphans \cup proc[p].pend ELSE orphans
  /\ result' = "timeout"
  /\ Return(p)
  /\ UNCHANGED <<closed, connections, health, locks, teardowns, conns>>

(* A second Close waits for the first one and returns its error.           *)
CloseAgain(p) ==
  /\ pc[p] = "closewait"
  /\ result # "none"
  /\ Return(p)
  /\ UNCHANGED <<manager, health, locks, teardowns, conns>>

-----------------------------------------------------------------------------
Acquires(p) == LockToConnect(p) \/ MarkBroken(p) \/ DropStarts(p)
Answers(p)  == CallSucceeds(p) \/ CallFails(p)
Proceeds(p) ==
  \/ Dial(p) \/ ConnectFails(p) \/ Install(p)
  \/ DrainBroken(p) \/ FinishCall(p)
  \/ DropDrains(p) \/ DropReturns(p)
  \/ CloseDrains(p) \/ CloseStarts(p) \/ CloseCollects(p) \/ CloseTimesOut(p) \/ CloseAgain(p)
Begins(p) == BeginConnection(p) \/ BeginCall(p) \/ BeginDrop(p) \/ BeginClose(p)
Teardown == \/ \E v \in Servers : TeardownCloses(v) \/ TeardownEnds(v)
            \/ \E c \in Conns : CloseOrphan(c)

Next == Teardown \/ \E p \in Callers : Begins(p) \/ Acquires(p) \/ Answers(p) \/ Proceeds(p)

Spec == Init /\ [][Next]_vars

(* A Go mutex starves nobody; dialing, waiting for results and Close have  *)
(* a time limit each; a call returns once its connection is canceled, but  *)
(* a server may keep any other call waiting.                               *)
Canceled(p) == pc[p] = "calling" /\ wire[proc[p].con] = "draining"
FairSpec ==
  /\ Spec
  /\ \A p \in Callers :
       /\ SF_vars(Acquires(p))
       /\ WF_vars(Proceeds(p))
       /\ WF_vars(Canceled(p) /\ Answers(p))
  /\ \A v \in Servers : WF_vars(TeardownCloses(v) \/ TeardownEnds(v))
  /\ \A c \in Conns : WF_vars(CloseOrphan(c))

-----------------------------------------------------------------------------
Process == [ses: Sessions \cup {NULL}, srv: Servers \cup {NULL}, con: Conns \cup {NULL},
            todo: SUBSET Conns, pend: SUBSET Conns]

TypeOK ==
  /\ closed \in BOOLEAN
  /\ connections \in [Sessions -> [Servers -> Conns \cup {NULL}]]
  /\ locks \in [Servers -> Callers \cup Conns \cup {NULL}]
  /\ failures \in [Servers -> Nat]
  /\ suppressed \in [Servers -> BOOLEAN]
  /\ teardowns \in Nat
  /\ result \in {"none", "clean", "timeout"}
  /\ orphans \in SUBSET Conns
  /\ key \in [Conns -> [ses: Sessions, srv: Servers] \cup {NULL}]
  /\ wire \in [Conns -> {"up", "draining", "down"}]
  /\ pc \in [Callers -> {"idle"} \cup Connecting \cup Calling \cup Dropping \cup Closing]
  /\ proc \in [Callers -> Process]

(* A transport that is up can be reached through the map, or somebody is   *)
(* about to close it: no process or HTTP client is ever forgotten, whoever *)
(* detached its connection and however Close ended; and a Close that        *)
(* reports no error leaves nothing: no transport, no caller inside, no      *)
(* goroutine and no lock.                                                  *)
NothingLeaks ==
  /\ \A c \in Conns : wire[c] # "down" =>
       \/ c \in Everything \cup orphans
       \/ \E v \in Servers : locks[v] = c
       \/ \E p \in Callers : \/ pc[p] = "list" /\ proc[p].con = c
                            \/ c \in proc[p].todo \cup proc[p].pend
  /\ result = "clean" =>
       /\ \A c \in Conns : wire[c] = "down"
       /\ Operations = {} /\ Active = {} /\ teardowns = 0
       /\ \A v \in Servers : locks[v] = NULL

(* "replacement waits for teardown": a server has at most one transport of *)
(* a session, although a broken connection leaves the map before it is     *)
(* closed and several requests dial at the same time.  close waits for the *)
(* calls that have passed beginCall: a transport is never taken away under *)
(* a call, whoever closes it.                                              *)
OneTransport ==
  /\ \A c, d \in Conns :
       wire[c] # "down" /\ wire[d] # "down" /\ key[c] = key[d] => c = d
  /\ \A p \in Active : wire[proc[p].con] # "down"

(* Two calls of one connection break it at the same time: the teardown of  *)
(* the first waits for the second, and the second for the lock that the    *)
(* teardown holds.  So does a call that breaks what DropSession tears down.*)
Wedged == \E p \in Callers : pc[p] = "broken" /\ locks[proc[p].srv] = proc[p].con

(* Nothing else hangs: every Close returns, and an operation returns, or   *)
(* it waits for the answer of a server that was not canceled.              *)
OperationsReturn ==
  \A p \in Callers :
    /\ pc[p] # "idle" ~> (pc[p] \in {"idle", "calling"} \/ Wedged)
    /\ pc[p] \in Closing ~> pc[p] \notin Closing
=============================================================================
