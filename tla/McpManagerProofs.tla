--------------------------- MODULE McpManagerProofs ---------------------------
(* The MCP manager forgets no transport, starts no second one for a        *)
(* session and server, and takes none away under a call: proved for any    *)
(* number of goroutines, sessions, servers and connections.                *)
EXTENDS McpManager, Integers, FiniteSetTheorems, TLAPS

USE ConstantsAssumption DEF ConstantsAssumption

-----------------------------------------------------------------------------
(* The inductive invariant.                                                *)

Open(c) == wire[c] # "down"
Mapped(c) == \E s \in Sessions, v \in Servers : connections[s][v] = c
Keyed(c, s, v) == key[c] # NULL /\ key[c].ses = s /\ key[c].srv = v
Closers == {"closedrain", "closequiet", "collect"}

SharedTypes ==
  /\ closed \in BOOLEAN
  /\ connections \in [Sessions -> [Servers -> Conns \cup {NULL}]]
  /\ locks \in [Servers -> Callers \cup Conns \cup {NULL}]
  /\ teardowns \in Int
  /\ result \in {"none", "clean", "timeout"}
  /\ orphans \in SUBSET Conns
  /\ key \in [Conns -> [ses: Sessions, srv: Servers] \cup {NULL}]
  /\ wire \in [Conns -> {"up", "draining", "down"}]
HealthTypes ==
  /\ failures \in [Servers -> Nat]
  /\ suppressed \in [Servers -> BOOLEAN]
Labels == {"idle"} \cup Connecting \cup Calling \cup Dropping \cup Closing
CallerTypes == pc \in [Callers -> Labels] /\ proc \in [Callers -> Process]
Types == SharedTypes /\ HealthTypes /\ CallerTypes

(* The wait group of the teardowns counts the calls that may still start   *)
(* one, and the locks that a teardown is to give back.                     *)
Counted == {p \in Callers : pc[p] \in {"calling", "finish", "drain", "broken"}}
Torn == {v \in Servers : locks[v] \in Conns}
Balanced == teardowns = Cardinality(Counted) + Cardinality(Torn)

(* Who dials holds the lock of the server, and has the only open           *)
(* connection of its session and server.                                   *)
Connectors == \A p \in Callers :
  /\ pc[p] \in Connecting => proc[p].ses \in Sessions /\ proc[p].srv \in Servers
  /\ pc[p] \in {"dial", "list"} => locks[proc[p].srv] = p
  /\ pc[p] = "list" => /\ proc[p].con \in Conns /\ Open(proc[p].con)
                       /\ Keyed(proc[p].con, proc[p].ses, proc[p].srv)
Unrivalled == \A p \in Callers : pc[p] = "dial" =>
  \A c \in Conns : Open(c) => ~Keyed(c, proc[p].ses, proc[p].srv)

Calls == \A p \in Callers : pc[p] \in Calling =>
  /\ proc[p].con \in Conns /\ Open(proc[p].con)
  /\ key[proc[p].con] # NULL /\ proc[p].srv = key[proc[p].con].srv

Droppers == \A p \in Callers :
  /\ pc[p] \in Dropping =>
       /\ proc[p].ses \in Sessions
       /\ \A c \in proc[p].todo : key[c] # NULL /\ key[c].ses = proc[p].ses
  /\ pc[p] = "droplock" => proc[p].con \in proc[p].todo /\ proc[p].srv = key[proc[p].con].srv

(* What a caller is still to drain or to close has left the map.           *)
Lists == \A p \in Callers :
  /\ pc[p] \notin {"dropdrain", "droplock", "closedrain"} => proc[p].todo = {}
  /\ pc[p] \notin Closers => proc[p].pend = {}
  /\ pc[p] = "closedrain" => proc[p].todo \subseteq proc[p].pend
  /\ \A c \in proc[p].todo : ~Mapped(c)

OneCloser == \A p \in Callers :
  /\ pc[p] \in Closers => closed /\ result = "none" /\ \A q \in Callers : pc[q] \in Closers => p = q
  /\ pc[p] \in {"closedrain", "closequiet"} => orphans = {}

(* Once Close collects, nobody is inside any more.                         *)
Nobody == \A q \in Callers : pc[q] \notin Connecting \cup Calling \cup Dropping
Collects == \A p \in Callers : pc[p] = "collect" =>
  /\ Nobody /\ teardowns = 0
  /\ orphans \subseteq proc[p].pend
  /\ \A c \in proc[p].pend : Open(c) => c \in orphans

(* A connection that is not published yet is known to its caller alone.    *)
Hidden == \A p \in Callers : pc[p] = "list" =>
  /\ ~Mapped(proc[p].con) /\ proc[p].con \notin orphans
  /\ \A v \in Servers : locks[v] # proc[p].con
Private == \A p, q \in Callers : pc[p] = "list" =>
  /\ proc[p].con \notin proc[q].todo /\ proc[p].con \notin proc[q].pend
  /\ q # p => proc[q].con # proc[p].con

(* A session that is resumed asks for no tools.                            *)
Apart == \A p, q \in Callers :
  pc[p] \in Connecting /\ pc[q] \in Dropping => proc[p].ses # proc[q].ses

Locked == \A v \in Servers :
  /\ locks[v] \in Callers => pc[locks[v]] \in {"dial", "list"} /\ proc[locks[v]].srv = v
  /\ locks[v] \in Conns => /\ key[locks[v]] # NULL /\ key[locks[v]].srv = v
                           /\ ~Mapped(locks[v])

Entries == \A s \in Sessions, v \in Servers : connections[s][v] # NULL =>
  ~closed /\ Open(connections[s][v]) /\ Keyed(connections[s][v], s, v)

AfterClose ==
  /\ orphans # {} => closed
  /\ result # "none" => closed /\ \A p \in Callers : pc[p] \notin Closers

Clean == result = "clean" =>
  /\ Nobody /\ teardowns = 0
  /\ \A v \in Servers : locks[v] = NULL
  /\ \A c \in Conns : ~Open(c)

(* Every open connection can be reached by somebody who will close it, and *)
(* it is the only one of its session and server.                           *)
Finds(p, c) == \/ pc[p] = "list" /\ proc[p].con = c
               \/ c \in proc[p].todo \/ c \in proc[p].pend
Reached(c) ==
  \/ Mapped(c) \/ c \in orphans
  \/ \E v \in Servers : locks[v] = c
  \/ \E p \in Callers : Finds(p, c)
Found == \A c \in Conns : Open(c) => key[c] # NULL /\ Reached(c)
Single == \A c, d \in Conns : Open(c) /\ Open(d) /\ key[c] = key[d] => c = d

McpInv ==
  /\ Types /\ Balanced
  /\ Connectors /\ Unrivalled /\ Calls /\ Droppers /\ Lists
  /\ OneCloser /\ Collects /\ Hidden /\ Private /\ Apart
  /\ Locked /\ Entries /\ AfterClose /\ Clean /\ Found /\ Single

-----------------------------------------------------------------------------
(* What a step does, element by element.                                   *)

Becomes(p, l, ses, srv, con, todo, pend) ==
  /\ pc'[p] = l
  /\ proc'[p].ses = ses /\ proc'[p].srv = srv /\ proc'[p].con = con
  /\ proc'[p].todo = todo /\ proc'[p].pend = pend
  /\ \A q \in Callers : q # p => pc'[q] = pc[q] /\ proc'[q] = proc[q]
Stays(p, l) ==
  Becomes(p, l, proc[p].ses, proc[p].srv, proc[p].con, proc[p].todo, proc[p].pend)
Returns(p) == Becomes(p, "idle", NULL, NULL, NULL, {}, {})
SetsLock(v, x) == \A w \in Servers : locks'[w] = IF w = v THEN x ELSE locks[w]
Closes(c) == \A d \in Conns : wire'[d] # "down" <=> Open(d) /\ d # c
Drains == \A d \in Conns : wire'[d] # "down" <=> Open(d)

-----------------------------------------------------------------------------
(* Facts that every step needs.                                            *)

LEMMA Nulls ==
  /\ NULL \notin Conns /\ NULL \notin Callers /\ NULL \notin Sessions /\ NULL \notin Servers
  /\ NULL \notin [ses: Sessions, srv: Servers]
OBVIOUS

LEMMA Kinds ==
  ASSUME McpInv
  PROVE  /\ Callers \cap Conns = {} /\ NULL \notin Conns /\ NULL \notin Callers
         /\ NULL \notin Sessions /\ NULL \notin Servers
         /\ \A p \in Callers :
              /\ proc[p].todo \subseteq Conns /\ proc[p].pend \subseteq Conns
              /\ proc[p].con \in Conns \cup {NULL}
              /\ pc[p] = "list" => proc[p].con \in Conns
         /\ \A v \in Servers : locks[v] \in Callers \cup Conns \cup {NULL}
         /\ \A s \in Sessions, v \in Servers : connections[s][v] \in Conns \cup {NULL}
         /\ orphans \subseteq Conns
         /\ \A c \in Conns : key[c] # NULL => key[c].ses \in Sessions /\ key[c].srv \in Servers
<1>1. \A p \in Callers : pc[p] = "list" => proc[p].con \in Conns
  BY DEF McpInv, Connectors
<1> QED BY <1>1, Nulls DEF McpInv, Types, SharedTypes, CallerTypes, Process

LEMMA FailTypes ==
  ASSUME HealthTypes, NEW v, Fail(v)
  PROVE  HealthTypes'
<1>1. failures' = [failures EXCEPT ![v] = failures[v] + 1]
  BY DEF Fail
<1>2. failures' \in [Servers -> Nat]
  <2>1. CASE v \in Servers
    BY <1>1, <2>1 DEF HealthTypes
  <2>2. CASE v \notin Servers
    BY <1>1, <2>2 DEF HealthTypes
  <2> QED BY <2>1, <2>2
<1>3. suppressed' \in [Servers -> BOOLEAN]
  BY Zenon DEF HealthTypes, Fail
<1> QED BY <1>2, <1>3 DEF HealthTypes

LEMMA SucceedTypes ==
  ASSUME HealthTypes, NEW v, Succeed(v)
  PROVE  HealthTypes'
<1>1. failures' \in [Servers -> Nat]
  BY DEF HealthTypes, Succeed
<1>2. suppressed' \in [Servers -> BOOLEAN]
  BY Zenon DEF HealthTypes, Succeed
<1> QED BY <1>1, <1>2 DEF HealthTypes

LEMMA CallerUpdate ==
  ASSUME CallerTypes, NEW p \in Callers, NEW l \in Labels, NEW x \in Process,
         Goto(p, l), proc' = proc \/ proc' = [proc EXCEPT ![p] = x]
  PROVE  CallerTypes'
BY DEF CallerTypes, Goto

LEMMA IdleProcess == Idle \in Process
BY DEF Idle, Process

LEMMA SameKey ==
  ASSUME Types, NEW c \in Conns, NEW d \in Conns, NEW s, NEW v, Keyed(c, s, v), Keyed(d, s, v)
  PROVE  key[c] = key[d]
BY DEF Types, SharedTypes, Keyed

LEMMA Mover ==
  ASSUME CallerTypes, NEW p \in Callers, NEW l, Goto(p, l), proc' = proc
  PROVE  Stays(p, l)
BY DEF CallerTypes, Goto, Stays, Becomes

LEMMA Updater ==
  ASSUME CallerTypes, NEW p \in Callers, NEW l, NEW x, Goto(p, l), proc' = [proc EXCEPT ![p] = x]
  PROVE  Becomes(p, l, x.ses, x.srv, x.con, x.todo, x.pend)
BY DEF CallerTypes, Goto, Becomes

LEMMA Returner ==
  ASSUME CallerTypes, NEW p \in Callers, Return(p)
  PROVE  Returns(p)
BY DEF CallerTypes, Return, Goto, Returns, Becomes, Idle

LEMMA Shutter ==
  ASSUME Types, NEW c \in Conns, Shut(c)
  PROVE  Closes(c)
<1>1. wire \in [Conns -> {"up", "draining", "down"}]
  BY DEF Types, SharedTypes
<1> QED BY <1>1 DEF Shut, Closes, Open

LEMMA Counts ==
  /\ IsFiniteSet(Counted) /\ Cardinality(Counted) \in Nat
  /\ IsFiniteSet(Torn) /\ Cardinality(Torn) \in Nat
<1>1. Counted \subseteq Callers /\ Torn \subseteq Servers
  BY DEF Counted, Torn
<1>2. IsFiniteSet(Counted) /\ IsFiniteSet(Torn)
  BY <1>1, FS_Subset
<1> QED BY <1>2, FS_CardinalityType

USE DEF Open, Mapped, Keyed, Finds, Reached, Becomes, Stays, Returns, SetsLock, Closes, Drains

-----------------------------------------------------------------------------
(* Listing the tools of one server.                                        *)

LEMMA BeginConnectionStep ==
  ASSUME McpInv, NEW p \in Callers, BeginConnection(p)
  PROVE  McpInv'
<1>0. PICK s \in Sessions, v \in Servers : Exclusive(s, Dropping)
          /\ proc' = [proc EXCEPT ![p] = [Idle EXCEPT !.ses = s, !.srv = v]]
  BY DEF BeginConnection
<1>1. Types'
  <2>1. SharedTypes'
    BY Kinds DEF McpInv, Types, SharedTypes, BeginConnection, manager, conns
  <2>2. HealthTypes'
    BY DEF McpInv, Types, BeginConnection, health, HealthTypes
  <2>3. [Idle EXCEPT !.ses = s, !.srv = v] \in Process
    BY Kinds DEF Process, Idle
  <2>4. CallerTypes'
    BY <1>0, <2>3, CallerUpdate DEF McpInv, Types, BeginConnection, Labels, Connecting, Calling,
       Dropping, Closing
  <2> QED BY <2>1, <2>2, <2>4 DEF Types
<1>2. /\ pc[p] = "idle" /\ ~closed /\ \A q \in Callers : proc[q].ses = s => pc[q] \notin Dropping
      /\ Becomes(p, "lock", s, v, NULL, {}, {})
      /\ UNCHANGED <<closed, connections, result, orphans, failures, suppressed, locks, teardowns,
          key, wire>>
  <2> DEFINE x == [Idle EXCEPT !.ses = s, !.srv = v]
  <2>1. Goto(p, "lock") /\ proc' = [proc EXCEPT ![p] = x]
    BY <1>0, Zenon DEF BeginConnection
  <2>2. x.ses = s /\ x.srv = v /\ x.con = NULL /\ x.todo = {} /\ x.pend = {}
    BY <1>0, Kinds DEF McpInv, Types, CallerTypes, Process, Idle
  <2> HIDE DEF x
  <2>3. Becomes(p, "lock", x.ses, x.srv, x.con, x.todo, x.pend)
    BY <2>1, Updater DEF McpInv, Types
  <2> QED BY <1>0, <2>2, <2>3 DEF BeginConnection, manager, health, conns, Exclusive
<1>3. Balanced'
  <2>1. Counted' = Counted /\ Torn' = Torn
    BY <1>2, Kinds DEF Counted, Torn
  <2> QED BY <1>2, <2>1 DEF McpInv, Balanced
<1>4. Connectors' /\ Unrivalled' /\ Calls'
  BY <1>2, Kinds DEF McpInv, Connectors, Connecting, Unrivalled, Calls, Calling
<1>5. Droppers' /\ Lists' /\ OneCloser'
  BY <1>2, Kinds DEF McpInv, Droppers, Dropping, Lists, Closers, OneCloser
<1>6. Collects' /\ Hidden'
  BY <1>2, Kinds DEF McpInv, Collects, OneCloser, Closers, Nobody, Connecting, Calling,
     Dropping, Hidden, Connectors
<1>7. Private'
  <2>1. ASSUME NEW q \in Callers, pc'[q] = "list"
          PROVE q # p /\ pc[q] = "list" /\ proc'[q] = proc[q]
    BY <1>2, <2>1
  <2> QED BY <1>2, <2>1, Kinds DEF McpInv, Private, Connectors, Connecting
<1>8. Apart' /\ Locked' /\ Entries'
  BY <1>2, Kinds DEF McpInv, Apart, Connecting, Dropping, Locked, Entries
<1>9. AfterClose' /\ Clean' /\ Found'
  BY <1>2, Kinds DEF McpInv, AfterClose, OneCloser, Closers, Clean, Nobody, Connecting, Calling,
     Dropping, Found, Lists
<1>10. Single'
  BY <1>2, Kinds DEF McpInv, Single
<1> QED BY <1>1, <1>3, <1>4, <1>5, <1>6, <1>7, <1>8, <1>9, <1>10 DEF McpInv

LEMMA LockToConnectStep ==
  ASSUME McpInv, NEW p \in Callers, LockToConnect(p)
  PROVE  McpInv'
<1>1. Types'
  <2>1. SharedTypes'
    BY Kinds DEF McpInv, Types, SharedTypes, LockToConnect, manager, conns, Connectors,
       Connecting
  <2>2. HealthTypes'
    BY DEF McpInv, Types, LockToConnect, health, HealthTypes
  <2>3. CallerTypes'
    BY CallerUpdate, IdleProcess DEF McpInv, Types, LockToConnect, Labels, Connecting, Calling,
       Dropping, Closing, Return
  <2> QED BY <2>1, <2>2, <2>3 DEF Types
<1>2. /\ pc[p] = "lock" /\ locks[proc[p].srv] = NULL
      /\ UNCHANGED <<closed, connections, result, orphans, failures, suppressed, teardowns,
          key, wire>>
      /\ \/ Returns(p) /\ UNCHANGED locks
         \/ /\ ~closed /\ connections[proc[p].ses][proc[p].srv] = NULL
            /\ Stays(p, "dial") /\ SetsLock(proc[p].srv, p)
  BY Mover, Returner DEF McpInv, Types, SharedTypes, LockToConnect, Settled, manager, health, conns
<1>3. Balanced'
  <2>1. Counted' = Counted /\ Torn' = Torn
    BY <1>2, Kinds DEF McpInv, Connectors, Connecting, Counted, Torn
  <2> QED BY <1>2, <2>1 DEF McpInv, Balanced
<1>4. Connectors'
  BY <1>2, Kinds DEF McpInv, Connectors, Connecting
<1>5. Unrivalled'
  <2>1. CASE Returns(p)
    BY <1>2, <2>1 DEF McpInv, Unrivalled
  <2>2. CASE ~closed /\ connections[proc[p].ses][proc[p].srv] = NULL /\ Stays(p, "dial")
    <3>1. ASSUME NEW c \in Conns, Open(c), Keyed(c, proc[p].ses, proc[p].srv) PROVE FALSE
      <4>1. ~Mapped(c)
        BY <2>2, <3>1, Kinds DEF McpInv, Entries
      <4>2. c \notin orphans /\ \A v \in Servers : locks[v] # c
        BY <1>2, <2>2, <3>1, Kinds DEF McpInv, AfterClose, Locked
      <4>3. ASSUME NEW q \in Callers, pc[q] = "list" PROVE proc[q].con # c
        BY <1>2, <3>1, <4>3, Kinds DEF McpInv, Connectors
      <4>4. \A q \in Callers : c \notin proc[q].pend
        BY <2>2 DEF McpInv, Lists, OneCloser
      <4>5. \A q \in Callers : c \notin proc[q].todo
        <5>1. ASSUME NEW q \in Callers, c \in proc[q].todo PROVE FALSE
          <6>1. pc[q] \in {"dropdrain", "droplock"}
            BY <2>2, <5>1 DEF McpInv, Lists, OneCloser, Closers
          <6>2. proc[q].ses = proc[p].ses
            BY <3>1, <5>1, <6>1 DEF McpInv, Droppers, Dropping
          <6> QED BY <1>2, <6>1, <6>2 DEF McpInv, Apart, Connecting, Dropping
        <5> QED BY <5>1
      <4> QED BY <3>1, <4>1, <4>2, <4>3, <4>4, <4>5 DEF McpInv, Found
    <3> QED BY <1>2, <2>2, <3>1 DEF McpInv, Unrivalled
  <2> QED BY <1>2, <2>1, <2>2
<1>6. Calls' /\ Droppers' /\ Lists'
  BY <1>2, Kinds DEF McpInv, Calls, Calling, Found, Droppers, Dropping, Lists, Closers
<1>7. OneCloser' /\ Collects' /\ Hidden'
  BY <1>2, Kinds DEF McpInv, OneCloser, Closers, Collects, Nobody, Connecting, Calling,
     Dropping, Hidden, Connectors
<1>8. Private'
  <2>1. ASSUME NEW q \in Callers, pc'[q] = "list"
          PROVE q # p /\ pc[q] = "list" /\ proc'[q] = proc[q]
    BY <1>2, <2>1
  <2> QED BY <1>2, <2>1, Kinds DEF McpInv, Private, Connectors, Connecting
<1>9. Apart' /\ Locked' /\ Entries'
  BY <1>2, Kinds DEF McpInv, Apart, Connecting, Dropping, Locked, Connectors, Entries
<1>10. AfterClose' /\ Clean' /\ Found'
  BY <1>2, Kinds DEF McpInv, AfterClose, OneCloser, Closers, Clean, Nobody, Connecting, Calling,
     Dropping, Found, Lists
<1>11. Single'
  BY <1>2, Kinds DEF McpInv, Single
<1> QED BY <1>1, <1>3, <1>4, <1>5, <1>6, <1>7, <1>8, <1>9, <1>10, <1>11 DEF McpInv

LEMMA DialStep ==
  ASSUME McpInv, NEW p \in Callers, Dial(p)
  PROVE  McpInv'
<1>0. PICK c \in Conns \ Held : /\ wire[c] = "down" /\ wire' = [wire EXCEPT ![c] = "up"]
                              
                                   /\ key' = [key EXCEPT ![c] = [ses |-> proc[p].ses, srv |-> proc[p].srv]]
                               /\ proc' = [proc EXCEPT ![p] = [proc[p] EXCEPT !.con = c]]
  BY DEF Dial
<1>a. ~Mapped(c) /\ c \notin orphans /\ ~Open(c)
  <2>1. ~Mapped(c)
    BY <1>0 DEF McpInv, Entries
  <2> QED BY <1>0, <2>1 DEF Held
<1>b. \A q \in Callers : proc[q].con # c /\ c \notin proc[q].todo /\ c \notin proc[q].pend
  <2>1. ASSUME NEW q \in Callers
          PROVE proc[q].con \in Held /\ proc[q].todo \subseteq Held /\ proc[q].pend \subseteq Held
    BY DEF Held
  <2> QED BY <1>0, <2>1
<1>c. \A v \in Servers : locks[v] # c
  BY <1>0 DEF Held
<1>d. locks[proc[p].srv] = p /\ proc[p].ses \in Sessions /\ proc[p].srv \in Servers
      /\ proc[p].todo = {} /\ proc[p].pend = {} /\ pc[p] = "dial"
  BY DEF McpInv, Dial, Connectors, Connecting, Lists, Closers
<1>1. Types'
  <2>1. SharedTypes'
    BY <1>0, <1>d, Kinds DEF McpInv, Types, SharedTypes, Dial, manager, conns
  <2>2. HealthTypes'
    BY DEF McpInv, Types, Dial, health, HealthTypes
  <2>3. [proc[p] EXCEPT !.con = c] \in Process
    <3>1. proc[p] \in Process
      BY DEF McpInv, Types, CallerTypes
    <3> QED BY <3>1 DEF Process
  <2>4. CallerTypes'
    BY <1>0, <2>3, CallerUpdate DEF McpInv, Types, Dial, Labels, Connecting, Calling, Dropping,
       Closing
  <2> QED BY <2>1, <2>2, <2>4 DEF Types
<1>2. /\ pc[p] = "dial" /\ c \in Conns
      /\ Becomes(p, "list", proc[p].ses, proc[p].srv, c, {}, {})
      /\ \A d \in Conns : wire'[d] # "down" <=> Open(d) \/ d = c
      /\ \A d \in Conns : d # c => key'[d] = key[d]
      /\ key'[c] # NULL /\ key'[c].ses = proc[p].ses /\ key'[c].srv = proc[p].srv
      /\ UNCHANGED <<closed, connections, result, orphans, failures, suppressed, locks, teardowns>>
  <2>1. key'[c] = [ses |-> proc[p].ses, srv |-> proc[p].srv]
            /\ \A d \in Conns : d # c => key'[d] = key[d]
    BY <1>0 DEF McpInv, Types, SharedTypes
  <2>2. key'[c] # NULL
    BY <2>1, <1>d, Nulls
  <2>3. \A d \in Conns : wire'[d] # "down" <=> Open(d) \/ d = c
    BY <1>0 DEF McpInv, Types, SharedTypes
  <2> DEFINE x == [proc[p] EXCEPT !.con = c]
  <2>4. Becomes(p, "list", x.ses, x.srv, x.con, x.todo, x.pend)
    BY <1>0, Updater DEF McpInv, Types, Dial
  <2>5. x.ses = proc[p].ses /\ x.srv = proc[p].srv /\ x.con = c /\ x.todo = {} /\ x.pend = {}
    BY <1>d DEF McpInv, Types, CallerTypes, Process
  <2> HIDE DEF x
  <2> QED BY <1>d, <2>1, <2>2, <2>3, <2>4, <2>5 DEF Dial, manager, health
<1>3. Balanced'
  <2>1. Counted' = Counted /\ Torn' = Torn
    BY <1>2, Kinds DEF Counted, Torn
  <2> QED BY <1>2, <2>1 DEF McpInv, Balanced
<1>4. Connectors'
  BY <1>a, <1>b, <1>c, <1>d, <1>2, Kinds DEF McpInv, Connectors, Connecting
<1>5. Unrivalled'
  <2>1. ASSUME NEW q \in Callers, pc'[q] = "dial"
          PROVE q # p /\ pc[q] = "dial" /\ proc'[q] = proc[q] /\ proc[q].srv # proc[p].srv
    BY <1>2, <1>d, <2>1 DEF McpInv, Connectors
  <2> QED BY <1>2, <2>1 DEF McpInv, Unrivalled
<1>6. Calls'
  BY <1>a, <1>b, <1>c, <1>d, <1>2, Kinds DEF McpInv, Calls, Calling
<1>7. Droppers'
  BY <1>a, <1>b, <1>c, <1>d, <1>2, Kinds DEF McpInv, Droppers, Dropping
<1>8. Lists'
  BY <1>a, <1>b, <1>c, <1>d, <1>2, Kinds DEF McpInv, Lists, Closers
<1>9. OneCloser'
  BY <1>2, Kinds DEF McpInv, OneCloser, Closers
<1>10. Collects'
  BY <1>a, <1>b, <1>c, <1>d, <1>2, Kinds DEF McpInv, Collects, OneCloser, Closers, Nobody,
     Connecting, Calling, Dropping
<1>11. Hidden'
  BY <1>a, <1>b, <1>c, <1>d, <1>2, Kinds DEF McpInv, Hidden
<1>12. Private'
  BY <1>a, <1>b, <1>c, <1>d, <1>2, Kinds DEF McpInv, Private
<1>13. Apart'
  BY <1>2, Kinds DEF McpInv, Apart, Connecting, Dropping
<1>14. Locked'
  BY <1>a, <1>b, <1>c, <1>d, <1>2, Kinds DEF McpInv, Locked
<1>15. Entries'
  BY <1>a, <1>b, <1>c, <1>d, <1>2, Kinds DEF McpInv, Entries
<1>16. AfterClose'
  BY <1>2, Kinds DEF McpInv, AfterClose, OneCloser, Closers
<1>17. Clean'
  BY <1>a, <1>b, <1>c, <1>d, <1>2, Kinds DEF McpInv, Clean, Nobody, Connecting, Calling,
     Dropping
<1>18. Found'
  BY <1>a, <1>b, <1>c, <1>d, <1>2, Kinds DEF McpInv, Found
<1>19. Single'
  <2>1. ASSUME NEW d \in Conns, Open(d), key'[d] = key'[c], d # c PROVE FALSE
    <3>1. Keyed(d, proc[p].ses, proc[p].srv)
      BY <1>2, <2>1
    <3> QED BY <1>2, <2>1, <3>1 DEF McpInv, Unrivalled
  <2>2. SUFFICES ASSUME NEW d \in Conns, NEW e \in Conns,
            wire'[d] # "down", wire'[e] # "down", key'[d] = key'[e]
                 PROVE d = e
    BY DEF Single
  <2> QED BY <1>2, <2>1, <2>2 DEF McpInv, Single
<1> QED BY <1>1, <1>3, <1>4, <1>5, <1>6, <1>7, <1>8, <1>9, <1>10, <1>11, <1>12, <1>13, <1>14,
   <1>15, <1>16, <1>17, <1>18, <1>19 DEF McpInv

LEMMA ConnectFailsStep ==
  ASSUME McpInv, NEW p \in Callers, ConnectFails(p)
  PROVE  McpInv'
<1>a. /\ locks[proc[p].srv] = p /\ proc[p].ses \in Sessions /\ proc[p].srv \in Servers
      /\ pc[p] \in {"dial", "list"} /\ proc[p].todo = {} /\ proc[p].pend = {}
      /\ pc[p] = "list"
          => proc[p].con \in Conns /\ Open(proc[p].con) /\ Keyed(proc[p].con, proc[p].ses, proc[p].srv)
  BY DEF McpInv, ConnectFails, Connectors, Connecting, Lists, Closers
<1>b. \A q \in Callers : pc[q] \in {"dial", "list"} /\ q # p => proc[q].srv # proc[p].srv
  BY <1>a DEF McpInv, Connectors
<1>c. \A q \in Callers : pc[p] = "list" /\ q # p => proc[q].con # proc[p].con
  BY DEF McpInv, Private
<1>1. Types'
  <2>1. SharedTypes'
    BY Kinds DEF McpInv, Types, SharedTypes, ConnectFails, manager, conns, Unlock, Shut
  <2>2. HealthTypes'
    BY FailTypes DEF McpInv, Types, ConnectFails, health, HealthTypes
  <2>3. CallerTypes'
    BY CallerUpdate, IdleProcess DEF McpInv, Types, ConnectFails, Labels, Connecting, Calling,
       Dropping, Closing, Return
  <2> QED BY <2>1, <2>2, <2>3 DEF Types
<1>2. /\ Returns(p) /\ SetsLock(proc[p].srv, NULL)
      /\ (pc[p] = "list" /\ Closes(proc[p].con)) \/ (pc[p] = "dial" /\ UNCHANGED wire)
      /\ UNCHANGED <<closed, connections, result, orphans, teardowns, key>>
  <2>1. Returns(p)
    BY Returner DEF McpInv, Types, ConnectFails
  <2>2. SetsLock(proc[p].srv, NULL)
    BY <1>a DEF McpInv, Types, SharedTypes, ConnectFails, Unlock
  <2>3. (pc[p] = "list" /\ Closes(proc[p].con)) \/ (pc[p] = "dial" /\ UNCHANGED wire)
    <3>1. CASE pc[p] = "list"
      <4>1. Closes(proc[p].con)
        BY <1>a, <3>1, Shutter DEF McpInv, ConnectFails
      <4> QED BY <3>1, <4>1
    <3>2. CASE pc[p] = "dial"
      BY <3>2 DEF ConnectFails
    <3> QED BY <1>a, <3>1, <3>2
  <2> QED BY <2>1, <2>2, <2>3 DEF ConnectFails, manager
<1>3. Balanced'
  <2>1. Counted' = Counted /\ Torn' = Torn
    BY <1>a, <1>2, Kinds DEF Counted, Torn
  <2> QED BY <1>2, <2>1 DEF McpInv, Balanced
<1>4. Connectors'
  <2>1. ASSUME NEW q \in Callers, pc'[q] \in Connecting
          PROVE q # p /\ pc[q] \in Connecting /\ pc'[q] = pc[q] /\ proc'[q] = proc[q]
    BY <1>2, <2>1 DEF Connecting
  <2> QED BY <1>a, <1>b, <1>c, <1>2, <2>1 DEF McpInv, Connectors, Connecting
<1>5. Unrivalled'
  BY <1>2, Kinds DEF McpInv, Unrivalled, Connectors, Connecting
<1>6. Calls'
  BY <1>a, <1>b, <1>c, <1>2 DEF McpInv, Calls, Calling
<1>7. Droppers' /\ Lists' /\ OneCloser'
  BY <1>2, Kinds DEF McpInv, Droppers, Dropping, Lists, Closers, OneCloser
<1>8. Collects'
  BY <1>2, Kinds DEF McpInv, Collects, OneCloser, Closers, Nobody, Connecting, Calling, Dropping
<1>9. Hidden'
  <2>1. ASSUME NEW q \in Callers, pc'[q] = "list"
          PROVE q # p /\ pc[q] = "list" /\ proc'[q] = proc[q]
    BY <1>2, <2>1
  <2> QED BY <1>a, <1>2, <2>1, Kinds DEF McpInv, Hidden, Private
<1>10. Private'
  <2>1. ASSUME NEW q \in Callers, pc'[q] = "list"
          PROVE q # p /\ pc[q] = "list" /\ proc'[q] = proc[q]
    BY <1>2, <2>1
  <2> QED BY <1>2, <2>1, Kinds DEF McpInv, Private, Connectors
<1>11. Apart'
  BY <1>2, Kinds DEF McpInv, Apart, Connecting, Dropping
<1>12. Locked'
  BY <1>a, <1>b, <1>c, <1>2, Kinds DEF McpInv, Locked, Hidden
<1>13. Entries'
  BY <1>a, <1>b, <1>c, <1>2, Kinds DEF McpInv, Entries, Hidden
<1>14. AfterClose'
  BY <1>2, Kinds DEF McpInv, AfterClose, OneCloser, Closers
<1>15. Clean'
  BY <1>a, <1>b, <1>c, <1>2 DEF McpInv, Clean, Nobody, Connecting, Calling, Dropping
<1>16. Found'
  BY <1>a, <1>b, <1>c, <1>2, Kinds DEF McpInv, Found
<1>17. Single'
  BY <1>2, Kinds DEF McpInv, Single
<1> QED BY <1>1, <1>3, <1>4, <1>5, <1>6, <1>7, <1>8, <1>9, <1>10, <1>11, <1>12, <1>13, <1>14,
   <1>15, <1>16, <1>17 DEF McpInv

LEMMA InstallStep ==
  ASSUME McpInv, NEW p \in Callers, Install(p)
  PROVE  McpInv'
<1>a. /\ locks[proc[p].srv] = p /\ proc[p].ses \in Sessions /\ proc[p].srv \in Servers
      /\ pc[p] \in {"dial", "list"} /\ proc[p].todo = {} /\ proc[p].pend = {}
      /\ pc[p] = "list"
          => proc[p].con \in Conns /\ Open(proc[p].con) /\ Keyed(proc[p].con, proc[p].ses, proc[p].srv)
  BY DEF McpInv, Install, Connectors, Connecting, Lists, Closers
<1>b. \A q \in Callers : pc[q] \in {"dial", "list"} /\ q # p => proc[q].srv # proc[p].srv
  BY <1>a DEF McpInv, Connectors
<1>c. \A q \in Callers : pc[p] = "list" /\ q # p => proc[q].con # proc[p].con
  BY DEF McpInv, Private
<1>d. pc[p] = "list"
  BY DEF Install
<1>1. Types'
  <2>1. connections' \in [Sessions -> [Servers -> Conns \cup {NULL}]]
    BY <1>a, <1>d DEF McpInv, Types, SharedTypes, Install, Publish
  <2>2. wire' \in [Conns -> {"up", "draining", "down"}]
    BY DEF McpInv, Types, SharedTypes, Install, Publish, Shut
  <2>3. locks' \in [Servers -> Callers \cup Conns \cup {NULL}]
    BY DEF McpInv, Types, SharedTypes, Install, Unlock
  <2>4. SharedTypes' /\ HealthTypes'
    BY <2>1, <2>2, <2>3 DEF McpInv, Types, SharedTypes, HealthTypes, Install, health
  <2>5. CallerTypes'
    BY CallerUpdate, IdleProcess DEF McpInv, Types, Install, Return, Labels
  <2> QED BY <2>4, <2>5 DEF Types
<1>2. /\ Returns(p) /\ SetsLock(proc[p].srv, NULL)
      /\ \/ closed /\ Closes(proc[p].con) /\ UNCHANGED connections
         \/ /\ ~closed /\ UNCHANGED wire
            /\ \A s \in Sessions, v \in Servers : connections'[s][v] =
                 IF s = proc[p].ses /\ v = proc[p].srv THEN proc[p].con ELSE connections[s][v]
      /\ UNCHANGED <<closed, result, orphans, failures, suppressed, teardowns, key>>
  <2>1. Returns(p)
    BY Returner DEF McpInv, Types, Install
  <2>2. SetsLock(proc[p].srv, NULL)
    BY <1>a DEF McpInv, Types, SharedTypes, Install, Unlock
  <2>3. CASE closed
    <3>1. Closes(proc[p].con) /\ UNCHANGED connections
      BY <1>a, <1>d, <2>3 DEF McpInv, Types, SharedTypes, Install, Publish, Shut
    <3> QED BY <2>1, <2>2, <2>3, <3>1 DEF Install, health
  <2>4. CASE ~closed
    <3>1. UNCHANGED wire /\ connections' = [connections EXCEPT ![proc[p].ses][proc[p].srv] = proc[p].con]
      BY <2>4 DEF Install, Publish
    <3>2. \A s \in Sessions, v \in Servers : connections'[s][v] =
            IF s = proc[p].ses /\ v = proc[p].srv THEN proc[p].con ELSE connections[s][v]
      BY <1>a, <3>1 DEF McpInv, Types, SharedTypes
    <3> QED BY <2>1, <2>2, <2>4, <3>1, <3>2 DEF Install, health
  <2> QED BY <2>3, <2>4
<1>e. \A d \in Conns : Open(d) /\ d # proc[p].con => wire'[d] # "down"
  BY <1>2
<1>3. Balanced'
  <2>1. Counted' = Counted /\ Torn' = Torn
    BY <1>a, <1>2, Kinds DEF Counted, Torn
  <2> QED BY <1>2, <2>1 DEF McpInv, Balanced
<1>4. Connectors'
  <2>1. ASSUME NEW q \in Callers, pc'[q] \in Connecting
          PROVE q # p /\ pc[q] \in Connecting /\ pc'[q] = pc[q] /\ proc'[q] = proc[q]
    BY <1>2, <2>1 DEF Connecting
  <2> QED BY <1>a, <1>b, <1>c, <1>d, <1>e, <1>2, <2>1 DEF McpInv, Connectors, Connecting
<1>5. Unrivalled'
  BY <1>2, Kinds DEF McpInv, Unrivalled, Connectors, Connecting
<1>6. Calls'
  BY <1>a, <1>b, <1>c, <1>d, <1>2 DEF McpInv, Calls, Calling
<1>7. Droppers'
  BY <1>2, Kinds DEF McpInv, Droppers, Dropping
<1>8. Lists'
  BY <1>a, <1>b, <1>c, <1>d, <1>2, Kinds DEF McpInv, Lists, Private, Closers
<1>9. OneCloser' /\ Collects'
  BY <1>2, Kinds DEF McpInv, OneCloser, Closers, Collects, Nobody, Connecting, Calling, Dropping
<1>10. Hidden'
  <2>1. ASSUME NEW q \in Callers, pc'[q] = "list"
          PROVE q # p /\ pc[q] = "list" /\ proc'[q] = proc[q]
    BY <1>2, <2>1
  <2> QED BY <1>a, <1>c, <1>d, <1>2, <2>1, Kinds DEF McpInv, Hidden
<1>11. Private'
  <2>1. ASSUME NEW q \in Callers, pc'[q] = "list"
          PROVE q # p /\ pc[q] = "list" /\ proc'[q] = proc[q]
    BY <1>2, <2>1
  <2> QED BY <1>2, <2>1, Kinds DEF McpInv, Private, Connectors
<1>12. Apart'
  BY <1>2, Kinds DEF McpInv, Apart, Connecting, Dropping
<1>13. Locked'
  BY <1>a, <1>b, <1>c, <1>d, <1>2, Kinds DEF McpInv, Locked, Hidden
<1>14. Entries'
  BY <1>a, <1>b, <1>c, <1>d, <1>2, Kinds DEF McpInv, Entries, Hidden
<1>15. AfterClose'
  BY <1>2, Kinds DEF McpInv, AfterClose, OneCloser, Closers
<1>16. Clean'
  BY <1>a, <1>b, <1>c, <1>d, <1>2 DEF McpInv, Clean, Nobody, Connecting, Calling, Dropping
<1>17. Found'
  <2>1. \A c \in Conns : Mapped(c) => Mapped(c)'
    <3>1. SUFFICES ASSUME NEW s \in Sessions, NEW v \in Servers, connections[s][v] # NULL,
                          ~(connections[s][v] = connections'[s][v])
                   PROVE FALSE
      BY <1>2, Kinds
    <3> DEFINE c == connections[s][v]
    <3>2. s = proc[p].ses /\ v = proc[p].srv /\ c \in Conns /\ Open(c) /\ Keyed(c, s, v)
      BY <1>2, <3>1, Kinds DEF McpInv, Entries
    <3>3. c = proc[p].con
      <4>1. key[c] = key[proc[p].con]
        BY <1>a, <1>d, <3>2, SameKey DEF McpInv
      <4> QED BY <1>a, <1>d, <3>2, <4>1 DEF McpInv, Single
    <3> QED BY <1>d, <3>1, <3>3 DEF McpInv, Hidden
  <2>2. \A c \in Conns : ~closed /\ c = proc[p].con => Mapped(c)'
    BY <1>a, <1>2
  <2>3. \A v \in Servers, c \in Conns : locks[v] = c => locks'[v] = c
    BY <1>a, <1>2, Kinds
  <2>4. \A q \in Callers, c \in Conns : Finds(q, c) => (q = p /\ c = proc[p].con) \/ Finds(q, c)'
    BY <1>a, <1>d, <1>2
  <2>5. SUFFICES ASSUME NEW c \in Conns, wire'[c] # "down"
                 PROVE /\ key[c] # NULL
                       /\ \/ Mapped(c)' \/ c \in orphans \/ \E v \in Servers : locks'[v] = c
                          \/ \E q \in Callers : Finds(q, c)'
    BY <1>2 DEF Found
  <2>6. Open(c) /\ (closed => c # proc[p].con)
    BY <1>2, <2>5
  <2>7. key[c] # NULL /\ Reached(c)
    BY <2>6 DEF McpInv, Found
  <2> HIDE DEF Mapped, Finds
  <2> QED BY <2>1, <2>2, <2>3, <2>4, <2>6, <2>7
<1>18. Single'
  BY <1>2, Kinds DEF McpInv, Single
<1> QED BY <1>1, <1>3, <1>4, <1>5, <1>6, <1>7, <1>8, <1>9, <1>10, <1>11, <1>12, <1>13, <1>14,
   <1>15, <1>16, <1>17, <1>18 DEF McpInv

-----------------------------------------------------------------------------
(* Tool calls.                                                             *)

LEMMA BeginCallStep ==
  ASSUME McpInv, NEW p \in Callers, BeginCall(p)
  PROVE  McpInv'
<1>0. PICK c \in Conns : /\ wire[c] = "up"
                        /\ \A q \in Callers : ~(pc[q] = "list" /\ proc[q].con = c)
                        /\ proc' = [proc EXCEPT ![p] = [Idle EXCEPT !.con = c, !.srv = key[c].srv]]
  BY DEF BeginCall
<1>a. key[c] # NULL /\ key[c].srv \in Servers
  BY <1>0, Kinds DEF McpInv, Found
<1>1. Types'
  <2>1. SharedTypes'
    BY Kinds DEF McpInv, Types, SharedTypes, BeginCall, manager, conns
  <2>2. HealthTypes'
    BY DEF McpInv, Types, BeginCall, health, HealthTypes
  <2>3. [Idle EXCEPT !.con = c, !.srv = key[c].srv] \in Process
    BY <1>a, Kinds DEF Process, Idle
  <2>4. CallerTypes'
    BY <1>0, <2>3, CallerUpdate DEF McpInv, Types, BeginCall, Labels, Connecting, Calling,
       Dropping, Closing
  <2> QED BY <2>1, <2>2, <2>4 DEF Types
<1>2. /\ pc[p] = "idle" /\ ~closed /\ Open(c) /\ key[c] # NULL
      /\ \A q \in Callers : ~(pc[q] = "list" /\ proc[q].con = c)
      /\ Becomes(p, "calling", NULL, key[c].srv, c, {}, {})
      /\ teardowns' = teardowns + 1
      /\ UNCHANGED <<closed, connections, result, orphans, failures, suppressed, locks, key, wire>>
  <2> DEFINE x == [Idle EXCEPT !.con = c, !.srv = key[c].srv]
  <2>1. Goto(p, "calling") /\ proc' = [proc EXCEPT ![p] = x]
    BY <1>0, Zenon DEF BeginCall
  <2>2. x.ses = NULL /\ x.srv = key[c].srv /\ x.con = c /\ x.todo = {} /\ x.pend = {}
    BY <1>0, Kinds DEF McpInv, Types, CallerTypes, Process, Idle
  <2> HIDE DEF x
  <2>3. Becomes(p, "calling", x.ses, x.srv, x.con, x.todo, x.pend)
    BY <2>1, Updater DEF McpInv, Types
  <2> QED BY <1>0, <1>a, <2>2, <2>3 DEF BeginCall, manager, health, conns
<1>3. Balanced'
  <2>1. Counted' = Counted \cup {p} /\ p \notin Counted /\ Torn' = Torn
    BY <1>2 DEF Counted, Torn
  <2>2. Cardinality(Counted') = Cardinality(Counted) + 1
    BY <2>1, Counts, FS_AddElement
  <2> QED BY <1>2, <2>1, <2>2, Counts DEF McpInv, Types, SharedTypes, Balanced
<1>4. Connectors' /\ Unrivalled' /\ Calls'
  BY <1>2, Kinds DEF McpInv, Connectors, Connecting, Unrivalled, Calls, Calling
<1>5. Droppers' /\ Lists' /\ OneCloser'
  BY <1>2, Kinds DEF McpInv, Droppers, Dropping, Lists, Closers, OneCloser
<1>6. Collects' /\ Hidden'
  BY <1>2, Kinds DEF McpInv, Collects, OneCloser, Closers, Nobody, Connecting, Calling,
     Dropping, Hidden, Connectors
<1>7. Private'
  <2>1. ASSUME NEW q \in Callers, pc'[q] = "list"
          PROVE q # p /\ pc[q] = "list" /\ proc'[q] = proc[q]
    BY <1>2, <2>1
  <2> QED BY <1>2, <2>1, Kinds DEF McpInv, Private, Connectors, Connecting
<1>8. Apart' /\ Locked' /\ Entries'
  BY <1>2, Kinds DEF McpInv, Apart, Connecting, Dropping, Locked, Entries
<1>9. AfterClose' /\ Clean' /\ Found'
  BY <1>2, Kinds DEF McpInv, AfterClose, OneCloser, Closers, Clean, Nobody, Connecting, Calling,
     Dropping, Found, Lists
<1>10. Single'
  BY <1>2, Kinds DEF McpInv, Single
<1> QED BY <1>1, <1>3, <1>4, <1>5, <1>6, <1>7, <1>8, <1>9, <1>10 DEF McpInv

LEMMA CallSucceedsStep ==
  ASSUME McpInv, NEW p \in Callers, CallSucceeds(p)
  PROVE  McpInv'
<1>1. Types'
  <2>1. SharedTypes'
    BY Kinds DEF McpInv, Types, SharedTypes, CallSucceeds, manager, conns
  <2>2. HealthTypes'
    BY SucceedTypes DEF McpInv, Types, CallSucceeds, health, HealthTypes
  <2>3. CallerTypes'
    BY CallerUpdate, IdleProcess DEF McpInv, Types, CallSucceeds, Labels, Connecting, Calling,
       Dropping, Closing
  <2> QED BY <2>1, <2>2, <2>3 DEF Types
<1>2. /\ pc[p] = "calling" /\ Stays(p, "finish")
      /\ UNCHANGED <<closed, connections, result, orphans, locks, teardowns, key, wire>>
  BY Mover DEF McpInv, Types, CallSucceeds, manager, health, conns
<1>3. Balanced'
  <2>1. Counted' = Counted /\ Torn' = Torn
    BY <1>2, Kinds DEF Counted, Torn
  <2> QED BY <1>2, <2>1 DEF McpInv, Balanced
<1>4. Connectors' /\ Unrivalled' /\ Calls'
  BY <1>2, Kinds DEF McpInv, Connectors, Connecting, Unrivalled, Calls, Calling
<1>5. Droppers' /\ Lists' /\ OneCloser'
  BY <1>2, Kinds DEF McpInv, Droppers, Dropping, Lists, Closers, OneCloser
<1>6. Collects' /\ Hidden'
  BY <1>2, Kinds DEF McpInv, Collects, OneCloser, Closers, Nobody, Connecting, Calling,
     Dropping, Hidden, Connectors
<1>7. Private'
  <2>1. ASSUME NEW q \in Callers, pc'[q] = "list"
          PROVE q # p /\ pc[q] = "list" /\ proc'[q] = proc[q]
    BY <1>2, <2>1
  <2> QED BY <1>2, <2>1, Kinds DEF McpInv, Private, Connectors, Connecting
<1>8. Apart' /\ Locked' /\ Entries'
  BY <1>2, Kinds DEF McpInv, Apart, Connecting, Dropping, Locked, Entries
<1>9. AfterClose' /\ Clean' /\ Found'
  BY <1>2, Kinds DEF McpInv, AfterClose, OneCloser, Closers, Clean, Nobody, Connecting, Calling,
     Dropping, Found, Lists
<1>10. Single'
  BY <1>2, Kinds DEF McpInv, Single
<1> QED BY <1>1, <1>3, <1>4, <1>5, <1>6, <1>7, <1>8, <1>9, <1>10 DEF McpInv

LEMMA CallFailsStep ==
  ASSUME McpInv, NEW p \in Callers, CallFails(p)
  PROVE  McpInv'
<1>1. Types'
  <2>1. SharedTypes'
    BY Kinds DEF McpInv, Types, SharedTypes, CallFails, manager, conns
  <2>2. HealthTypes'
    BY DEF McpInv, Types, CallFails, health, HealthTypes
  <2>3. CallerTypes'
    BY CallerUpdate, IdleProcess DEF McpInv, Types, CallFails, Labels, Connecting, Calling,
       Dropping, Closing
  <2> QED BY <2>1, <2>2, <2>3 DEF Types
<1>2. /\ pc[p] = "calling" /\ (Stays(p, "finish") \/ Stays(p, "drain"))
      /\ UNCHANGED <<closed, connections, result, orphans, failures, suppressed, locks, teardowns,
          key, wire>>
  BY Mover DEF McpInv, Types, CallFails, manager, health, conns
<1>3. Balanced'
  <2>1. Counted' = Counted /\ Torn' = Torn
    BY <1>2, Kinds DEF Counted, Torn
  <2> QED BY <1>2, <2>1 DEF McpInv, Balanced
<1>4. Connectors' /\ Unrivalled' /\ Calls'
  BY <1>2, Kinds DEF McpInv, Connectors, Connecting, Unrivalled, Calls, Calling
<1>5. Droppers' /\ Lists' /\ OneCloser'
  BY <1>2, Kinds DEF McpInv, Droppers, Dropping, Lists, Closers, OneCloser
<1>6. Collects' /\ Hidden'
  BY <1>2, Kinds DEF McpInv, Collects, OneCloser, Closers, Nobody, Connecting, Calling,
     Dropping, Hidden, Connectors
<1>7. Private'
  <2>1. ASSUME NEW q \in Callers, pc'[q] = "list"
          PROVE q # p /\ pc[q] = "list" /\ proc'[q] = proc[q]
    BY <1>2, <2>1
  <2> QED BY <1>2, <2>1, Kinds DEF McpInv, Private, Connectors, Connecting
<1>8. Apart' /\ Locked' /\ Entries'
  BY <1>2, Kinds DEF McpInv, Apart, Connecting, Dropping, Locked, Entries
<1>9. AfterClose' /\ Clean' /\ Found'
  BY <1>2, Kinds DEF McpInv, AfterClose, OneCloser, Closers, Clean, Nobody, Connecting, Calling,
     Dropping, Found, Lists
<1>10. Single'
  BY <1>2, Kinds DEF McpInv, Single
<1> QED BY <1>1, <1>3, <1>4, <1>5, <1>6, <1>7, <1>8, <1>9, <1>10 DEF McpInv

LEMMA DrainBrokenStep ==
  ASSUME McpInv, NEW p \in Callers, DrainBroken(p)
  PROVE  McpInv'
<1>1. Types'
  <2>1. SharedTypes'
    BY Kinds DEF McpInv, Types, SharedTypes, DrainBroken, manager, conns, Drain
  <2>2. HealthTypes'
    BY DEF McpInv, Types, DrainBroken, health, HealthTypes
  <2>3. CallerTypes'
    BY CallerUpdate, IdleProcess DEF McpInv, Types, DrainBroken, Labels, Connecting, Calling,
       Dropping, Closing
  <2> QED BY <2>1, <2>2, <2>3 DEF Types
<1>2. /\ pc[p] = "drain" /\ Stays(p, "broken") /\ Drains
      /\ UNCHANGED <<closed, connections, result, orphans, failures, suppressed,
          locks, teardowns, key>>
  <2>1. Stays(p, "broken")
    BY Mover DEF McpInv, Types, DrainBroken
  <2>2. Drains
    BY DEF McpInv, Types, SharedTypes, DrainBroken, Drain
  <2> QED BY <2>1, <2>2 DEF DrainBroken, manager, health
<1>3. Balanced'
  <2>1. Counted' = Counted /\ Torn' = Torn
    BY <1>2, Kinds DEF Counted, Torn
  <2> QED BY <1>2, <2>1 DEF McpInv, Balanced
<1>4. Connectors' /\ Unrivalled' /\ Calls'
  BY <1>2, Kinds DEF McpInv, Connectors, Connecting, Unrivalled, Calls, Calling
<1>5. Droppers' /\ Lists' /\ OneCloser'
  BY <1>2, Kinds DEF McpInv, Droppers, Dropping, Lists, Closers, OneCloser
<1>6. Collects' /\ Hidden'
  BY <1>2, Kinds DEF McpInv, Collects, OneCloser, Closers, Nobody, Connecting, Calling,
     Dropping, Hidden, Connectors
<1>7. Private'
  <2>1. ASSUME NEW q \in Callers, pc'[q] = "list"
          PROVE q # p /\ pc[q] = "list" /\ proc'[q] = proc[q]
    BY <1>2, <2>1
  <2> QED BY <1>2, <2>1, Kinds DEF McpInv, Private, Connectors, Connecting
<1>8. Apart' /\ Locked' /\ Entries'
  BY <1>2, Kinds DEF McpInv, Apart, Connecting, Dropping, Locked, Entries
<1>9. AfterClose' /\ Clean' /\ Found'
  BY <1>2, Kinds DEF McpInv, AfterClose, OneCloser, Closers, Clean, Nobody, Connecting, Calling,
     Dropping, Found, Lists
<1>10. Single'
  BY <1>2, Kinds DEF McpInv, Single
<1> QED BY <1>1, <1>3, <1>4, <1>5, <1>6, <1>7, <1>8, <1>9, <1>10 DEF McpInv

LEMMA MarkBrokenStep ==
  ASSUME McpInv, NEW p \in Callers, MarkBroken(p)
  PROVE  McpInv'
<1>a. /\ pc[p] = "broken" /\ locks[proc[p].srv] = NULL
      /\ proc[p].con \in Conns /\ proc[p].srv \in Servers /\ proc[p].srv = key[proc[p].con].srv
      /\ key[proc[p].con] # NULL /\ Open(proc[p].con)
  BY Kinds DEF McpInv, MarkBroken, Calls, Calling
<1>1. Types'
  <2>1. SharedTypes'
    BY <1>a, Kinds DEF McpInv, Types, SharedTypes, MarkBroken, manager, conns, Detach
  <2>2. HealthTypes'
    BY FailTypes DEF McpInv, Types, MarkBroken, health, HealthTypes
  <2>3. CallerTypes'
    BY CallerUpdate, IdleProcess DEF McpInv, Types, MarkBroken, Labels, Connecting, Calling,
       Dropping, Closing
  <2> QED BY <2>1, <2>2, <2>3 DEF Types
<1>2. /\ Stays(p, "transferred") /\ SetsLock(proc[p].srv, proc[p].con)
      /\ \A s \in Sessions, v \in Servers : connections'[s][v] =
           IF connections[s][v] = proc[p].con THEN NULL ELSE connections[s][v]
      /\ UNCHANGED <<closed, result, orphans, teardowns, key, wire>>
  <2>1. Stays(p, "transferred")
    BY Mover DEF McpInv, Types, MarkBroken
  <2>2. SetsLock(proc[p].srv, proc[p].con)
    BY <1>a DEF McpInv, Types, SharedTypes, MarkBroken
  <2> QED BY <2>1, <2>2 DEF MarkBroken, Detach, conns
<1>b. \A q \in Callers : pc[q] = "list" => q # p /\ proc[q].con # proc[p].con
  BY <1>a DEF McpInv, Private
<1>c. \A c \in Conns : Mapped(c)' <=> Mapped(c) /\ c # proc[p].con
  BY <1>a, <1>2, Nulls
<1>3. Balanced'
  <2>1. /\ Counted' = Counted \ {p} /\ p \in Counted
        /\ Torn' = Torn \cup {proc[p].srv} /\ proc[p].srv \notin Torn
    BY <1>a, <1>2, Kinds DEF Counted, Torn
  <2>2. Cardinality(Counted') = Cardinality(Counted) - 1
    BY <2>1, Counts, FS_RemoveElement
  <2>3. Cardinality(Torn') = Cardinality(Torn) + 1
    BY <2>1, Counts, FS_AddElement
  <2> QED BY <1>2, <2>2, <2>3, Counts DEF McpInv, Types, SharedTypes, Balanced
<1>4. Connectors'
  BY <1>a, <1>b, <1>2, Kinds DEF McpInv, Connectors, Connecting
<1>5. Unrivalled'
  BY <1>a, <1>2 DEF McpInv, Unrivalled
<1>6. Calls'
  BY <1>a, <1>2, Kinds DEF McpInv, Calls, Calling
<1>7. Droppers'
  BY <1>a, <1>2 DEF McpInv, Droppers, Dropping
<1>8. Lists'
  BY <1>a, <1>c, <1>2, Kinds DEF McpInv, Lists, Closers
<1>9. OneCloser'
  BY <1>a, <1>2 DEF McpInv, OneCloser, Closers
<1>10. Collects'
  BY <1>a, <1>2 DEF McpInv, Collects, Nobody, Connecting, Calling, Dropping
<1>11. Hidden'
  <2>1. ASSUME NEW q \in Callers, pc'[q] = "list"
          PROVE pc[q] = "list" /\ q # p /\ proc'[q] = proc[q] /\ proc[q].con # proc[p].con
    BY <1>b, <1>2, <2>1
  <2> QED BY <1>a, <1>c, <1>2, <2>1, Kinds DEF McpInv, Hidden
<1>12. Private'
  <2>1. ASSUME NEW q \in Callers, pc'[q] = "list"
          PROVE q # p /\ pc[q] = "list" /\ proc'[q] = proc[q]
    BY <1>2, <2>1
  <2> QED BY <1>b, <1>2, <2>1, Kinds DEF McpInv, Private
<1>13. Apart'
  BY <1>a, <1>2 DEF McpInv, Apart, Connecting, Dropping
<1>14. Locked'
  BY <1>a, <1>c, <1>2, Kinds DEF McpInv, Locked
<1>15. Entries'
  BY <1>a, <1>2, Kinds DEF McpInv, Entries
<1>16. AfterClose'
  BY <1>a, <1>2 DEF McpInv, AfterClose, Closers
<1>17. Clean'
  BY <1>a, <1>2 DEF McpInv, Clean, Nobody, Connecting, Calling, Dropping
<1>18. Found'
  <2>1. SUFFICES ASSUME NEW c \in Conns, Open(c), c # proc[p].con
                 PROVE /\ key[c] # NULL
                       /\ \/ Mapped(c)' \/ c \in orphans \/ \E v \in Servers : locks'[v] = c
                          \/ \E q \in Callers : Finds(q, c)'
    BY <1>a, <1>2 DEF Found
  <2>2. \A v \in Servers : locks[v] = c => locks'[v] = c
    BY <1>a, <1>2, <2>1, Kinds
  <2>3. \A q \in Callers : Finds(q, c) => Finds(q, c)'
    BY <1>a, <1>2
  <2>4. key[c] # NULL /\ Reached(c)
    BY <2>1 DEF McpInv, Found
  <2> HIDE DEF Mapped, Finds
  <2> QED BY <1>c, <2>1, <2>2, <2>3, <2>4
<1>19. Single'
  BY <1>2, Kinds DEF McpInv, Single
<1> QED BY <1>1, <1>3, <1>4, <1>5, <1>6, <1>7, <1>8, <1>9, <1>10, <1>11, <1>12, <1>13, <1>14,
   <1>15, <1>16, <1>17, <1>18, <1>19 DEF McpInv

LEMMA FinishCallStep ==
  ASSUME McpInv, NEW p \in Callers, FinishCall(p)
  PROVE  McpInv'
<1>1. Types'
  <2>1. SharedTypes'
    BY Kinds DEF McpInv, Types, SharedTypes, FinishCall, manager, conns
  <2>2. HealthTypes'
    BY DEF McpInv, Types, FinishCall, health, HealthTypes
  <2>3. CallerTypes'
    BY CallerUpdate, IdleProcess DEF McpInv, Types, FinishCall, Labels, Connecting, Calling,
       Dropping, Closing, Return
  <2> QED BY <2>1, <2>2, <2>3 DEF Types
<1>2. /\ pc[p] \in {"finish", "transferred"} /\ Returns(p)
      /\ teardowns' = IF pc[p] = "finish" THEN teardowns - 1 ELSE teardowns
      /\ UNCHANGED <<closed, connections, result, orphans, failures, suppressed, locks, key, wire>>
  BY Returner DEF McpInv, Types, FinishCall, manager, health, conns
<1>3. Balanced'
  <2>1. Torn' = Torn
    BY <1>2 DEF Torn
  <2>2. CASE pc[p] = "finish"
    <3>1. Counted' = Counted \ {p} /\ p \in Counted
      BY <1>2, <2>2 DEF Counted
    <3>2. Cardinality(Counted') = Cardinality(Counted) - 1
      BY <3>1, Counts, FS_RemoveElement
    <3> QED BY <1>2, <2>1, <2>2, <3>2, Counts DEF McpInv, Types, SharedTypes, Balanced
  <2>3. CASE pc[p] = "transferred"
    <3>1. Counted' = Counted
      BY <1>2, <2>3 DEF Counted
    <3> QED BY <1>2, <2>1, <2>3, <3>1 DEF McpInv, Balanced
  <2> QED BY <1>2, <2>2, <2>3
<1>4. Connectors' /\ Unrivalled' /\ Calls'
  BY <1>2, Kinds DEF McpInv, Connectors, Connecting, Unrivalled, Calls, Calling
<1>5. Droppers' /\ Lists' /\ OneCloser'
  BY <1>2, Kinds DEF McpInv, Droppers, Dropping, Lists, Closers, OneCloser
<1>6. Collects' /\ Hidden'
  BY <1>2, Kinds DEF McpInv, Collects, OneCloser, Closers, Nobody, Connecting, Calling,
     Dropping, Hidden, Connectors
<1>7. Private'
  <2>1. ASSUME NEW q \in Callers, pc'[q] = "list"
          PROVE q # p /\ pc[q] = "list" /\ proc'[q] = proc[q]
    BY <1>2, <2>1
  <2> QED BY <1>2, <2>1, Kinds DEF McpInv, Private, Connectors, Connecting
<1>8. Apart' /\ Locked' /\ Entries'
  BY <1>2, Kinds DEF McpInv, Apart, Connecting, Dropping, Locked, Entries
<1>9. AfterClose' /\ Clean' /\ Found'
  BY <1>2, Kinds DEF McpInv, AfterClose, OneCloser, Closers, Clean, Nobody, Connecting, Calling,
     Dropping, Found, Lists
<1>10. Single'
  BY <1>2, Kinds DEF McpInv, Single
<1> QED BY <1>1, <1>3, <1>4, <1>5, <1>6, <1>7, <1>8, <1>9, <1>10 DEF McpInv

-----------------------------------------------------------------------------
(* The goroutines that close a connection and give back its lock.          *)

LEMMA TeardownClosesStep ==
  ASSUME McpInv, NEW v \in Servers, TeardownCloses(v)
  PROVE  McpInv'
<1>a. /\ locks[v] \in Conns /\ Open(locks[v]) /\ ~Mapped(locks[v])
      /\ \A q \in Callers : pc[q] \in Calling => proc[q].con # locks[v]
  BY DEF McpInv, Locked, TeardownCloses, Closable, ActiveOn, Active
<1>1. Types'
  <2>1. wire' \in [Conns -> {"up", "draining", "down"}]
    BY DEF McpInv, Types, SharedTypes, TeardownCloses, Shut
  <2> QED BY <2>1 DEF McpInv, Types, SharedTypes, HealthTypes, CallerTypes, TeardownCloses, manager, health
<1>2. /\ Closes(locks[v])
      /\ UNCHANGED <<closed, connections, result, orphans, failures, suppressed,
          locks, teardowns, key, pc, proc>>
  BY <1>a, Shutter DEF McpInv, TeardownCloses, manager, health
<1>3. Balanced'
  <2>1. Counted' = Counted /\ Torn' = Torn
    BY <1>2, Kinds DEF Counted, Torn
  <2> QED BY <1>2, <2>1 DEF McpInv, Balanced
<1>4. Connectors'
  BY <1>a, <1>2, Kinds DEF McpInv, Connectors, Hidden, Connecting
<1>5. Unrivalled'
  BY <1>2, Kinds DEF McpInv, Unrivalled, Connectors, Connecting
<1>6. Calls'
  BY <1>a, <1>2 DEF McpInv, Calls
<1>7. Droppers' /\ Lists' /\ OneCloser'
  BY <1>2, Kinds DEF McpInv, Droppers, Dropping, Lists, Closers, OneCloser
<1>8. Collects' /\ Hidden' /\ Private'
  BY <1>2, Kinds DEF McpInv, Collects, OneCloser, Closers, Nobody, Connecting, Calling,
     Dropping, Hidden, Connectors, Private
<1>9. Apart' /\ Locked'
  BY <1>2, Kinds DEF McpInv, Apart, Connecting, Dropping, Locked
<1>10. Entries'
  BY <1>a, <1>2, Kinds DEF McpInv, Entries
<1>11. AfterClose' /\ Clean' /\ Found'
  BY <1>2, Kinds DEF McpInv, AfterClose, OneCloser, Closers, Clean, Nobody, Connecting, Calling,
     Dropping, Found, Lists
<1>12. Single'
  BY <1>2, Kinds DEF McpInv, Single
<1> QED BY <1>1, <1>3, <1>4, <1>5, <1>6, <1>7, <1>8, <1>9, <1>10, <1>11, <1>12 DEF McpInv

LEMMA TeardownEndsStep ==
  ASSUME McpInv, NEW v \in Servers, TeardownEnds(v)
  PROVE  McpInv'
<1>1. Types'
  <2>1. locks' \in [Servers -> Callers \cup Conns \cup {NULL}] /\ teardowns' \in Int
    BY DEF McpInv, Types, SharedTypes, TeardownEnds
  <2> QED BY <2>1 DEF McpInv, Types, SharedTypes, HealthTypes, CallerTypes, TeardownEnds, manager, health, conns
<1>2. /\ locks[v] \in Conns /\ ~Open(locks[v]) /\ SetsLock(v, NULL) /\ teardowns' = teardowns - 1
      /\ UNCHANGED <<closed, connections, result, orphans, failures, suppressed,
          key, wire, pc, proc>>
  BY DEF McpInv, Types, SharedTypes, TeardownEnds, manager, health, conns
<1>a. v \in Torn /\ teardowns # 0
  <2>1. v \in Torn
    BY <1>2 DEF Torn
  <2> QED BY <2>1, Counts, FS_EmptySet DEF McpInv, Balanced
<1>3. Balanced'
  <2>1. Counted' = Counted /\ Torn' = Torn \ {v}
    BY <1>2, Nulls DEF Counted, Torn
  <2>2. Cardinality(Torn') = Cardinality(Torn) - 1
    BY <1>a, <2>1, Counts, FS_RemoveElement
  <2> QED BY <1>2, <2>1, <2>2, Counts DEF McpInv, Types, SharedTypes, Balanced
<1>4. Connectors' /\ Unrivalled' /\ Calls'
  BY <1>2, Kinds DEF McpInv, Connectors, Connecting, Unrivalled, Calls, Calling
<1>5. Droppers' /\ Lists' /\ OneCloser'
  BY <1>2, Kinds DEF McpInv, Droppers, Dropping, Lists, Closers, OneCloser
<1>6. Collects'
  BY <1>a, <1>2 DEF McpInv, Collects
<1>7. Hidden' /\ Private' /\ Apart'
  BY <1>2, Kinds DEF McpInv, Hidden, Connectors, Connecting, Private, Apart, Dropping
<1>8. Locked' /\ Entries' /\ AfterClose'
  BY <1>2, Kinds DEF McpInv, Locked, Entries, AfterClose, OneCloser, Closers
<1>9. Clean'
  BY <1>a, <1>2 DEF McpInv, Clean
<1>10. Found' /\ Single'
  BY <1>2, Kinds DEF McpInv, Found, Lists, Closers, Single
<1> QED BY <1>1, <1>3, <1>4, <1>5, <1>6, <1>7, <1>8, <1>9, <1>10 DEF McpInv

-----------------------------------------------------------------------------
(* DropSession.                                                            *)

LEMMA BeginDropStep ==
  ASSUME McpInv, NEW p \in Callers, BeginDrop(p)
  PROVE  McpInv'
<1>0. PICK s \in Sessions : /\ Exclusive(s, Connecting \cup Dropping)
                           
                                /\ proc' = [proc EXCEPT ![p] = [Idle EXCEPT !.ses = s, !.todo = Owned(s)]]
                            /\ connections' = [connections EXCEPT ![s] = [v \in Servers |-> NULL]]
  BY DEF BeginDrop
<1>a. Owned(s) \subseteq Conns
          /\ \A c \in Owned(s) : Open(c) /\ \E v \in Servers : connections[s][v] = c /\ Keyed(c, s, v)
  BY Kinds DEF McpInv, Entries, Owned
<1>1. Types'
  <2>1. SharedTypes'
    BY <1>0, Kinds DEF McpInv, Types, SharedTypes, BeginDrop, manager, conns
  <2>2. HealthTypes'
    BY DEF McpInv, Types, BeginDrop, health, HealthTypes
  <2>3. [Idle EXCEPT !.ses = s, !.todo = Owned(s)] \in Process
    BY <1>a, Kinds DEF Process, Idle
  <2>4. CallerTypes'
    BY <1>0, <2>3, CallerUpdate DEF McpInv, Types, BeginDrop, Labels, Connecting, Calling,
       Dropping, Closing
  <2> QED BY <2>1, <2>2, <2>4 DEF Types
<1>2. /\ pc[p] = "idle" /\ ~closed
      /\ \A q \in Callers : proc[q].ses = s => pc[q] \notin Connecting \cup Dropping
      /\ Becomes(p, "dropdrain", s, NULL, NULL, Owned(s), {})
      /\ \A t \in Sessions, v \in Servers : connections'[t][v] =
          IF t = s THEN NULL ELSE connections[t][v]
      /\ UNCHANGED <<closed, result, orphans, failures, suppressed, locks, teardowns, key, wire>>
  <2> DEFINE x == [Idle EXCEPT !.ses = s, !.todo = Owned(s)]
  <2>1. Goto(p, "dropdrain") /\ proc' = [proc EXCEPT ![p] = x]
    BY <1>0, Zenon DEF BeginDrop
  <2>2. x.ses = s /\ x.srv = NULL /\ x.con = NULL /\ x.todo = Owned(s) /\ x.pend = {}
    BY <1>0, Kinds DEF McpInv, Types, CallerTypes, Process, Idle
  <2> HIDE DEF x
  <2>3. Becomes(p, "dropdrain", x.ses, x.srv, x.con, x.todo, x.pend)
    BY <2>1, Updater DEF McpInv, Types
  <2> QED BY <1>0, <2>2, <2>3 DEF BeginDrop, manager, health, conns, Exclusive, McpInv, Types,
     SharedTypes
<1>b. \A c \in Conns : Mapped(c)' <=> Mapped(c) /\ c \notin Owned(s)
  <2>1. ASSUME NEW c \in Conns, Mapped(c)' PROVE Mapped(c) /\ c \notin Owned(s)
    <3>1. PICK t \in Sessions, v \in Servers : t # s /\ connections[t][v] = c
      BY <1>2, <2>1, Kinds
    <3>2. Keyed(c, t, v)
      BY <3>1, Kinds DEF McpInv, Entries
    <3> QED BY <1>a, <3>1, <3>2
  <2>2. ASSUME NEW c \in Conns, Mapped(c), c \notin Owned(s) PROVE Mapped(c)'
    <3>1. PICK t \in Sessions, v \in Servers : connections[t][v] = c
      BY <2>2
    <3>2. t # s
      BY <2>2, <3>1, Kinds DEF Owned
    <3> QED BY <1>2, <3>1, <3>2
  <2> QED BY <2>1, <2>2
<1>3. Balanced'
  <2>1. Counted' = Counted /\ Torn' = Torn
    BY <1>2, Kinds DEF Counted, Torn
  <2> QED BY <1>2, <2>1 DEF McpInv, Balanced
<1>4. Connectors' /\ Unrivalled' /\ Calls'
  BY <1>2, Kinds DEF McpInv, Connectors, Connecting, Unrivalled, Calls, Calling
<1>5. Droppers'
  BY <1>a, <1>2 DEF McpInv, Droppers, Dropping
<1>6. Lists'
  BY <1>a, <1>b, <1>2, Kinds DEF McpInv, Lists, Closers
<1>7. OneCloser' /\ Collects'
  BY <1>2, Kinds DEF McpInv, OneCloser, Closers, Collects, Nobody, Connecting, Calling, Dropping
<1>8. Hidden'
  <2>1. ASSUME NEW q \in Callers, pc'[q] = "list"
          PROVE q # p /\ pc[q] = "list" /\ proc'[q] = proc[q]
    BY <1>2, <2>1
  <2> QED BY <1>b, <1>2, <2>1, Kinds DEF McpInv, Hidden
<1>9. Private'
  <2>1. ASSUME NEW q \in Callers, pc'[q] = "list"
          PROVE q # p /\ pc[q] = "list" /\ proc'[q] = proc[q]
    BY <1>2, <2>1
  <2>2. ASSUME NEW q \in Callers, pc[q] = "list"
          PROVE proc[q].con \in Conns /\ proc[q].con \notin Owned(s)
    BY <1>a, <2>2, Kinds DEF McpInv, Hidden
  <2> QED BY <1>2, <2>1, <2>2, Kinds DEF McpInv, Private
<1>10. Apart'
  BY <1>2, Kinds DEF McpInv, Apart, Connecting, Dropping
<1>11. Locked'
  BY <1>b, <1>2, Kinds DEF McpInv, Locked
<1>12. Entries' /\ AfterClose' /\ Clean'
  BY <1>2, Kinds DEF McpInv, Entries, AfterClose, OneCloser, Closers, Clean, Nobody, Connecting,
     Calling, Dropping
<1>13. Found'
  <2>1. \A q \in Callers, c \in Conns : Finds(q, c) => Finds(q, c)'
    BY <1>2, Kinds DEF McpInv, Lists, Closers
  <2>2. \A c \in Owned(s) : Finds(p, c)'
    BY <1>2
  <2>3. SUFFICES ASSUME NEW c \in Conns, Open(c)
                 PROVE /\ key[c] # NULL
                       /\ \/ Mapped(c)' \/ c \in orphans \/ \E v \in Servers : locks[v] = c
                          \/ \E q \in Callers : Finds(q, c)'
    BY <1>2 DEF Found
  <2>4. key[c] # NULL /\ Reached(c)
    BY <2>3 DEF McpInv, Found
  <2> HIDE DEF Mapped, Finds
  <2> QED BY <1>b, <2>1, <2>2, <2>4
<1>14. Single'
  BY <1>2, Kinds DEF McpInv, Single
<1> QED BY <1>1, <1>3, <1>4, <1>5, <1>6, <1>7, <1>8, <1>9, <1>10, <1>11, <1>12, <1>13, <1>14 DEF
   McpInv

LEMMA DropDrainsStep ==
  ASSUME McpInv, NEW p \in Callers, DropDrains(p)
  PROVE  McpInv'
<1>0. PICK c \in proc[p].todo : Drain(c)
          /\ proc' = [proc EXCEPT ![p] = [proc[p] EXCEPT !.con = c, !.srv = key[c].srv]]
  BY DEF DropDrains
<1>a. pc[p] = "dropdrain" /\ c \in Conns /\ key[c] # NULL /\ key[c].srv \in Servers
  BY <1>0, Kinds DEF McpInv, DropDrains, Droppers, Dropping
<1>1. Types'
  <2>1. SharedTypes'
    BY <1>0, Kinds DEF McpInv, Types, SharedTypes, DropDrains, manager, conns, Drain
  <2>2. HealthTypes'
    BY DEF McpInv, Types, DropDrains, health, HealthTypes
  <2>3. [proc[p] EXCEPT !.con = c, !.srv = key[c].srv] \in Process
    <3>1. proc[p] \in Process
      BY DEF McpInv, Types, CallerTypes
    <3> QED BY <1>a, <3>1 DEF Process
  <2>4. CallerTypes'
    BY <1>0, <2>3, CallerUpdate DEF McpInv, Types, DropDrains, Labels, Connecting, Calling,
       Dropping, Closing
  <2> QED BY <2>1, <2>2, <2>4 DEF Types
<1>2. /\ pc[p] = "dropdrain" /\ c \in proc[p].todo /\ Drains
      /\ Becomes(p, "droplock", proc[p].ses, key[c].srv, c, proc[p].todo, proc[p].pend)
      /\ UNCHANGED <<closed, connections, result, orphans, failures, suppressed,
          locks, teardowns, key>>
  <2> DEFINE x == [proc[p] EXCEPT !.con = c, !.srv = key[c].srv]
  <2>1. Goto(p, "droplock") /\ proc' = [proc EXCEPT ![p] = x]
    BY <1>0, Zenon DEF DropDrains
  <2>2. x.ses = proc[p].ses /\ x.srv = key[c].srv /\ x.con = c
            /\ x.todo = proc[p].todo /\ x.pend = proc[p].pend
    BY <1>0, Kinds DEF McpInv, Types, CallerTypes, Process
  <2> HIDE DEF x
  <2>3. Becomes(p, "droplock", x.ses, x.srv, x.con, x.todo, x.pend)
    BY <2>1, Updater DEF McpInv, Types
  <2> QED BY <1>0, <2>2, <2>3 DEF DropDrains, manager, health, conns, Drain, McpInv, Types,
     SharedTypes
<1>3. Balanced'
  <2>1. Counted' = Counted /\ Torn' = Torn
    BY <1>2, Kinds DEF Counted, Torn
  <2> QED BY <1>2, <2>1 DEF McpInv, Balanced
<1>4. Connectors' /\ Unrivalled' /\ Calls'
  BY <1>2, Kinds DEF McpInv, Connectors, Connecting, Unrivalled, Calls, Calling
<1>5. Droppers' /\ Lists' /\ OneCloser'
  BY <1>2, Kinds DEF McpInv, Droppers, Dropping, Lists, Closers, OneCloser
<1>6. Collects' /\ Hidden'
  BY <1>2, Kinds DEF McpInv, Collects, OneCloser, Closers, Nobody, Connecting, Calling,
     Dropping, Hidden, Connectors
<1>7. Private'
  <2>1. ASSUME NEW q \in Callers, pc'[q] = "list"
          PROVE q # p /\ pc[q] = "list" /\ proc'[q] = proc[q]
    BY <1>2, <2>1
  <2> QED BY <1>2, <2>1, Kinds DEF McpInv, Private, Connectors
<1>8. Apart' /\ Locked' /\ Entries'
  BY <1>2, Kinds DEF McpInv, Apart, Connecting, Dropping, Locked, Entries
<1>9. AfterClose' /\ Clean' /\ Found'
  BY <1>2, Kinds DEF McpInv, AfterClose, OneCloser, Closers, Clean, Nobody, Connecting, Calling,
     Dropping, Found, Lists
<1>10. Single'
  BY <1>2, Kinds DEF McpInv, Single
<1> QED BY <1>1, <1>3, <1>4, <1>5, <1>6, <1>7, <1>8, <1>9, <1>10 DEF McpInv

LEMMA DropStartsStep ==
  ASSUME McpInv, NEW p \in Callers, DropStarts(p)
  PROVE  McpInv'
<1>0. proc' = [proc EXCEPT ![p] = [proc[p] EXCEPT !.todo = proc[p].todo \ {proc[p].con}]]
  BY DEF DropStarts
<1>a. /\ pc[p] = "droplock" /\ locks[proc[p].srv] = NULL
      /\ proc[p].con \in proc[p].todo /\ proc[p].con \in Conns /\ ~Mapped(proc[p].con)
      /\ key[proc[p].con] # NULL /\ proc[p].srv = key[proc[p].con].srv /\ proc[p].srv \in Servers
  BY Kinds DEF McpInv, DropStarts, Droppers, Dropping, Lists
<1>b. \A q \in Callers : pc[q] = "list" => q # p /\ proc[q].con # proc[p].con
  BY <1>a DEF McpInv, Private
<1>1. Types'
  <2>1. SharedTypes'
    BY <1>a, Kinds DEF McpInv, Types, SharedTypes, DropStarts, manager, conns
  <2>2. HealthTypes'
    BY DEF McpInv, Types, DropStarts, health, HealthTypes
  <2>3. [proc[p] EXCEPT !.todo = proc[p].todo \ {proc[p].con}] \in Process
    <3>1. proc[p] \in Process
      BY DEF McpInv, Types, CallerTypes
    <3> QED BY <3>1 DEF Process
  <2>4. CallerTypes'
    BY <1>0, <2>3, CallerUpdate DEF McpInv, Types, DropStarts, Labels, Connecting, Calling,
       Dropping, Closing
  <2> QED BY <2>1, <2>2, <2>4 DEF Types
<1>2. /\ SetsLock(proc[p].srv, proc[p].con) /\ teardowns' = teardowns + 1
      /\ Becomes(p, IF proc[p].todo = {proc[p].con} THEN "dropwait" ELSE "dropdrain",
                 proc[p].ses, proc[p].srv, proc[p].con, proc[p].todo \ {proc[p].con}, proc[p].pend)
      /\ UNCHANGED <<closed, connections, result, orphans, failures, suppressed, key, wire>>
  <2> DEFINE l == IF proc[p].todo = {proc[p].con} THEN "dropwait" ELSE "dropdrain"
  <2> DEFINE x == [proc[p] EXCEPT !.todo = proc[p].todo \ {proc[p].con}]
  <2>1. Goto(p, l) /\ proc' = [proc EXCEPT ![p] = x]
    BY <1>0, Zenon DEF DropStarts
  <2>2. x.ses = proc[p].ses /\ x.srv = proc[p].srv /\ x.con = proc[p].con
            /\ x.todo = proc[p].todo \ {proc[p].con} /\ x.pend = proc[p].pend
    BY <1>0, Kinds DEF McpInv, Types, CallerTypes, Process
  <2> HIDE DEF x, l
  <2>3. Becomes(p, l, x.ses, x.srv, x.con, x.todo, x.pend)
    BY <2>1, Updater DEF McpInv, Types
  <2> QED BY <1>0, <1>a, <2>2, <2>3 DEF l, DropStarts, manager, health, conns, McpInv, Types,
     SharedTypes
<1>3. Balanced'
  <2>1. Counted' = Counted /\ Torn' = Torn \cup {proc[p].srv} /\ proc[p].srv \notin Torn
    BY <1>a, <1>2, Kinds DEF Counted, Torn
  <2>2. Cardinality(Torn') = Cardinality(Torn) + 1
    BY <2>1, Counts, FS_AddElement
  <2> QED BY <1>2, <2>1, <2>2, Counts DEF McpInv, Types, SharedTypes, Balanced
<1>4. Connectors'
  BY <1>a, <1>b, <1>2, Kinds DEF McpInv, Connectors, Connecting
<1>5. Unrivalled'
  BY <1>a, <1>2 DEF McpInv, Unrivalled
<1>6. Calls'
  BY <1>a, <1>2 DEF McpInv, Calls, Calling
<1>7. Droppers'
  BY <1>a, <1>2 DEF McpInv, Droppers, Dropping
<1>8. Lists'
  BY <1>a, <1>2, Kinds DEF McpInv, Lists, Closers
<1>9. OneCloser'
  BY <1>a, <1>2 DEF McpInv, OneCloser, Closers
<1>10. Collects'
  BY <1>a, <1>2 DEF McpInv, Collects, Nobody, Connecting, Calling, Dropping
<1>11. Hidden'
  <2>1. ASSUME NEW q \in Callers, pc'[q] = "list"
          PROVE pc[q] = "list" /\ q # p /\ proc'[q] = proc[q] /\ proc[q].con # proc[p].con
    BY <1>b, <1>2, <2>1
  <2> QED BY <1>a, <1>2, <2>1, Kinds DEF McpInv, Hidden
<1>12. Private'
  <2>1. ASSUME NEW q \in Callers, pc'[q] = "list"
          PROVE q # p /\ pc[q] = "list" /\ proc'[q] = proc[q]
    BY <1>2, <2>1
  <2> QED BY <1>b, <1>2, <2>1, Kinds DEF McpInv, Private
<1>13. Apart'
  BY <1>a, <1>2 DEF McpInv, Apart, Connecting, Dropping
<1>14. Locked'
  BY <1>a, <1>2, Kinds DEF McpInv, Locked
<1>15. Entries'
  BY <1>2, Kinds DEF McpInv, Entries
<1>16. AfterClose'
  BY <1>a, <1>2 DEF McpInv, AfterClose, Closers
<1>17. Clean'
  BY <1>a, <1>2 DEF McpInv, Clean, Nobody, Connecting, Calling, Dropping
<1>18. Found'
  <2>1. \A v \in Servers, c \in Conns : locks[v] = c => locks'[v] = c
    BY <1>a, <1>2, Kinds
  <2>2. locks'[proc[p].srv] = proc[p].con
    BY <1>a, <1>2
  <2>3. \A q \in Callers, c \in Conns : c # proc[p].con /\ Finds(q, c) => Finds(q, c)'
    BY <1>a, <1>2
  <2>4. SUFFICES ASSUME NEW c \in Conns, Open(c), c # proc[p].con
                 PROVE /\ key[c] # NULL
                       /\ \/ Mapped(c) \/ c \in orphans \/ \E v \in Servers : locks'[v] = c
                          \/ \E q \in Callers : Finds(q, c)'
    BY <1>a, <1>2, <2>2 DEF Found
  <2>5. key[c] # NULL /\ Reached(c)
    BY <2>4 DEF McpInv, Found
  <2> HIDE DEF Mapped, Finds
  <2> QED BY <2>1, <2>3, <2>4, <2>5
<1>19. Single'
  BY <1>2, Kinds DEF McpInv, Single
<1> QED BY <1>1, <1>3, <1>4, <1>5, <1>6, <1>7, <1>8, <1>9, <1>10, <1>11, <1>12, <1>13, <1>14,
   <1>15, <1>16, <1>17, <1>18, <1>19 DEF McpInv

LEMMA DropReturnsStep ==
  ASSUME McpInv, NEW p \in Callers, DropReturns(p)
  PROVE  McpInv'
<1>1. Types'
  <2>1. SharedTypes'
    BY Kinds DEF McpInv, Types, SharedTypes, DropReturns, manager, conns
  <2>2. HealthTypes'
    BY DEF McpInv, Types, DropReturns, health, HealthTypes
  <2>3. CallerTypes'
    BY CallerUpdate, IdleProcess DEF McpInv, Types, DropReturns, Labels, Connecting, Calling,
       Dropping, Closing, Return
  <2> QED BY <2>1, <2>2, <2>3 DEF Types
<1>2. /\ pc[p] = "dropwait" /\ Returns(p)
      /\ UNCHANGED <<closed, connections, result, orphans, failures, suppressed, locks, teardowns,
          key, wire>>
  BY Returner DEF McpInv, Types, DropReturns, manager, health, conns
<1>3. Balanced'
  <2>1. Counted' = Counted /\ Torn' = Torn
    BY <1>2, Kinds DEF Counted, Torn
  <2> QED BY <1>2, <2>1 DEF McpInv, Balanced
<1>4. Connectors' /\ Unrivalled' /\ Calls'
  BY <1>2, Kinds DEF McpInv, Connectors, Connecting, Unrivalled, Calls, Calling
<1>5. Droppers' /\ Lists' /\ OneCloser'
  BY <1>2, Kinds DEF McpInv, Droppers, Dropping, Lists, Closers, OneCloser
<1>6. Collects' /\ Hidden'
  BY <1>2, Kinds DEF McpInv, Collects, OneCloser, Closers, Nobody, Connecting, Calling,
     Dropping, Hidden, Connectors
<1>7. Private'
  <2>1. ASSUME NEW q \in Callers, pc'[q] = "list"
          PROVE q # p /\ pc[q] = "list" /\ proc'[q] = proc[q]
    BY <1>2, <2>1
  <2> QED BY <1>2, <2>1, Kinds DEF McpInv, Private, Connectors, Connecting
<1>8. Apart' /\ Locked' /\ Entries'
  BY <1>2, Kinds DEF McpInv, Apart, Connecting, Dropping, Locked, Entries
<1>9. AfterClose' /\ Clean' /\ Found'
  BY <1>2, Kinds DEF McpInv, AfterClose, OneCloser, Closers, Clean, Nobody, Connecting, Calling,
     Dropping, Found, Lists
<1>10. Single'
  BY <1>2, Kinds DEF McpInv, Single
<1> QED BY <1>1, <1>3, <1>4, <1>5, <1>6, <1>7, <1>8, <1>9, <1>10 DEF McpInv

-----------------------------------------------------------------------------
(* Close.                                                                  *)

LEMMA BeginCloseStep ==
  ASSUME McpInv, NEW p \in Callers, BeginClose(p)
  PROVE  McpInv'
<1>a. Everything \subseteq Conns /\ \A c \in Conns : c \in Everything <=> Mapped(c)
  BY Kinds DEF Everything, Owned
<1>1. Types'
  <2>1. SharedTypes' /\ HealthTypes'
    <3>1. closed' \in BOOLEAN /\ connections' \in [Sessions -> [Servers -> Conns \cup {NULL}]]
      <4>1. CASE closed
        BY <4>1 DEF McpInv, Types, SharedTypes, BeginClose
      <4>2. CASE ~closed
        <5>1. closed' = TRUE /\ connections' = [s \in Sessions |-> [v \in Servers |-> NULL]]
          BY <4>2, Zenon DEF BeginClose
        <5> QED BY <5>1
      <4> QED BY <4>1, <4>2
    <3> QED BY <3>1 DEF McpInv, Types, SharedTypes, HealthTypes, BeginClose, health, conns
  <2>2. [Idle EXCEPT !.todo = Everything, !.pend = Everything] \in Process
    BY <1>a DEF Idle, Process
  <2>3. CallerTypes'
    BY <2>2, CallerUpdate DEF McpInv, Types, BeginClose, Labels, Connecting, Calling, Dropping, Closing
  <2> QED BY <2>1, <2>3 DEF Types
<1>2. /\ pc[p] = "idle"
      /\ \/ /\ ~closed /\ closed' = TRUE
            /\ \A s \in Sessions, v \in Servers : connections'[s][v] = NULL
            /\ Becomes(p, IF Everything = {} THEN "closequiet" ELSE "closedrain",
                       NULL, NULL, NULL, Everything, Everything)
         \/ closed /\ UNCHANGED <<closed, connections>> /\ Stays(p, "closewait")
      /\ UNCHANGED <<result, orphans, failures, suppressed, locks, teardowns, key, wire>>
  <2>1. CASE ~closed
    <3> DEFINE l == IF Everything = {} THEN "closequiet" ELSE "closedrain"
    <3> DEFINE x == [Idle EXCEPT !.todo = Everything, !.pend = Everything]
    <3>1. Goto(p, l) /\ proc' = [proc EXCEPT ![p] = x] /\ closed' = TRUE
          /\ connections' = [s \in Sessions |-> [v \in Servers |-> NULL]]
      BY <2>1, Zenon DEF BeginClose
    <3>2. x.ses = NULL /\ x.srv = NULL /\ x.con = NULL /\ x.todo = Everything /\ x.pend = Everything
      BY DEF Idle
    <3> HIDE DEF x, l
    <3>3. Becomes(p, l, x.ses, x.srv, x.con, x.todo, x.pend)
      BY <3>1, Updater DEF McpInv, Types
    <3>4. Becomes(p, l, NULL, NULL, NULL, Everything, Everything)
      BY <3>2, <3>3
    <3> QED BY <2>1, <3>1, <3>4 DEF l, BeginClose, health, conns
  <2>2. CASE closed
    <3>1. Stays(p, "closewait")
      BY <2>2, Mover DEF McpInv, Types, BeginClose
    <3> QED BY <2>2, <3>1 DEF BeginClose, health, conns
  <2> QED BY <2>1, <2>2
<1>b. ~closed => \A c \in Conns : ~Mapped(c)'
  BY <1>2, Nulls
<1>c. /\ closed => UNCHANGED connections
      /\ pc[p] = "idle" /\ pc'[p] \in {"closedrain", "closequiet", "closewait"}
      /\ pc'[p] # "closewait" => ~closed
      /\ closed' = TRUE
      /\ proc'[p].todo \subseteq Everything /\ proc'[p].pend \subseteq Everything
      /\ \A q \in Callers : q # p => pc'[q] = pc[q] /\ proc'[q] = proc[q]
      /\ UNCHANGED <<result, orphans, locks, teardowns, key, wire>>
  BY <1>2 DEF McpInv, Lists, Closers
<1>3. Balanced'
  <2>1. Counted' = Counted /\ Torn' = Torn
    BY <1>c DEF Counted, Torn
  <2> QED BY <1>c, <2>1 DEF McpInv, Balanced
<1>4. Connectors'
  BY <1>c, Kinds DEF McpInv, Connectors, Connecting
<1>5. Unrivalled'
  BY <1>c DEF McpInv, Unrivalled
<1>6. Calls'
  BY <1>c DEF McpInv, Calls, Calling
<1>7. Droppers'
  BY <1>c DEF McpInv, Droppers, Dropping
<1>8. Lists'
  <2>1. \A c \in Conns : Mapped(c)' => Mapped(c)
    BY <1>b, <1>c
  <2>2. ASSUME NEW q \in Callers, q # p, NEW c \in proc'[q].todo PROVE ~Mapped(c)'
    BY <1>c, <2>1, <2>2, Kinds DEF McpInv, Lists
  <2>3. ASSUME NEW c \in proc'[p].todo PROVE ~Mapped(c)'
    BY <1>a, <1>b, <1>2, <2>3, Kinds DEF McpInv, Lists
  <2>4. /\ pc'[p] = "closedrain" => proc'[p].todo \subseteq proc'[p].pend
        /\ pc'[p] # "closedrain" => proc'[p].todo = {}
        /\ pc'[p] \notin Closers => proc'[p].pend = {}
    BY <1>2 DEF McpInv, Lists, Closers
  <2> HIDE DEF Mapped
  <2> QED BY <1>c, <2>2, <2>3, <2>4 DEF McpInv, Lists
<1>9. OneCloser'
  BY <1>c DEF McpInv, OneCloser, AfterClose, Closers
<1>10. Collects'
  BY <1>c DEF McpInv, Collects, OneCloser, Closers, Nobody, Connecting, Calling, Dropping
<1>11. Hidden'
  <2>1. ASSUME NEW q \in Callers, pc'[q] = "list"
          PROVE q # p /\ pc[q] = "list" /\ proc'[q] = proc[q] /\ proc[q].con \in Conns
    BY <1>c, <2>1, Kinds
  <2> QED BY <1>b, <1>c, <2>1 DEF McpInv, Hidden
<1>12. Private'
  <2>1. ASSUME NEW q \in Callers, pc'[q] = "list"
       
          PROVE q # p /\ pc[q] = "list" /\ proc'[q] = proc[q] /\ proc[q].con \in Conns /\ proc[q].con \notin Everything
    BY <1>a, <1>c, <2>1, Kinds DEF McpInv, Hidden
  <2>2. proc'[p].con \in {NULL, proc[p].con}
    BY <1>2
  <2> QED BY <1>c, <2>1, <2>2, Kinds DEF McpInv, Private
<1>13. Apart'
  BY <1>c DEF McpInv, Apart, Connecting, Dropping
<1>14. Locked'
  BY <1>b, <1>c, Kinds DEF McpInv, Locked
<1>15. Entries'
  <2>1. ASSUME NEW s \in Sessions, NEW v \in Servers PROVE connections'[s][v] = NULL
    BY <1>2 DEF McpInv, Entries
  <2> QED BY <2>1 DEF Entries
<1>16. AfterClose'
  BY <1>c DEF McpInv, AfterClose, OneCloser, Closers
<1>17. Clean'
  BY <1>c DEF McpInv, Clean, AfterClose, Nobody, Connecting, Calling, Dropping
<1>18. Found'
  <2>1. \A q \in Callers, c \in Conns : Finds(q, c) => Finds(q, c)'
    BY <1>c, <1>2, Kinds DEF McpInv, Lists, Closers
  <2>2. \A c \in Conns : Mapped(c) => Mapped(c)' \/ Finds(p, c)'
    BY <1>a, <1>2
  <2>3. SUFFICES ASSUME NEW c \in Conns, Open(c)
                 PROVE /\ key[c] # NULL
                       /\ \/ Mapped(c)' \/ c \in orphans \/ \E v \in Servers : locks[v] = c
                          \/ \E q \in Callers : Finds(q, c)'
    BY <1>c DEF Found
  <2>4. key[c] # NULL /\ Reached(c)
    BY <2>3 DEF McpInv, Found
  <2> HIDE DEF Mapped, Finds
  <2> QED BY <2>1, <2>2, <2>4
<1>19. Single'
  BY <1>c DEF McpInv, Single
<1> QED BY <1>1, <1>3, <1>4, <1>5, <1>6, <1>7, <1>8, <1>9, <1>10, <1>11, <1>12, <1>13, <1>14,
   <1>15, <1>16, <1>17, <1>18, <1>19 DEF McpInv

LEMMA CloseDrainsStep ==
  ASSUME McpInv, NEW p \in Callers, CloseDrains(p)
  PROVE  McpInv'
<1>0. PICK c \in proc[p].todo : /\ Drain(c)
          /\ proc' = [proc EXCEPT ![p] = [proc[p] EXCEPT !.todo = proc[p].todo \ {c}]]
                               /\ Goto(p, IF proc[p].todo = {c} THEN "closequiet" ELSE "closedrain")
  BY DEF CloseDrains
<1>1. Types'
  <2>1. SharedTypes'
    BY <1>0, Kinds DEF McpInv, Types, SharedTypes, CloseDrains, manager, conns, Drain
  <2>2. HealthTypes'
    BY DEF McpInv, Types, CloseDrains, health, HealthTypes
  <2>3. [proc[p] EXCEPT !.todo = proc[p].todo \ {c}] \in Process
    <3>1. proc[p] \in Process
      BY DEF McpInv, Types, CallerTypes
    <3> QED BY <3>1 DEF Process
  <2>4. CallerTypes'
    BY <1>0, <2>3, CallerUpdate DEF McpInv, Types, CloseDrains, Labels, Connecting, Calling,
       Dropping, Closing
  <2> QED BY <2>1, <2>2, <2>4 DEF Types
<1>2. /\ pc[p] = "closedrain" /\ c \in proc[p].todo /\ Drains
      /\ Becomes(p, IF proc[p].todo = {c} THEN "closequiet" ELSE "closedrain",
                 proc[p].ses, proc[p].srv, proc[p].con, proc[p].todo \ {c}, proc[p].pend)
      /\ UNCHANGED <<closed, connections, result, orphans, failures, suppressed,
          locks, teardowns, key>>
  <2> DEFINE l == IF proc[p].todo = {c} THEN "closequiet" ELSE "closedrain"
  <2> DEFINE x == [proc[p] EXCEPT !.todo = proc[p].todo \ {c}]
  <2>1. Goto(p, l) /\ proc' = [proc EXCEPT ![p] = x]
    BY <1>0, Zenon DEF CloseDrains
  <2>2. x.ses = proc[p].ses /\ x.srv = proc[p].srv /\ x.con = proc[p].con
            /\ x.todo = proc[p].todo \ {c} /\ x.pend = proc[p].pend
    BY <1>0, Kinds DEF McpInv, Types, CallerTypes, Process
  <2> HIDE DEF x, l
  <2>3. Becomes(p, l, x.ses, x.srv, x.con, x.todo, x.pend)
    BY <2>1, Updater DEF McpInv, Types
  <2> QED BY <1>0, <2>2, <2>3 DEF l, CloseDrains, manager, health, conns, Drain, McpInv, Types,
     SharedTypes
<1>a. pc'[p] \in {"closedrain", "closequiet"}
  BY <1>2
<1>3. Balanced'
  <2>1. Counted' = Counted /\ Torn' = Torn
    BY <1>a, <1>2, Kinds DEF Counted, Torn
  <2> QED BY <1>2, <2>1 DEF McpInv, Balanced
<1>4. Connectors' /\ Unrivalled' /\ Calls'
  BY <1>2, Kinds DEF McpInv, Connectors, Connecting, Unrivalled, Calls, Calling
<1>5. Droppers' /\ Lists' /\ OneCloser'
  BY <1>2, Kinds DEF McpInv, Droppers, Dropping, Lists, Closers, OneCloser
<1>6. Collects' /\ Hidden'
  BY <1>2, Kinds DEF McpInv, Collects, OneCloser, Closers, Nobody, Connecting, Calling,
     Dropping, Hidden, Connectors
<1>7. Private'
  <2>1. ASSUME NEW q \in Callers, pc'[q] = "list"
          PROVE q # p /\ pc[q] = "list" /\ proc'[q] = proc[q]
    BY <1>2, <2>1
  <2> QED BY <1>2, <2>1, Kinds DEF McpInv, Private, Connectors, Connecting
<1>8. Apart' /\ Locked' /\ Entries'
  BY <1>2, Kinds DEF McpInv, Apart, Connecting, Dropping, Locked, Entries
<1>9. AfterClose' /\ Clean' /\ Found'
  BY <1>2, Kinds DEF McpInv, AfterClose, OneCloser, Closers, Clean, Nobody, Connecting, Calling,
     Dropping, Found, Lists
<1>10. Single'
  BY <1>2, Kinds DEF McpInv, Single
<1> QED BY <1>1, <1>3, <1>4, <1>5, <1>6, <1>7, <1>8, <1>9, <1>10 DEF McpInv

LEMMA CloseStartsStep ==
  ASSUME McpInv, NEW p \in Callers, CloseStarts(p)
  PROVE  McpInv'
<1>1. Types'
  <2>1. SharedTypes'
    BY Kinds DEF McpInv, Types, SharedTypes, CloseStarts, manager, conns, CallerTypes, Process
  <2>2. HealthTypes'
    BY DEF McpInv, Types, CloseStarts, health, HealthTypes
  <2>3. CallerTypes'
    BY CallerUpdate, IdleProcess DEF McpInv, Types, CloseStarts, Labels, Connecting, Calling,
       Dropping, Closing
  <2> QED BY <2>1, <2>2, <2>3 DEF Types
<1>2. /\ pc[p] = "closequiet" /\ Stays(p, "collect") /\ orphans' = orphans \cup proc[p].pend
      /\ Nobody /\ teardowns = 0
      /\ UNCHANGED <<closed, connections, result, failures, suppressed, locks, teardowns,
          key, wire>>
  <2>1. Stays(p, "collect")
    BY Mover DEF McpInv, Types, CloseStarts
  <2>2. Nobody /\ teardowns = 0
    BY DEF CloseStarts, Quiet, Operations, Active, Nobody
  <2> QED BY <2>1, <2>2 DEF CloseStarts, health, conns
<1>3. Balanced'
  <2>1. Counted' = Counted /\ Torn' = Torn
    BY <1>2, Kinds DEF Counted, Torn
  <2> QED BY <1>2, <2>1 DEF McpInv, Balanced
<1>4. Connectors' /\ Unrivalled' /\ Calls'
  BY <1>2, Kinds DEF McpInv, Connectors, Connecting, Unrivalled, Calls, Calling
<1>5. Droppers' /\ Lists' /\ OneCloser'
  BY <1>2, Kinds DEF McpInv, Droppers, Dropping, Lists, Closers, OneCloser
<1>6. Collects'
  BY <1>2, Kinds DEF McpInv, Collects, OneCloser, Closers, Nobody, Connecting, Calling, Dropping
<1>7. Hidden'
  BY <1>2 DEF Hidden, Nobody, Connecting
<1>8. Private'
  BY <1>2 DEF Private, Nobody, Connecting
<1>9. Apart' /\ Locked' /\ Entries'
  BY <1>2, Kinds DEF McpInv, Apart, Connecting, Dropping, Locked, Entries
<1>10. AfterClose' /\ Clean'
  BY <1>2, Kinds DEF McpInv, AfterClose, OneCloser, Closers, Clean, Nobody, Connecting, Calling,
     Dropping
<1>11. Found'
  BY <1>2, Kinds DEF McpInv, Found
<1>12. Single'
  BY <1>2, Kinds DEF McpInv, Single
<1> QED BY <1>1, <1>3, <1>4, <1>5, <1>6, <1>7, <1>8, <1>9, <1>10, <1>11, <1>12 DEF McpInv

LEMMA CloseOrphanStep ==
  ASSUME McpInv, NEW c \in Conns, CloseOrphan(c)
  PROVE  McpInv'
<1>a. c \in orphans /\ \A q \in Callers : pc[q] \in Calling => proc[q].con # c
  BY DEF CloseOrphan, Closable, ActiveOn, Active
<1>b. \A q \in Callers : pc[q] = "list" => proc[q].con # c
  BY <1>a DEF McpInv, Hidden
<1>1. Types'
  <2>1. wire' \in [Conns -> {"up", "draining", "down"}]
    BY DEF McpInv, Types, SharedTypes, CloseOrphan, Shut
  <2> QED BY <2>1 DEF McpInv, Types, SharedTypes, HealthTypes, CallerTypes, CloseOrphan, health
<1>2. /\ Closes(c) /\ orphans' = orphans \ {c}
      /\ UNCHANGED <<closed, connections, result, failures, suppressed,
          locks, teardowns, key, pc, proc>>
  BY Shutter DEF McpInv, CloseOrphan, health
<1>3. Balanced'
  <2>1. Counted' = Counted /\ Torn' = Torn
    BY <1>2, Kinds DEF Counted, Torn
  <2> QED BY <1>2, <2>1 DEF McpInv, Balanced
<1>4. Connectors'
  BY <1>b, <1>2, Kinds DEF McpInv, Connectors, Connecting
<1>5. Unrivalled'
  BY <1>2, Kinds DEF McpInv, Unrivalled, Connectors, Connecting
<1>6. Calls'
  BY <1>a, <1>2 DEF McpInv, Calls, Calling
<1>7. Droppers' /\ Lists' /\ OneCloser'
  BY <1>2, Kinds DEF McpInv, Droppers, Dropping, Lists, Closers, OneCloser
<1>8. Collects' /\ Hidden' /\ Private'
  BY <1>2, Kinds DEF McpInv, Collects, OneCloser, Closers, Nobody, Connecting, Calling,
     Dropping, Hidden, Connectors, Private
<1>9. Apart' /\ Locked'
  BY <1>2, Kinds DEF McpInv, Apart, Connecting, Dropping, Locked
<1>10. Entries'
  BY <1>a, <1>2, Kinds DEF McpInv, Entries, AfterClose
<1>11. AfterClose' /\ Clean' /\ Found'
  BY <1>2, Kinds DEF McpInv, AfterClose, OneCloser, Closers, Clean, Nobody, Connecting, Calling,
     Dropping, Found, Lists
<1>12. Single'
  BY <1>2, Kinds DEF McpInv, Single
<1> QED BY <1>1, <1>3, <1>4, <1>5, <1>6, <1>7, <1>8, <1>9, <1>10, <1>11, <1>12 DEF McpInv

LEMMA CloseCollectsStep ==
  ASSUME McpInv, NEW p \in Callers, CloseCollects(p)
  PROVE  McpInv'
<1>1. Types'
  <2>1. SharedTypes'
    BY Kinds DEF McpInv, Types, SharedTypes, CloseCollects, manager, conns
  <2>2. HealthTypes'
    BY DEF McpInv, Types, CloseCollects, health, HealthTypes
  <2>3. CallerTypes'
    BY CallerUpdate, IdleProcess DEF McpInv, Types, CloseCollects, Labels, Connecting, Calling,
       Dropping, Closing, Return
  <2> QED BY <2>1, <2>2, <2>3 DEF Types
<1>2. /\ pc[p] = "collect" /\ proc[p].pend \cap orphans = {} /\ Returns(p) /\ result' = "clean"
      /\ UNCHANGED <<closed, connections, orphans, failures, suppressed, locks, teardowns,
          key, wire>>
  BY Returner DEF McpInv, Types, CloseCollects, health, conns
<1>a. Nobody /\ teardowns = 0 /\ orphans = {} /\ \A c \in proc[p].pend : ~Open(c)
  BY <1>2 DEF McpInv, Collects
<1>b. closed /\ \A q \in Callers : pc[q] \in Closers => q = p
  BY <1>2 DEF McpInv, OneCloser, Closers
<1>3. Balanced'
  <2>1. Counted' = Counted /\ Torn' = Torn
    BY <1>2, Kinds DEF Counted, Torn
  <2> QED BY <1>2, <2>1 DEF McpInv, Balanced
<1>4. Connectors' /\ Unrivalled' /\ Calls'
  BY <1>2, Kinds DEF McpInv, Connectors, Connecting, Unrivalled, Calls, Calling
<1>5. Droppers' /\ Lists'
  BY <1>2, Kinds DEF McpInv, Droppers, Dropping, Lists, Closers
<1>6. OneCloser'
  BY <1>b, <1>2 DEF McpInv, OneCloser, Closers
<1>7. Collects'
  BY <1>b, <1>2 DEF McpInv, Collects, Closers
<1>8. Hidden'
  BY <1>2, Kinds DEF McpInv, Hidden, Connectors, Connecting
<1>9. Private'
  <2>1. ASSUME NEW q \in Callers, pc'[q] = "list"
          PROVE q # p /\ pc[q] = "list" /\ proc'[q] = proc[q]
    BY <1>2, <2>1
  <2> QED BY <1>2, <2>1, Kinds DEF McpInv, Private, Connectors, Connecting
<1>10. Apart' /\ Locked' /\ Entries'
  BY <1>2, Kinds DEF McpInv, Apart, Connecting, Dropping, Locked, Entries
<1>11. AfterClose'
  BY <1>a, <1>b, <1>2 DEF McpInv, AfterClose, Closers
<1>12. Clean'
  <2>1. Torn = {}
    BY <1>a, Counts, FS_EmptySet DEF McpInv, Balanced
  <2>2. \A v \in Servers : locks[v] = NULL
    BY <1>a, <2>1, Kinds DEF McpInv, Locked, Nobody, Torn, Connecting
  <2>3. ASSUME NEW c \in Conns, Open(c) PROVE FALSE
    <3>1. ~Mapped(c)
      BY <1>b, <2>3, Kinds DEF McpInv, Entries
    <3>2. \A q \in Callers : ~Finds(q, c)
      BY <1>a, <1>b, <2>3 DEF McpInv, Lists, Closers, Nobody, Connecting, Dropping
    <3> QED BY <1>a, <2>2, <2>3, <3>1, <3>2, Kinds DEF McpInv, Found
  <2>4. Nobody'
    BY <1>a, <1>2 DEF Nobody, Connecting, Calling, Dropping
  <2> QED BY <1>a, <1>2, <2>2, <2>3, <2>4 DEF Clean
<1>13. Found'
  <2>1. \A q \in Callers, c \in Conns : Open(c) /\ Finds(q, c) => Finds(q, c)'
    BY <1>a, <1>2 DEF McpInv, Lists
  <2> QED BY <1>2, <2>1 DEF McpInv, Found
<1>14. Single'
  BY <1>2, Kinds DEF McpInv, Single
<1> QED BY <1>1, <1>3, <1>4, <1>5, <1>6, <1>7, <1>8, <1>9, <1>10, <1>11, <1>12, <1>13, <1>14 DEF
   McpInv

LEMMA CloseTimesOutStep ==
  ASSUME McpInv, NEW p \in Callers, CloseTimesOut(p)
  PROVE  McpInv'
<1>1. Types'
  <2>1. SharedTypes'
    BY Kinds DEF McpInv, Types, SharedTypes, CloseTimesOut, manager, conns, CallerTypes, Process
  <2>2. HealthTypes'
    BY DEF McpInv, Types, CloseTimesOut, health, HealthTypes
  <2>3. CallerTypes'
    BY CallerUpdate, IdleProcess DEF McpInv, Types, CloseTimesOut, Labels, Connecting, Calling,
       Dropping, Closing, Return
  <2> QED BY <2>1, <2>2, <2>3 DEF Types
<1>2. /\ pc[p] \in {"closequiet", "collect"} /\ Returns(p) /\ result' = "timeout"
      /\ orphans' = IF pc[p] = "closequiet" THEN orphans \cup proc[p].pend ELSE orphans
      /\ UNCHANGED <<closed, connections, failures, suppressed, locks, teardowns, key, wire>>
  BY Returner DEF McpInv, Types, CloseTimesOut, health, conns
<1>b. closed /\ \A q \in Callers : pc[q] \in Closers => q = p
  BY <1>2 DEF McpInv, OneCloser, Closers
<1>3. Balanced'
  <2>1. Counted' = Counted /\ Torn' = Torn
    BY <1>2, Kinds DEF Counted, Torn
  <2> QED BY <1>2, <2>1 DEF McpInv, Balanced
<1>4. Connectors' /\ Unrivalled' /\ Calls'
  BY <1>2, Kinds DEF McpInv, Connectors, Connecting, Unrivalled, Calls, Calling
<1>5. Droppers' /\ Lists'
  BY <1>2, Kinds DEF McpInv, Droppers, Dropping, Lists, Closers
<1>6. OneCloser'
  BY <1>b, <1>2 DEF McpInv, OneCloser, Closers
<1>7. Collects'
  BY <1>b, <1>2 DEF McpInv, Collects, Closers
<1>8. Hidden'
  <2>1. ASSUME NEW q \in Callers, pc'[q] = "list"
          PROVE q # p /\ pc[q] = "list" /\ proc'[q] = proc[q]
    BY <1>2, <2>1
  <2> QED BY <1>2, <2>1, Kinds DEF McpInv, Hidden, Private
<1>9. Private'
  <2>1. ASSUME NEW q \in Callers, pc'[q] = "list"
          PROVE q # p /\ pc[q] = "list" /\ proc'[q] = proc[q]
    BY <1>2, <2>1
  <2> QED BY <1>2, <2>1, Kinds DEF McpInv, Private, Connectors, Connecting
<1>10. Apart' /\ Locked' /\ Entries'
  BY <1>2, Kinds DEF McpInv, Apart, Connecting, Dropping, Locked, Entries
<1>11. AfterClose'
  BY <1>b, <1>2 DEF McpInv, AfterClose, Closers
<1>12. Clean'
  BY <1>2 DEF Clean
<1>13. Found'
  <2>1. \A q \in Callers, c \in Conns : Open(c) /\ Finds(q, c) => Finds(q, c)' \/ c \in orphans'
    BY <1>2 DEF McpInv, Lists, Collects
  <2> HIDE DEF Finds
  <2> QED BY <1>2, <2>1, Kinds DEF McpInv, Found
<1>14. Single'
  BY <1>2, Kinds DEF McpInv, Single
<1> QED BY <1>1, <1>3, <1>4, <1>5, <1>6, <1>7, <1>8, <1>9, <1>10, <1>11, <1>12, <1>13, <1>14 DEF
   McpInv

LEMMA CloseAgainStep ==
  ASSUME McpInv, NEW p \in Callers, CloseAgain(p)
  PROVE  McpInv'
<1>1. Types'
  <2>1. SharedTypes'
    BY Kinds DEF McpInv, Types, SharedTypes, CloseAgain, manager, conns
  <2>2. HealthTypes'
    BY DEF McpInv, Types, CloseAgain, health, HealthTypes
  <2>3. CallerTypes'
    BY CallerUpdate, IdleProcess DEF McpInv, Types, CloseAgain, Labels, Connecting, Calling,
       Dropping, Closing, Return
  <2> QED BY <2>1, <2>2, <2>3 DEF Types
<1>2. /\ pc[p] = "closewait" /\ Returns(p) /\ result # "none"
      /\ UNCHANGED <<closed, connections, result, orphans, failures, suppressed, locks, teardowns,
          key, wire>>
  BY Returner DEF McpInv, Types, CloseAgain, manager, health, conns
<1>3. Balanced'
  <2>1. Counted' = Counted /\ Torn' = Torn
    BY <1>2, Kinds DEF Counted, Torn
  <2> QED BY <1>2, <2>1 DEF McpInv, Balanced
<1>4. Connectors' /\ Unrivalled' /\ Calls'
  BY <1>2, Kinds DEF McpInv, Connectors, Connecting, Unrivalled, Calls, Calling
<1>5. Droppers' /\ Lists' /\ OneCloser'
  BY <1>2, Kinds DEF McpInv, Droppers, Dropping, Lists, Closers, OneCloser
<1>6. Collects' /\ Hidden'
  BY <1>2, Kinds DEF McpInv, Collects, OneCloser, Closers, Nobody, Connecting, Calling,
     Dropping, Hidden, Connectors
<1>7. Private'
  <2>1. ASSUME NEW q \in Callers, pc'[q] = "list"
          PROVE q # p /\ pc[q] = "list" /\ proc'[q] = proc[q]
    BY <1>2, <2>1
  <2> QED BY <1>2, <2>1, Kinds DEF McpInv, Private, Connectors, Connecting
<1>8. Apart' /\ Locked' /\ Entries'
  BY <1>2, Kinds DEF McpInv, Apart, Connecting, Dropping, Locked, Entries
<1>9. AfterClose' /\ Clean' /\ Found'
  BY <1>2, Kinds DEF McpInv, AfterClose, OneCloser, Closers, Clean, Nobody, Connecting, Calling,
     Dropping, Found, Lists
<1>10. Single'
  BY <1>2, Kinds DEF McpInv, Single
<1> QED BY <1>1, <1>3, <1>4, <1>5, <1>6, <1>7, <1>8, <1>9, <1>10 DEF McpInv

-----------------------------------------------------------------------------
(* Every step together.                                                    *)

LEMMA McpInit == Init => McpInv
<1> SUFFICES ASSUME Init PROVE McpInv
  OBVIOUS
<1>1. /\ closed = FALSE /\ teardowns = 0 /\ result = "none" /\ orphans = {}
      /\ \A s \in Sessions, v \in Servers : connections[s][v] = NULL
      /\ \A v \in Servers : locks[v] = NULL
      /\ \A c \in Conns : ~Open(c)
      /\ \A p \in Callers : pc[p] = "idle" /\ proc[p] = Idle /\ proc[p].todo = {} /\ proc[p].pend = {}
  BY DEF Init, Idle
<1>2. Types
  <2>1. locks \in [Servers -> Callers \cup Conns \cup {NULL}]
    BY DEF Init
  <2>2. connections \in [Sessions -> [Servers -> Conns \cup {NULL}]]
    BY DEF Init
  <2>3. key \in [Conns -> [ses: Sessions, srv: Servers] \cup {NULL}]
    BY DEF Init
  <2>4. wire \in [Conns -> {"up", "draining", "down"}]
    BY DEF Init
  <2>5. closed \in BOOLEAN
    BY Zenon DEF Init
  <2>8. teardowns \in Int /\ result \in {"none", "clean", "timeout"} /\ orphans \in SUBSET Conns
    BY DEF Init
  <2>6. HealthTypes
    BY DEF Init, HealthTypes
  <2>7. CallerTypes
    BY IdleProcess DEF Init, CallerTypes, Labels
  <2> QED BY <2>1, <2>2, <2>3, <2>4, <2>5, <2>6, <2>7, <2>8 DEF Types, SharedTypes
<1>3. Balanced
  <2>1. Counted = {} /\ Torn = {}
    BY <1>1 DEF Counted, Torn
  <2> QED BY <1>1, <2>1, FS_EmptySet DEF Balanced
<1>4. Connectors /\ Unrivalled /\ Calls /\ Droppers /\ Lists
  BY <1>1 DEF Connectors, Unrivalled, Calls, Droppers, Lists, Connecting, Calling, Dropping
<1>5. OneCloser /\ Collects /\ Hidden /\ Private /\ Apart
  BY <1>1 DEF OneCloser, Collects, Hidden, Private, Apart, Closers, Connecting
<1>6. Locked /\ Entries /\ AfterClose /\ Clean /\ Found /\ Single
  BY <1>1, Nulls DEF Locked, Entries, AfterClose, Clean, Found, Single
<1> QED BY <1>2, <1>3, <1>4, <1>5, <1>6 DEF McpInv

LEMMA McpStuttering ==
  ASSUME McpInv, UNCHANGED vars
  PROVE  McpInv'
<1>1. UNCHANGED <<closed, connections, result, orphans, failures, suppressed, locks, teardowns,
          key, wire, pc, proc>>
  BY DEF vars, manager, health, conns
<1>2. Types' /\ Balanced'
  BY <1>1 DEF McpInv, Types, SharedTypes, HealthTypes, CallerTypes, Balanced, Counted, Torn
<1>3. Connectors' /\ Unrivalled' /\ Calls' /\ Droppers' /\ Lists'
  BY <1>1 DEF McpInv, Connectors, Unrivalled, Calls, Droppers, Lists
<1>4. OneCloser' /\ Collects' /\ Hidden' /\ Private' /\ Apart'
  BY <1>1 DEF McpInv, OneCloser, Collects, Hidden, Private, Apart, Nobody
<1>5. Locked' /\ Entries' /\ AfterClose' /\ Clean' /\ Found' /\ Single'
  BY <1>1 DEF McpInv, Locked, Entries, AfterClose, Clean, Found, Single, Nobody
<1> QED BY <1>2, <1>3, <1>4, <1>5 DEF McpInv

LEMMA McpStep == McpInv /\ [Next]_vars => McpInv'
<1> SUFFICES ASSUME McpInv, [Next]_vars PROVE McpInv'
  OBVIOUS
<1>1. CASE UNCHANGED vars
  BY <1>1, McpStuttering
<1>2. CASE Teardown
  BY <1>2, TeardownClosesStep, TeardownEndsStep, CloseOrphanStep DEF Teardown
<1>3. ASSUME NEW p \in Callers, Begins(p) PROVE McpInv'
  BY <1>3, BeginConnectionStep, BeginCallStep, BeginDropStep, BeginCloseStep DEF Begins
<1>4. ASSUME NEW p \in Callers, Acquires(p) PROVE McpInv'
  BY <1>4, LockToConnectStep, MarkBrokenStep, DropStartsStep DEF Acquires
<1>5. ASSUME NEW p \in Callers, Answers(p) PROVE McpInv'
  BY <1>5, CallSucceedsStep, CallFailsStep DEF Answers
<1>6. ASSUME NEW p \in Callers, Proceeds(p) PROVE McpInv'
  BY <1>6, DialStep, ConnectFailsStep, InstallStep, DrainBrokenStep, FinishCallStep, DropDrainsStep,
     DropReturnsStep, CloseDrainsStep, CloseStartsStep, CloseCollectsStep, CloseTimesOutStep,
     CloseAgainStep DEF Proceeds
<1> QED BY <1>1, <1>2, <1>3, <1>4, <1>5, <1>6 DEF Next

LEMMA McpAlways == Spec => []McpInv
<1> QED BY McpInit, McpStep, PTL DEF Spec

-----------------------------------------------------------------------------
(* What follows.                                                           *)

LEMMA TypeFollows == McpInv => TypeOK
<1> SUFFICES ASSUME McpInv PROVE TypeOK
  OBVIOUS
<1>1. teardowns \in Nat
  BY Counts DEF McpInv, Balanced
<1> QED BY <1>1 DEF McpInv, Types, SharedTypes, HealthTypes, CallerTypes, Labels, TypeOK

LEMMA NothingLeaksFollows == McpInv => NothingLeaks
<1> SUFFICES ASSUME McpInv PROVE NothingLeaks
  OBVIOUS
<1>1. \A c \in Conns : Mapped(c) => c \in Everything
  BY Nulls DEF Everything, Owned
<1>2. ASSUME NEW c \in Conns, wire[c] # "down"
      PROVE \/ c \in Everything \cup orphans
            \/ \E v \in Servers : locks[v] = c
            \/ \E p \in Callers : \/ pc[p] = "list" /\ proc[p].con = c
                                  \/ c \in proc[p].todo \cup proc[p].pend
  <2> HIDE DEF Mapped
  <2> QED BY <1>1, <1>2 DEF McpInv, Found
<1>3. ASSUME result = "clean"
      PROVE /\ \A c \in Conns : wire[c] = "down"
            /\ Operations = {} /\ Active = {} /\ teardowns = 0
            /\ \A v \in Servers : locks[v] = NULL
  BY <1>3 DEF McpInv, Clean, Nobody, Operations, Active
<1> QED BY <1>2, <1>3 DEF NothingLeaks

LEMMA OneTransportFollows == McpInv => OneTransport
BY DEF McpInv, Single, Calls, OneTransport, Active

-----------------------------------------------------------------------------
(* The theorems.                                                           *)

(* Every variable of the manager keeps its type; above all, the wait group *)
(* of the teardowns, which panics below zero, never gets there.            *)
THEOREM TypeCorrect == Spec => []TypeOK
<1> QED BY TypeFollows, McpAlways, PTL

(* Whoever detaches a connection (markBroken, DropSession, Close), and     *)
(* whenever Close gives up, some goroutine is left that will close every   *)
(* transport that is up; and a Close that reports no error has left        *)
(* nothing behind.                                                         *)
THEOREM NeverLeaks == Spec => []NothingLeaks
<1> QED BY NothingLeaksFollows, McpAlways, PTL

(* Manager.connection dials a replacement only once the old connection is  *)
(* closed, and connection.close waits for the calls under way.             *)
THEOREM OneTransportEach == Spec => []OneTransport
<1> QED BY OneTransportFollows, McpAlways, PTL
=============================================================================
