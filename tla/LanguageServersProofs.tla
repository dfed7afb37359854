------------------------ MODULE LanguageServersProofs ------------------------
(* A server and root have one process at a time, no process is forgotten,  *)
(* and no stale report decorates the result of a call: proved for any      *)
(* number of calls, documents, servers and clients, and for every failure  *)
(* limit.                                                                  *)
EXTENDS LanguageServers, FiniteSetTheorems, TLAPS

USE ConstantsAssumption DEF ConstantsAssumption

-----------------------------------------------------------------------------
(* The inductive invariant.                                                *)

(* What the manager knows of a server: it has a client, or is starting one,*)
(* or is disabled, and never two of these.                                 *)
Slot(k) ==
  /\ client[k] # NULL => ~closed /\ ~starting[k] /\ ~disabled[k] /\ key[client[k]] = k
  /\ starting[k] => ~disabled[k]
  /\ ~disabled[k] => failures[k] < FailureLimit
Slots == \A k \in Keys : Slot(k)

(* The order in which Close goes.                                          *)
Shut ==
  /\ closing # "none" => closed
  /\ closed => ~enforcing
  /\ ~enforcing => \A p \in Callers : receipts[p] = {}
  /\ closing = "clean" => \A k \in Keys : ~starting[k]

(* One call starts the server.                                             *)
Starts(p) == Starter(p) =>
  /\ starting[proc[p].key]
  /\ \A q \in Callers : Starter(q) /\ proc[q].key = proc[p].key => p = q
StartsAlone == \A p \in Callers : Starts(p)

(* What a call has in its hands, by where it is.                           *)
Busy == {"waiting", "launch", "initialize", "complete", "finish", "sync", "notify", "undo"}
WithClient == {"initialize", "finish", "sync", "notify", "undo"}
Hand(p) ==
  /\ pc[p] # "idle" => proc[p].doc \in Docs
  /\ pc[p] = "idle" => proc[p].todo = {}
  /\ pc[p] \in Busy => proc[p].key \in Keys \ proc[p].todo
  /\ pc[p] \notin Busy => proc[p].con = NULL /\ proc[p].key = NULL
  /\ pc[p] \in WithClient => proc[p].con # NULL
  /\ pc[p] \in {"waiting", "launch"} => proc[p].con = NULL
  /\ proc[p].con # NULL => key[proc[p].con] = proc[p].key
  /\ pc[p] = "complete" => proc[p].code \in {"ok", "unavailable", "failed", "ended"}
                           /\ (proc[p].code = "ok" <=> proc[p].con # NULL)
  /\ pc[p] = "finish" => proc[p].code \in {"ok", "ended", "closed"}
  /\ pc[p] = "finish" /\ proc[p].code = "ok" =>
       closed \/ client[proc[p].key] = proc[p].con \/ wire[proc[p].con] # "up"
  /\ pc[p] = "finish" /\ proc[p].code = "closed" => closed
  /\ receipts[p] # {} => pc[p] = "returned"
Hands == \A p \in Callers : Hand(p)

(* A running process has somebody who will stop it.                        *)
Kept == \A c \in Clients : wire[c] = "up" =>
  \/ closed
  \/ \E k \in Keys : client[k] = c
  \/ \E p \in Callers : proc[p].con = c /\ pc[p] \in {"initialize", "complete", "finish"}

(* Every touch raises a version of a client once at most, so the versions  *)
(* leave room for the calls that may still do so.                          *)
Pending(k) == {p \in Callers : k \in proc[p].todo \/ (pc[p] \in Busy /\ proc[p].key = k)}
Room == \A k \in Keys :
  /\ IsFiniteSet(Pending(k)) /\ Cardinality(Pending(k)) <= touches
  /\ \A c \in Clients, d \in Docs : key[c] = k => version[c][d] + Cardinality(Pending(k)) <= touches

(* A document while the caller holds documentMu.                           *)
Locked(p) ==
  LET c == proc[p].con
      d == proc[p].doc IN
  pc[p] \in {"notify", "undo"} =>
    /\ docLock[c] = p
    /\ version[c][d] <= proc[p].previous
    /\ pc[p] = "notify" =>
         /\ proc[p].version = version[c][d] + 1
         /\ proc[p].version <= diag[c][d].document
         /\ diag[c][d].generation > proc[p].generation /\ ~diag[c][d].versioned => proc[p].version = 1
LocksHold == \A p \in Callers : Locked(p)

(* What a client remembers of a document, and what its server was told.    *)
Report(c, d) ==
  /\ version[c][d] <= diag[c][d].document
  /\ diag[c][d].generation > 0 => diag[c][d].values \in Texts
  /\ diag[c][d].versioned => [version |-> diag[c][d].publication, text |-> diag[c][d].values] \in received[c][d]
Reports == \A c \in Clients, d \in Docs : Report(c, d)
Told(c, d) == c \notin mistold =>
  /\ \A m, n \in received[c][d] : m.version = n.version => m.text = n.text
  /\ wire[c] = "up" => \A m \in received[c][d] : m.version <= version[c][d]
ToldOnce == \A c \in Clients, d \in Docs : Told(c, d)

(* A ticket stands for the text of its call.                               *)
Sound(p, w) ==
  /\ [version |-> w.version, text |-> proc[p].text] \in received[w.con][w.doc]
  /\ 1 <= w.version /\ w.version <= version[w.con][w.doc]
  /\ diag[w.con][w.doc].generation > w.generation /\ ~diag[w.con][w.doc].versioned => w.version = 1
TicketsSound == \A p \in Callers : \A w \in Tickets(p) : Sound(p, w)

LspInv == /\ TypeOK /\ Slots /\ Shut /\ StartsAlone /\ Hands /\ Kept /\ Room
          /\ LocksHold /\ Reports /\ ToldOnce /\ TicketsSound /\ DecorationsFit

(* The parts of the invariant besides the types.                           *)
Rest == /\ Slots /\ Shut /\ StartsAlone /\ Hands /\ Kept /\ Room
        /\ LocksHold /\ Reports /\ ToldOnce /\ TicketsSound /\ DecorationsFit

-----------------------------------------------------------------------------
(* The records of the calls.                                               *)

Codes == {"", "ok", "unavailable", "failed", "ended", "closed"}

(* A call whose server, client, code, versions and generation change.      *)
LEMMA ClearedType ==
  ASSUME NEW x \in Call, NEW k \in Keys \cup {NULL}, NEW c \in Clients \cup {NULL}, NEW code \in Codes,
         NEW v \in Texts, NEW prev \in Texts, NEW gen \in Nat
  PROVE  [x EXCEPT !.key = k, !.con = c, !.code = code,
                   !.version = v, !.previous = prev, !.generation = gen] \in Call
BY DEF Call, Codes

(* Cleared leaves the document, the servers to do and the tickets.         *)
LEMMA ClearedCall ==
  ASSUME TypeOK, NEW p \in Callers
  PROVE  /\ Cleared(p) \in Call
         /\ Cleared(p).doc = proc[p].doc /\ Cleared(p).text = proc[p].text
         /\ Cleared(p).todo = proc[p].todo
         /\ Cleared(p).key = NULL /\ Cleared(p).con = NULL
         /\ Cleared(p).waits = proc[p].waits /\ Cleared(p).found = proc[p].found
         /\ Cleared(p).decor = proc[p].decor
<1>1. 0 \in Texts
  BY DEF Texts
<1>2. "" \in Codes
  BY DEF Codes
<1>3. proc[p] \in Call
  BY DEF TypeOK
<1>4. Cleared(p) \in Call
  BY <1>1, <1>2, <1>3, ClearedType DEF Cleared
<1>5. /\ Cleared(p).doc = proc[p].doc /\ Cleared(p).text = proc[p].text
      /\ Cleared(p).todo = proc[p].todo
      /\ Cleared(p).waits = proc[p].waits /\ Cleared(p).found = proc[p].found
      /\ Cleared(p).decor = proc[p].decor
  BY <1>3 DEF Call, Cleared
<1>6. Cleared(p).key = NULL /\ Cleared(p).con = NULL
  BY <1>3 DEF Call, Cleared
<1> QED
  BY <1>4, <1>5, <1>6

(* The same, when the call has no servers left to do, or again the one it  *)
(* has waited for.                                                         *)
LEMMA ClearedTodo ==
  ASSUME TypeOK, NEW p \in Callers, NEW todo \in SUBSET Keys
  PROVE  LET x == [Cleared(p) EXCEPT !.todo = todo] IN
         /\ x \in Call
         /\ x.doc = proc[p].doc /\ x.text = proc[p].text
         /\ x.todo = todo /\ x.key = NULL /\ x.con = NULL
         /\ x.waits = proc[p].waits /\ x.found = proc[p].found /\ x.decor = proc[p].decor
<1> DEFINE r == Cleared(p)
<1>1. /\ r \in Call /\ r.doc = proc[p].doc /\ r.text = proc[p].text
      /\ r.key = NULL /\ r.con = NULL
      /\ r.waits = proc[p].waits /\ r.found = proc[p].found /\ r.decor = proc[p].decor
  BY ClearedCall
<1> HIDE DEF r
<1>2. [r EXCEPT !.todo = todo] \in Call
  BY <1>1 DEF Call
<1>3. LET x == [r EXCEPT !.todo = todo] IN
      /\ x.doc = r.doc /\ x.text = r.text /\ x.todo = todo /\ x.key = r.key /\ x.con = r.con
      /\ x.waits = r.waits /\ x.found = r.found /\ x.decor = r.decor
  BY <1>1 DEF Call
<1> QED
  BY <1>1, <1>2, <1>3 DEF r

(* An idle call.                                                           *)
LEMMA IdleCall ==
  /\ Idle \in Call
  /\ Idle.doc = NULL /\ Idle.todo = {} /\ Idle.key = NULL /\ Idle.con = NULL
  /\ Idle.waits = {} /\ Idle.found = {} /\ Idle.decor = {}
<1> DEFINE none == ""
           zero == 0
<1>1. none \in Codes /\ zero \in Texts /\ zero \in Nat
  BY DEF Codes, Texts
<1>2. Idle = [doc |-> NULL, text |-> zero, todo |-> {}, key |-> NULL, con |-> NULL, code |-> none,
              version |-> zero, previous |-> zero, generation |-> zero, waits |-> {}, found |-> {},
              decor |-> {}]
  BY DEF Idle
<1> HIDE DEF none, zero
<1>3. Idle \in Call
  BY <1>1, <1>2 DEF Call, Codes
<1> QED
  BY <1>2, <1>3

(* One call moves on and the others stay where they are.                   *)
Moved(p, label) ==
  /\ pc' = [pc EXCEPT ![p] = label]
  /\ proc' \in [Callers -> Call]
  /\ \A q \in Callers \ {p} : proc'[q] = proc[q]
SameTouch(p) == proc'[p].doc = proc[p].doc /\ proc'[p].text = proc[p].text
SameTickets(p) == /\ proc'[p].waits = proc[p].waits /\ proc'[p].found = proc[p].found
                  /\ proc'[p].decor = proc[p].decor

(* A call replaced as a whole.                                             *)
LEMMA Replaced ==
  ASSUME TypeOK, NEW p \in Callers, NEW x \in Call, proc' = [proc EXCEPT ![p] = x]
  PROVE  /\ proc' \in [Callers -> Call]
         /\ \A q \in Callers \ {p} : proc'[q] = proc[q]
         /\ proc'[p] = x
BY DEF TypeOK

(* A move changes one label.                                               *)
LEMMA MovedLabels ==
  ASSUME TypeOK, NEW p \in Callers, NEW label \in Labels, Moved(p, label)
  PROVE  /\ pc' \in [Callers -> Labels] /\ pc'[p] = label
         /\ \A q \in Callers \ {p} : pc'[q] = pc[q] /\ proc'[q] = proc[q]
BY DEF TypeOK, Moved

-----------------------------------------------------------------------------
(* What disturbs no part of the invariant.                                 *)

LEMMA TicketTypes ==
  ASSUME TypeOK, NEW q \in Callers, NEW w \in Tickets(q)
  PROVE  /\ w \in TicketSet
         /\ w.key \in Keys /\ w.con \in Clients /\ w.doc \in Docs
         /\ w.version \in Texts /\ w.generation \in Nat
<1>1. proc[q] \in Call /\ receipts[q] \in SUBSET TicketSet
  BY DEF TypeOK
<1>2. w \in TicketSet
  BY <1>1 DEF Call, Tickets
<1> QED
  BY <1>2 DEF TicketSet

LEMMA SlotsFrame ==
  ASSUME TypeOK, Slots, UNCHANGED <<closed, starting, client, failures, disabled>>,
         \A k \in Keys : client[k] # NULL => key'[client[k]] = key[client[k]]
  PROVE  Slots'
BY DEF Slots, Slot

LEMMA ShutFrame ==
  ASSUME Shut, UNCHANGED <<closed, closing, enforcing>>,
         closed => \A k \in Keys : starting'[k] => starting[k],
         \A q \in Callers : ~enforcing => receipts'[q] = {}
  PROVE  Shut'
BY DEF Shut

LEMMA StartsFrame ==
  ASSUME StartsAlone, UNCHANGED starting,
         \A q \in Callers : Starter(q)' => Starter(q) /\ proc'[q].key = proc[q].key
  PROVE  StartsAlone'
BY DEF StartsAlone, Starts

LEMMA HandFrame ==
  ASSUME NEW q \in Callers, Hand(q), pc'[q] = pc[q], proc'[q] = proc[q],
         proc[q].con # NULL => key'[proc[q].con] = key[proc[q].con],
         receipts'[q] = receipts[q] \/ receipts'[q] = {},
         closed => closed',
         pc[q] = "finish" /\ proc[q].code = "ok" =>
           closed' \/ client'[proc[q].key] = proc[q].con \/ wire'[proc[q].con] # "up"
  PROVE  Hand(q)'
BY DEF Hand

Three == {"initialize", "complete", "finish"}
LEMMA KeptFrame ==
  ASSUME Kept, closed => closed',
         \A c \in Clients : wire'[c] = "up" => wire[c] = "up",
         \A k \in Keys : client[k] \in Clients /\ wire'[client[k]] = "up" =>
           closed' \/ client'[k] = client[k],
         \A q \in Callers : pc[q] \in Three /\ proc[q].con \in Clients /\ wire'[proc[q].con] = "up" =>
           \/ closed'
           \/ \E k \in Keys : client'[k] = proc[q].con
           \/ proc'[q].con = proc[q].con /\ pc'[q] \in Three
  PROVE  Kept'
BY DEF Kept, Three

LEMMA RoomFrame ==
  ASSUME TypeOK, Room, UNCHANGED <<touches, version, key>>,
         \A q \in Callers, k \in Keys :
           k \in proc'[q].todo \/ (pc'[q] \in Busy /\ proc'[q].key = k) =>
             k \in proc[q].todo \/ (pc[q] \in Busy /\ proc[q].key = k)
  PROVE  Room'
<1> SUFFICES ASSUME NEW k \in Keys
             PROVE  /\ IsFiniteSet(Pending(k)') /\ Cardinality(Pending(k)') <= touches
                    /\ \A c \in Clients, d \in Docs :
                         key[c] = k => version[c][d] + Cardinality(Pending(k)') <= touches
  BY DEF Room
<1>1. Pending(k)' \subseteq Pending(k)
  BY DEF Pending
<1>2. IsFiniteSet(Pending(k))
  BY DEF Room
<1>3. /\ IsFiniteSet(Pending(k)') /\ Cardinality(Pending(k)') \in Nat
      /\ Cardinality(Pending(k)) \in Nat /\ Cardinality(Pending(k)') <= Cardinality(Pending(k))
  BY <1>1, <1>2, FS_Subset, FS_CardinalityType
<1>4. /\ Cardinality(Pending(k)) <= touches
      /\ \A c \in Clients, d \in Docs : key[c] = k => version[c][d] + Cardinality(Pending(k)) <= touches
  BY DEF Room
<1>5. touches \in Nat /\ \A c \in Clients, d \in Docs : version[c][d] \in Nat
  BY DEF TypeOK, Texts
<1> QED
  BY <1>3, <1>4, <1>5

LEMMA LocksFrame ==
  ASSUME LocksHold, UNCHANGED <<version, docLock, diag>>,
         \A q \in Callers : pc'[q] \in {"notify", "undo"} => pc'[q] = pc[q] /\ proc'[q] = proc[q]
  PROVE  LocksHold'
BY DEF LocksHold, Locked

LEMMA ReportsFrame ==
  ASSUME Reports, UNCHANGED <<version, diag, received>>
  PROVE  Reports'
BY DEF Reports, Report

LEMMA ToldFrame ==
  ASSUME ToldOnce, UNCHANGED <<version, received, mistold>>,
         \A c \in Clients : wire'[c] = "up" => wire[c] = "up"
  PROVE  ToldOnce'
BY DEF ToldOnce, Told

LEMMA TicketsFrame ==
  ASSUME TicketsSound, UNCHANGED <<version, diag, received>>,
         \A q \in Callers : /\ Tickets(q)' \subseteq Tickets(q)
                            /\ proc'[q].text = proc[q].text \/ Tickets(q)' = {}
  PROVE  TicketsSound'
<1> SUFFICES ASSUME NEW q \in Callers, NEW w \in Tickets(q)'
             PROVE  Sound(q, w)'
  BY DEF TicketsSound
<1>1. Sound(q, w) /\ proc'[q].text = proc[q].text
  BY DEF TicketsSound
<1> QED
  BY <1>1 DEF Sound

Fits(x, text) == IF x.versioned THEN x.text = text \/ x.misled ELSE x.version = 1
LEMMA DecorationsFrame ==
  ASSUME DecorationsFit,
         \A q \in Callers : \/ proc'[q].decor = proc[q].decor /\ proc'[q].text = proc[q].text
                            \/ \A x \in proc'[q].decor : Fits(x, proc'[q].text)
  PROVE  DecorationsFit'
BY DEF DecorationsFit, Fits

-----------------------------------------------------------------------------
(* Calls that move on and leave the manager and the documents alone.       *)

LEMMA CallTypes ==
  ASSUME TypeOK, NEW p \in Callers, NEW label \in Labels, Moved(p, label),
         UNCHANGED <<closed, client, failures, disabled, closing, key, document, server, enforcing, touches>>,
         starting' \in [Keys -> BOOLEAN],
         wire' \in [Clients -> {"up", "cut", "down"}], watched' \in SUBSET Clients,
         receipts' \in [Callers -> SUBSET TicketSet]
  PROVE  TypeOK'
<1>1. pc' \in [Callers -> Labels] /\ proc' \in [Callers -> Call]
  BY MovedLabels DEF Moved
<1> QED
  BY <1>1 DEF TypeOK, document, server

LEMMA CalmCall ==
  ASSUME TypeOK, Rest, NEW p \in Callers, NEW label \in Labels, Moved(p, label),
         UNCHANGED <<closed, client, key, document, received, mistold, enforcing, touches>>,
         \A c \in Clients : wire'[c] = "up" => wire[c] = "up",
         \A q \in Callers \ {p} : receipts'[q] = receipts[q],
         Hand(p)',
         pc[p] \in Three /\ proc[p].con \in Clients /\ wire'[proc[p].con] = "up" =>
           \/ closed
           \/ client[proc[p].key] = proc[p].con /\ proc[p].key \in Keys
           \/ proc'[p].con = proc[p].con /\ label \in Three,
         label \notin {"notify", "undo"},
         \A k \in Keys : k \in proc'[p].todo \/ (label \in Busy /\ proc'[p].key = k) =>
                         k \in proc[p].todo \/ (pc[p] \in Busy /\ proc[p].key = k),
         \/ SameTouch(p) /\ Tickets(p)' \subseteq Tickets(p)
         \/ Tickets(p)' = {},
         \/ SameTouch(p) /\ proc'[p].decor = proc[p].decor
         \/ \A x \in proc'[p].decor : Fits(x, proc'[p].text)
  PROVE  /\ Hands' /\ Kept' /\ Room' /\ LocksHold'
         /\ Reports' /\ ToldOnce' /\ TicketsSound' /\ DecorationsFit'
<1>1. /\ pc'[p] = label
      /\ \A q \in Callers \ {p} : pc'[q] = pc[q] /\ proc'[q] = proc[q]
  BY MovedLabels
<1>2. Hands'
  <2>1. ASSUME NEW q \in Callers, q # p
        PROVE  Hand(q)'
    <3>1. Hand(q) /\ pc'[q] = pc[q] /\ proc'[q] = proc[q] /\ receipts'[q] = receipts[q]
      BY <1>1, <2>1 DEF Rest, Hands
    <3>2. proc[q].con \in Clients \cup {NULL}
      BY DEF TypeOK, Call
    <3>3. pc[q] = "finish" /\ proc[q].code = "ok" =>
            closed \/ client[proc[q].key] = proc[q].con \/ wire[proc[q].con] # "up"
      BY <3>1 DEF Hand
    <3>4. pc[q] = "finish" => proc[q].con \in Clients
      BY <3>1, <3>2 DEF Hand, WithClient
    <3> QED
      BY <3>1, <3>3, <3>4, HandFrame
  <2> QED
    BY <2>1 DEF Hands
<1>3. Kept'
  <2>1. ASSUME NEW q \in Callers, pc[q] \in Three, proc[q].con \in Clients, wire'[proc[q].con] = "up"
        PROVE  \/ closed'
               \/ \E k \in Keys : client'[k] = proc[q].con
               \/ proc'[q].con = proc[q].con /\ pc'[q] \in Three
    <3>1. CASE q = p
      BY <2>1, <3>1, <1>1
    <3>2. CASE q # p
      BY <2>1, <3>2, <1>1
    <3> QED
      BY <3>1, <3>2
  <2>2. Kept /\ closed' = closed /\ client' = client
    BY DEF Rest
  <2> QED
    BY <2>1, <2>2, KeptFrame
<1>4. Room'
  <2>1. ASSUME NEW q \in Callers, NEW k \in Keys,
               k \in proc'[q].todo \/ (pc'[q] \in Busy /\ proc'[q].key = k)
        PROVE  k \in proc[q].todo \/ (pc[q] \in Busy /\ proc[q].key = k)
    <3>1. CASE q = p
      BY <2>1, <3>1, <1>1
    <3>2. CASE q # p
      BY <2>1, <3>2, <1>1
    <3> QED
      BY <3>1, <3>2
  <2> QED
    BY <2>1, RoomFrame DEF Rest, document
<1>5. LocksHold'
  BY <1>1, LocksFrame DEF Rest, document
<1>6. Reports'
  BY ReportsFrame DEF Rest, document
<1>7. ToldOnce'
  BY ToldFrame DEF Rest, document
<1>8. TicketsSound'
  <2>1. ASSUME NEW q \in Callers
        PROVE  /\ Tickets(q)' \subseteq Tickets(q)
               /\ proc'[q].text = proc[q].text \/ Tickets(q)' = {}
    <3>1. CASE q = p
      BY <3>1 DEF SameTouch
    <3>2. CASE q # p
      BY <3>2, <1>1 DEF Tickets
    <3> QED
      BY <3>1, <3>2
  <2> QED
    BY <2>1, TicketsFrame DEF Rest, document
<1>9. DecorationsFit'
  <2>1. ASSUME NEW q \in Callers
        PROVE  \/ proc'[q].decor = proc[q].decor /\ proc'[q].text = proc[q].text
               \/ \A x \in proc'[q].decor : Fits(x, proc'[q].text)
    <3>1. CASE q = p
      BY <3>1 DEF SameTouch
    <3>2. CASE q # p
      BY <3>2, <1>1
    <3> QED
      BY <3>1, <3>2
  <2> QED
    BY <2>1, DecorationsFrame DEF Rest
<1> QED
  BY <1>2, <1>3, <1>4, <1>5, <1>6, <1>7, <1>8, <1>9

(* The same, when the manager does not change at all.                      *)
LEMMA CalmMove ==
  ASSUME TypeOK, Rest, NEW p \in Callers, NEW label \in Labels, Moved(p, label),
         UNCHANGED <<manager, key, document, received, mistold, enforcing, touches>>,
         \A c \in Clients : wire'[c] = "up" => wire[c] = "up",
         \A q \in Callers \ {p} : receipts'[q] = receipts[q],
         ~enforcing => receipts'[p] = {},
         Hand(p)',
         Starter(p)' => Starter(p) /\ proc'[p].key = proc[p].key,
         pc[p] \in Three /\ proc[p].con \in Clients /\ wire'[proc[p].con] = "up" =>
           \/ closed
           \/ client[proc[p].key] = proc[p].con /\ proc[p].key \in Keys
           \/ proc'[p].con = proc[p].con /\ label \in Three,
         label \notin {"notify", "undo"},
         \A k \in Keys : k \in proc'[p].todo \/ (label \in Busy /\ proc'[p].key = k) =>
                         k \in proc[p].todo \/ (pc[p] \in Busy /\ proc[p].key = k),
         \/ SameTouch(p) /\ Tickets(p)' \subseteq Tickets(p)
         \/ Tickets(p)' = {},
         \/ SameTouch(p) /\ proc'[p].decor = proc[p].decor
         \/ \A x \in proc'[p].decor : Fits(x, proc'[p].text)
  PROVE  Rest'
<1>1. /\ pc'[p] = label
      /\ \A q \in Callers \ {p} : pc'[q] = pc[q] /\ proc'[q] = proc[q]
  BY MovedLabels
<1>2. Slots'
  BY SlotsFrame DEF Rest, manager
<1>3. \A q \in Callers : ~enforcing => receipts'[q] = {}
  BY DEF Rest, Shut
<1>4. Shut'
  BY <1>3, ShutFrame DEF Rest, manager
<1>5. StartsAlone'
  <2>1. ASSUME NEW q \in Callers, Starter(q)'
        PROVE  Starter(q) /\ proc'[q].key = proc[q].key
    <3>1. CASE q = p
      BY <2>1, <3>1
    <3>2. CASE q # p
      BY <2>1, <3>2, <1>1 DEF Starter
    <3> QED
      BY <3>1, <3>2
  <2> QED
    BY <2>1, StartsFrame DEF Rest, manager
<1>6. /\ Hands' /\ Kept' /\ Room' /\ LocksHold'
      /\ Reports' /\ ToldOnce' /\ TicketsSound' /\ DecorationsFit'
  <2>1. closed' = closed /\ client' = client
    BY DEF manager
  <2> QED
    BY <2>1, CalmCall
<1> QED
  BY <1>2, <1>4, <1>5, <1>6 DEF Rest

(* A call that has no client in its hands.                                 *)
LEMMA FreeHand ==
  ASSUME NEW p \in Callers, Hand(p), pc[p] # "idle", pc'[p] \in {"next", "returned", "await"},
         proc'[p].doc = proc[p].doc, proc'[p].key = NULL, proc'[p].con = NULL,
         receipts'[p] # {} => pc'[p] = "returned"
  PROVE  Hand(p)'
BY DEF Hand, Busy, WithClient

(* What is left of a call when a server is done with.                      *)
LEMMA NextMove ==
  ASSUME TypeOK, Rest, NEW p \in Callers, pc[p] \in Busy, NEW todo \in SUBSET proc[p].todo,
         Goto(p, "next"), proc' = [proc EXCEPT ![p] = [Cleared(p) EXCEPT !.todo = todo]],
         UNCHANGED <<manager, key, document, server, enforcer, touches>>,
         watched' \in SUBSET Clients, wire' \in [Clients -> {"up", "cut", "down"}],
         \A c \in Clients : wire'[c] = "up" => wire[c] = "up",
         pc[p] \in Three /\ proc[p].con \in Clients => wire'[proc[p].con] # "up"
  PROVE  TypeOK' /\ Rest'
<1> DEFINE x == [Cleared(p) EXCEPT !.todo = todo]
<1>1. todo \in SUBSET Keys
  BY DEF TypeOK, Call
<1>2. /\ x \in Call /\ x.doc = proc[p].doc /\ x.text = proc[p].text
      /\ x.todo = todo /\ x.key = NULL /\ x.con = NULL
      /\ x.waits = proc[p].waits /\ x.found = proc[p].found /\ x.decor = proc[p].decor
  BY <1>1, ClearedTodo
<1>3. proc' = [proc EXCEPT ![p] = x]
  OBVIOUS
<1> HIDE DEF x
<1>4. Moved(p, "next") /\ proc'[p] = x
  <2>1. /\ proc' \in [Callers -> Call] /\ proc'[p] = x
        /\ \A q \in Callers \ {p} : proc'[q] = proc[q]
    <3>1. proc \in [Callers -> Call] /\ x \in Call
      BY <1>2 DEF TypeOK
    <3> QED
      BY <1>3, <3>1
  <2> QED
    BY <2>1 DEF Moved, Goto
<1>5. pc'[p] = "next" /\ "next" \in Labels
  BY <1>4, MovedLabels DEF Labels
<1>6. Hand(p) /\ receipts[p] = {}
  BY DEF Rest, Hands, Hand, Busy
<1>7. Hand(p)'
  BY <1>2, <1>4, <1>5, <1>6, FreeHand DEF Busy, enforcer
<1>8. TypeOK'
  BY <1>4, <1>5, CallTypes DEF manager, enforcer, TypeOK
<1>9. Tickets(p)' = Tickets(p)
  BY <1>2, <1>4 DEF Tickets, enforcer
<1>10. Rest'
  <2>1. ~Starter(p)'
    BY <1>5 DEF Starter
  <2> QED
    BY <1>2, <1>4, <1>5, <1>6, <1>7, <1>9, <2>1, CalmMove DEF server, enforcer, SameTouch, Busy
<1> QED
  BY <1>8, <1>10

LEMMA NextServerIs ==
  ASSUME TypeOK, NEW p \in Callers
  PROVE  Cleared(p) = [Cleared(p) EXCEPT !.todo = proc[p].todo]
<1> DEFINE r == Cleared(p)
<1>1. r \in Call /\ r.todo = proc[p].todo
  BY ClearedCall
<1> HIDE DEF r
<1>2. r = [r EXCEPT !.todo = proc[p].todo]
  BY <1>1 DEF Call
<1> QED
  BY <1>2 DEF r

LEMMA StopWaitingStep ==
  ASSUME TypeOK, Rest, NEW p \in Callers, StopWaiting(p)
  PROVE  TypeOK' /\ Rest'
<1>1. {} \in SUBSET proc[p].todo
  OBVIOUS
<1>2. /\ Goto(p, "next") /\ proc' = [proc EXCEPT ![p] = [Cleared(p) EXCEPT !.todo = {}]]
      /\ pc[p] = "waiting"
  BY DEF StopWaiting, NoMoreServers
<1>3. UNCHANGED <<manager, key, wire, watched, document, server, enforcer, touches>>
  BY DEF StopWaiting, clients
<1>4. watched' \in SUBSET Clients /\ wire' \in [Clients -> {"up", "cut", "down"}]
  BY <1>3 DEF TypeOK
<1> QED
  BY <1>1, <1>2, <1>3, <1>4, NextMove DEF Busy, Three

-----------------------------------------------------------------------------
(* The start of a server.                                                  *)

(* A call in which only the code of its start changes, or its client too.  *)
LEMMA CodeMove ==
  ASSUME TypeOK, NEW p \in Callers, NEW code \in Codes, NEW c \in Clients \cup {NULL},
         proc' = [proc EXCEPT ![p].code = code, ![p].con = c]
  PROVE  /\ proc' \in [Callers -> Call] /\ \A q \in Callers \ {p} : proc'[q] = proc[q]
         /\ proc'[p].code = code /\ proc'[p].con = c /\ proc'[p].key = proc[p].key
         /\ proc'[p].todo = proc[p].todo
         /\ SameTouch(p) /\ SameTickets(p)
<1> DEFINE y == proc[p]
           x == [y EXCEPT !.code = code, !.con = c]
<1>1. proc \in [Callers -> Call] /\ y \in Call
  BY DEF TypeOK
<1>2. proc' = [proc EXCEPT ![p] = x]
  BY <1>1
<1> HIDE DEF y
<1>3. x \in Call
  BY <1>1 DEF Call, Codes
<1>4. /\ x.code = code /\ x.con = c /\ x.key = y.key /\ x.todo = y.todo
      /\ x.doc = y.doc /\ x.text = y.text /\ x.waits = y.waits /\ x.found = y.found /\ x.decor = y.decor
  BY <1>1 DEF Call
<1> HIDE DEF x
<1>5. proc' \in [Callers -> Call] /\ proc'[p] = x /\ \A q \in Callers \ {p} : proc'[q] = proc[q]
  BY <1>1, <1>2, <1>3
<1> QED
  BY <1>4, <1>5 DEF SameTouch, SameTickets, y

LEMMA OnlyCode ==
  ASSUME TypeOK, NEW p \in Callers, NEW code, proc' = [proc EXCEPT ![p].code = code]
  PROVE  proc' = [proc EXCEPT ![p].code = code, ![p].con = proc[p].con]
<1>1. proc \in [Callers -> Call]
  BY DEF TypeOK
<1>2. [proc[p] EXCEPT !.code = code] = [proc[p] EXCEPT !.code = code, !.con = proc[p].con]
  <2> DEFINE x == proc[p]
  <2>1. x \in Call
    BY <1>1
  <2> HIDE DEF x
  <2>2. [x EXCEPT !.code = code] = [x EXCEPT !.code = code, !.con = x.con]
    BY <2>1 DEF Call
  <2> QED
    BY <2>2 DEF x
<1> QED
  BY <1>1, <1>2

LEMMA LaunchFailsStep ==
  ASSUME TypeOK, Rest, NEW p \in Callers, LaunchFails(p)
  PROVE  TypeOK' /\ Rest'
<1>1. PICK code \in {"unavailable", "failed", "ended"} : proc' = [proc EXCEPT ![p].code = code]
  BY DEF LaunchFails
<1>2. code \in Codes
  BY DEF Codes
<1>3. /\ pc[p] = "launch" /\ Goto(p, "complete")
      /\ UNCHANGED <<manager, clients, document, server, enforcer, touches>>
  BY DEF LaunchFails
<1>4. proc[p].con = NULL /\ Hand(p)
  BY <1>3 DEF Rest, Hands, Hand
<1>5. /\ proc' \in [Callers -> Call] /\ \A q \in Callers \ {p} : proc'[q] = proc[q]
      /\ proc'[p].code = code /\ proc'[p].con = NULL /\ proc'[p].key = proc[p].key
      /\ proc'[p].todo = proc[p].todo
      /\ SameTouch(p) /\ SameTickets(p)
  <2>1. proc' = [proc EXCEPT ![p].code = code, ![p].con = proc[p].con]
    BY <1>1, OnlyCode
  <2>2. proc' = [proc EXCEPT ![p].code = code, ![p].con = NULL]
    BY <2>1, <1>4
  <2> QED
    BY <1>2, <2>2, CodeMove
<1>6. Moved(p, "complete") /\ "complete" \in Labels
  BY <1>3, <1>5 DEF Moved, Goto, Labels
<1>7. pc'[p] = "complete"
  BY <1>6, MovedLabels
<1>8. TypeOK'
  BY <1>3, <1>6, CallTypes DEF manager, clients, enforcer, TypeOK
<1>9. Hand(p)'
  BY <1>1, <1>3, <1>4, <1>5, <1>7 DEF Hand, SameTouch, Busy, WithClient, enforcer
<1>10. Tickets(p)' = Tickets(p)
  BY <1>3, <1>5 DEF Tickets, SameTickets, enforcer
<1>11. Rest'
  <2>1. Starter(p)
    BY <1>3 DEF Starter
  <2>2. ~enforcing => receipts'[p] = {}
    BY <1>3 DEF Rest, Shut, enforcer
  <2>3. UNCHANGED <<manager, key, wire, document, received, mistold, enforcing, receipts, touches>>
    BY <1>3 DEF clients, server, enforcer
  <2> QED
    BY <1>3, <1>5, <1>6, <1>9, <1>10, <2>1, <2>2, <2>3, CalmMove DEF Three, Busy, SameTickets
<1> QED
  BY <1>8, <1>11

LEMMA InitializeStep ==
  ASSUME TypeOK, Rest, NEW p \in Callers, Initialize(p)
  PROVE  TypeOK' /\ Rest'
<1> DEFINE c == proc[p].con
<1>1. /\ pc[p] = "initialize" /\ Goto(p, "complete")
      /\ UNCHANGED <<manager, key, watched, document, server, enforcer, touches>>
  BY DEF Initialize
<1>2. Hand(p) /\ c \in Clients
  BY <1>1 DEF Rest, Hands, Hand, WithClient, TypeOK, Call
<1>3. PICK code \in {"ok", "failed", "ended"}, d \in {c, NULL} :
        /\ proc' = [proc EXCEPT ![p].code = code, ![p].con = d]
        /\ code = "ok" => d = c /\ wire' = wire
        /\ code # "ok" => d = NULL /\ Cut(c)
  <2>1. CASE wire[c] = "up" /\ proc' = [proc EXCEPT ![p].code = "ok"] /\ UNCHANGED wire
    BY <2>1, OnlyCode
  <2>2. CASE /\ \E code \in {"failed", "ended"} : proc' = [proc EXCEPT ![p].code = code, ![p].con = NULL]
             /\ Cut(proc[p].con)
    BY <2>2
  <2> QED
    BY <2>1, <2>2 DEF Initialize
<1> HIDE DEF c
<1>4. code \in Codes /\ d \in Clients \cup {NULL}
  BY <1>2 DEF Codes
<1>5. /\ proc' \in [Callers -> Call] /\ \A q \in Callers \ {p} : proc'[q] = proc[q]
      /\ proc'[p].code = code /\ proc'[p].con = d /\ proc'[p].key = proc[p].key
      /\ proc'[p].todo = proc[p].todo
      /\ SameTouch(p) /\ SameTickets(p)
  BY <1>3, <1>4, CodeMove
<1>6. Moved(p, "complete") /\ "complete" \in Labels
  BY <1>1, <1>5 DEF Moved, Goto, Labels
<1>7. pc'[p] = "complete"
  BY <1>6, MovedLabels
<1>8. /\ wire' \in [Clients -> {"up", "cut", "down"}]
      /\ \A e \in Clients : wire'[e] = "up" => wire[e] = "up"
      /\ code # "ok" => wire'[c] # "up"
  BY <1>2, <1>3 DEF TypeOK, Cut
<1>9. TypeOK'
  BY <1>1, <1>6, <1>8, CallTypes DEF manager, enforcer, TypeOK
<1>10. Hand(p)'
  <2>1. NULL \notin Clients
    OBVIOUS
  <2>2. key'[d] = key[d] /\ (d # NULL => d = c) /\ (code = "ok" => d = c)
    BY <1>1, <1>3
  <2> QED
    BY <1>1, <1>2, <1>3, <1>5, <1>7, <2>1, <2>2 DEF Hand, SameTouch, Busy, WithClient, enforcer, c
<1>11. Tickets(p)' = Tickets(p)
  BY <1>1, <1>5 DEF Tickets, SameTickets, enforcer
<1>12. Rest'
  <2>1. Starter(p)
    BY <1>1 DEF Starter
  <2>2. ~enforcing => receipts'[p] = {}
    BY <1>1 DEF Rest, Shut, enforcer
  <2>3. UNCHANGED <<manager, key, document, received, mistold, enforcing, receipts, touches>>
    BY <1>1 DEF server, enforcer
  <2>4. wire'[c] = "up" => proc'[p].con = c /\ "complete" \in Three
    BY <1>3, <1>5, <1>8 DEF Three
  <2> QED
    BY <1>1, <1>5, <1>6, <1>8, <1>10, <1>11, <2>1, <2>2, <2>3, <2>4, CalmMove DEF Busy, SameTickets, c
<1> QED
  BY <1>9, <1>12

LEMMA FinishStartStep ==
  ASSUME TypeOK, Rest, NEW p \in Callers, FinishStart(p)
  PROVE  TypeOK' /\ Rest'
<1> DEFINE c == proc[p].con
<1>1. /\ pc[p] = "finish"
      /\ UNCHANGED <<manager, key, document, server, enforcer, touches>>
  BY DEF FinishStart
<1>2. Hand(p) /\ c \in Clients /\ c # NULL
  BY <1>1 DEF Rest, Hands, Hand, WithClient, TypeOK, Call
<1>3. CASE proc[p].code = "ok"
  <2>1. /\ watched' = watched \cup {c} /\ Goto(p, "sync") /\ wire' = wire
        /\ proc' = [proc EXCEPT ![p].code = ""]
    BY <1>3 DEF FinishStart
  <2>2. "" \in Codes
    BY DEF Codes
  <2>3. proc' = [proc EXCEPT ![p].code = "", ![p].con = proc[p].con]
    BY <2>1, OnlyCode
  <2>4. /\ proc' \in [Callers -> Call] /\ \A q \in Callers \ {p} : proc'[q] = proc[q]
        /\ proc'[p].code = "" /\ proc'[p].con = proc[p].con /\ proc'[p].key = proc[p].key
        /\ proc'[p].todo = proc[p].todo
        /\ SameTouch(p) /\ SameTickets(p)
    BY <1>2, <2>2, <2>3, CodeMove
  <2>5. Moved(p, "sync") /\ "sync" \in Labels
    BY <2>1, <2>4 DEF Moved, Goto, Labels
  <2>6. pc'[p] = "sync"
    BY <2>5, MovedLabels
  <2>7. TypeOK'
    BY <1>1, <1>2, <2>1, <2>5, CallTypes DEF manager, enforcer, TypeOK
  <2>8. Hand(p)'
    BY <1>1, <1>2, <2>4, <2>6 DEF Hand, SameTouch, Busy, WithClient, enforcer
  <2>9. Tickets(p)' = Tickets(p)
    BY <1>1, <2>4 DEF Tickets, SameTickets, enforcer
  <2>10. Rest'
    <3>1. ~Starter(p)'
      BY <2>6 DEF Starter
    <3>2. ~enforcing => receipts'[p] = {}
      BY <1>1 DEF Rest, Shut, enforcer
    <3>3. UNCHANGED <<manager, key, wire, document, received, mistold, enforcing, receipts, touches>>
      BY <1>1, <2>1 DEF server, enforcer
    <3>4. wire'[c] = "up" => closed \/ (client[proc[p].key] = c /\ proc[p].key \in Keys)
      BY <1>1, <1>2, <1>3, <2>1 DEF Hand, Busy
    <3> QED
      BY <1>1, <2>4, <2>5, <2>8, <2>9, <3>1, <3>2, <3>3, <3>4, CalmMove DEF Busy, SameTickets
  <2> QED
    BY <2>7, <2>10
<1>4. CASE proc[p].code # "ok"
  <2>1. /\ Cut(c) /\ watched' = watched
        /\ NoMoreServers(p) \/ NextServer(p)
    BY <1>4 DEF FinishStart, Discard
  <2>2. PICK todo \in SUBSET proc[p].todo :
          Goto(p, "next") /\ proc' = [proc EXCEPT ![p] = [Cleared(p) EXCEPT !.todo = todo]]
    <3>1. CASE NoMoreServers(p)
      <4>1. {} \in SUBSET proc[p].todo
        OBVIOUS
      <4> QED
        BY <3>1, <4>1 DEF NoMoreServers
    <3>2. CASE NextServer(p)
      <4>1. proc[p].todo \in SUBSET proc[p].todo
        OBVIOUS
      <4> QED
        BY <3>2, <4>1, NextServerIs DEF NextServer
    <3> QED
      BY <2>1, <3>1, <3>2
  <2>3. /\ wire' \in [Clients -> {"up", "cut", "down"}] /\ watched' \in SUBSET Clients
        /\ \A e \in Clients : wire'[e] = "up" => wire[e] = "up"
        /\ wire'[c] # "up"
    BY <1>2, <2>1 DEF TypeOK, Cut
  <2>4. pc[p] \in Busy
    BY <1>1 DEF Busy
  <2> QED
    BY <1>1, <2>2, <2>3, <2>4, NextMove
<1> QED
  BY <1>3, <1>4

(* A call that turns to a server.                                          *)
LEMMA ProceedMove ==
  ASSUME TypeOK, NEW p \in Callers, NEW k \in proc[p].todo, NEW c \in Clients \cup {NULL},
         proc' = [proc EXCEPT ![p].key = k, ![p].todo = @ \ {k}, ![p].con = c]
  PROVE  /\ proc' \in [Callers -> Call] /\ \A q \in Callers \ {p} : proc'[q] = proc[q]
         /\ proc'[p].con = c /\ proc'[p].key = k /\ k \in Keys
         /\ proc'[p].todo = proc[p].todo \ {k}
         /\ SameTouch(p) /\ SameTickets(p)
<1> DEFINE y == proc[p]
           todo == y.todo \ {k}
           x == [y EXCEPT !.key = k, !.todo = todo, !.con = c]
<1>1. proc \in [Callers -> Call] /\ y \in Call
  BY DEF TypeOK
<1>2. proc' = [proc EXCEPT ![p] = x]
  BY <1>1
<1>3. todo \in SUBSET Keys /\ k \in Keys
  BY <1>1 DEF Call
<1> HIDE DEF y, todo
<1>4. x \in Call
  BY <1>1, <1>3 DEF Call
<1>5. /\ x.con = c /\ x.key = k /\ x.todo = todo
      /\ x.doc = y.doc /\ x.text = y.text /\ x.waits = y.waits /\ x.found = y.found /\ x.decor = y.decor
  BY <1>1 DEF Call
<1> HIDE DEF x
<1>6. /\ proc' \in [Callers -> Call]
      /\ \A q \in Callers \ {p} : proc'[q] = proc[q]
      /\ proc'[p] = x
  BY <1>2, <1>4, Replaced
<1> QED
  BY <1>3, <1>5, <1>6 DEF SameTouch, SameTickets, y, todo

(* A server that is not to be had is passed over.                          *)
LEMMA PassMove ==
  ASSUME TypeOK, NEW p \in Callers, NEW k \in proc[p].todo, proc' = [proc EXCEPT ![p].todo = @ \ {k}]
  PROVE  /\ proc' \in [Callers -> Call] /\ \A q \in Callers \ {p} : proc'[q] = proc[q]
         /\ proc'[p].con = proc[p].con /\ proc'[p].key = proc[p].key
         /\ proc'[p].todo = proc[p].todo \ {k}
         /\ SameTouch(p) /\ SameTickets(p)
<1> DEFINE y == proc[p]
           todo == y.todo \ {k}
           x == [y EXCEPT !.todo = todo]
<1>1. proc \in [Callers -> Call] /\ y \in Call
  BY DEF TypeOK
<1>2. proc' = [proc EXCEPT ![p] = x]
  BY <1>1
<1>3. todo \in SUBSET Keys
  BY <1>1 DEF Call
<1> HIDE DEF y, todo
<1>4. x \in Call
  BY <1>1, <1>3 DEF Call
<1>5. /\ x.con = y.con /\ x.key = y.key /\ x.todo = todo
      /\ x.doc = y.doc /\ x.text = y.text /\ x.waits = y.waits /\ x.found = y.found /\ x.decor = y.decor
  BY <1>1 DEF Call
<1> HIDE DEF x
<1>6. proc' \in [Callers -> Call] /\ proc'[p] = x /\ \A q \in Callers \ {p} : proc'[q] = proc[q]
  BY <1>1, <1>2, <1>4
<1> QED
  BY <1>5, <1>6 DEF SameTouch, SameTickets, y, todo

LEMMA BeginStartStep ==
  ASSUME TypeOK, Rest, NEW p \in Callers, BeginStart(p)
  PROVE  TypeOK' /\ Rest'
<1>1. /\ pc[p] = "next"
      /\ UNCHANGED <<closed, client, failures, disabled, closing, clients, document, server, enforcer, touches>>
  BY DEF BeginStart
<1>2. PICK k \in proc[p].todo :
        \/ /\ closed \/ (client[k] = NULL /\ disabled[k])
           /\ proc' = [proc EXCEPT ![p].todo = @ \ {k}]
           /\ UNCHANGED <<pc, starting>>
        \/ \E c \in {NULL, client[k]} :
             /\ proc' = [proc EXCEPT ![p].key = k, ![p].todo = @ \ {k}, ![p].con = c]
             /\ ~closed /\ c = client[k]
             /\ \/ client[k] # NULL /\ Goto(p, "sync") /\ UNCHANGED starting
                \/ client[k] = NULL /\ Goto(p, "waiting") /\ UNCHANGED starting
                \/ /\ client[k] = NULL /\ ~disabled[k] /\ ~starting[k]
                   /\ starting' = [starting EXCEPT ![k] = TRUE]
                   /\ Goto(p, "launch")
  BY DEF BeginStart, Starting
<1>3. /\ Hand(p) /\ receipts[p] = {} /\ proc[p].doc \in Docs
      /\ proc[p].con = NULL /\ proc[p].key = NULL /\ k \in Keys
  BY <1>1 DEF Rest, Hands, Hand, Busy, TypeOK, Call
<1>4. /\ UNCHANGED <<key, wire, watched, docLock, version, diag, received, mistold, enforcing, receipts, touches>>
      /\ UNCHANGED document
  BY <1>1 DEF clients, server, enforcer, document
<1>5. ~enforcing => receipts'[p] = {}
  BY <1>3, <1>4
<1>6. CASE /\ closed \/ (client[k] = NULL /\ disabled[k])
           /\ proc' = [proc EXCEPT ![p].todo = @ \ {k}]
           /\ UNCHANGED <<pc, starting>>
  <2>1. /\ proc' \in [Callers -> Call] /\ \A q \in Callers \ {p} : proc'[q] = proc[q]
        /\ proc'[p].con = proc[p].con /\ proc'[p].key = proc[p].key
        /\ proc'[p].todo = proc[p].todo \ {k}
        /\ SameTouch(p) /\ SameTickets(p)
    BY <1>6, PassMove
  <2>2. Moved(p, "next") /\ "next" \in Labels /\ pc'[p] = "next"
    BY <1>1, <1>6, <2>1 DEF Moved, Labels, TypeOK
  <2>3. TypeOK'
    BY <1>1, <1>4, <1>6, <2>2, CallTypes DEF TypeOK
  <2>4. Hand(p)'
    BY <1>1, <1>3, <1>4, <2>1, <2>2, FreeHand DEF SameTouch
  <2>5. Tickets(p)' = Tickets(p)
    BY <1>4, <2>1 DEF Tickets, SameTickets
  <2>6. ~Starter(p)' /\ UNCHANGED manager
    BY <1>1, <1>6, <2>2 DEF Starter, manager
  <2>7. pc[p] \notin Three /\ "next" \notin Busy
    BY <1>1 DEF Three, Busy
  <2>8. Rest'
    BY <1>4, <1>5, <2>1, <2>2, <2>4, <2>5, <2>6, <2>7, CalmMove DEF SameTickets
  <2> QED
    BY <2>3, <2>8
<1>7. ASSUME NEW c \in {NULL, client[k]}, ~closed, c = client[k],
             proc' = [proc EXCEPT ![p].key = k, ![p].todo = @ \ {k}, ![p].con = c],
             \/ client[k] # NULL /\ Goto(p, "sync") /\ UNCHANGED starting
             \/ client[k] = NULL /\ Goto(p, "waiting") /\ UNCHANGED starting
             \/ /\ client[k] = NULL /\ ~disabled[k] /\ ~starting[k]
                /\ starting' = [starting EXCEPT ![k] = TRUE]
                /\ Goto(p, "launch")
      PROVE  TypeOK' /\ Rest'
  <2>1. c \in Clients \cup {NULL} /\ (c # NULL => key[c] = k)
    BY <1>3, <1>7 DEF TypeOK, Rest, Slots, Slot
  <2>2. /\ proc' \in [Callers -> Call] /\ \A q \in Callers \ {p} : proc'[q] = proc[q]
        /\ proc'[p].con = c /\ proc'[p].key = k /\ k \in Keys
        /\ proc'[p].todo = proc[p].todo \ {k}
        /\ SameTouch(p) /\ SameTickets(p)
    <3>1. proc' = [proc EXCEPT ![p].key = k, ![p].todo = @ \ {k}, ![p].con = c]
      BY <1>7
    <3>2. c \in Clients \cup {NULL}
      BY <2>1
    <3> QED
      BY <3>1, <3>2, ProceedMove
  <2>3. PICK label \in {"sync", "waiting", "launch"} :
          /\ Goto(p, label)
          /\ label = "sync" => c # NULL /\ starting' = starting
          /\ label = "waiting" => c = NULL /\ starting' = starting
          /\ label = "launch" => /\ c = NULL /\ ~disabled[k] /\ ~starting[k]
                                 /\ starting' = [starting EXCEPT ![k] = TRUE]
    BY <1>7
  <2>4. /\ Moved(p, label) /\ label \in Labels /\ label \in Busy /\ label \notin {"notify", "undo"}
        /\ starting' \in [Keys -> BOOLEAN]
    <3>1. starting \in [Keys -> BOOLEAN]
      BY DEF TypeOK
    <3>2. starting' \in [Keys -> BOOLEAN]
      BY <2>3, <3>1
    <3> QED
      BY <2>2, <2>3, <3>2 DEF Moved, Goto, Labels, Busy
  <2>5. /\ pc'[p] = label
        /\ \A q \in Callers \ {p} : pc'[q] = pc[q] /\ proc'[q] = proc[q]
    BY <2>4, MovedLabels
  <2>6. TypeOK'
    BY <1>1, <1>4, <2>4, CallTypes DEF TypeOK
  <2>7. Hand(p)'
    <3>1. key' = key /\ receipts'[p] = {}
      BY <1>3, <1>4
    <3> QED
      BY <1>3, <2>1, <2>2, <2>3, <2>5, <3>1 DEF Hand, SameTouch, Busy, WithClient
  <2>8. Tickets(p)' = Tickets(p)
    BY <1>4, <2>2 DEF Tickets, SameTickets
  <2>9. /\ Hands' /\ Kept' /\ Room' /\ LocksHold'
        /\ Reports' /\ ToldOnce' /\ TicketsSound' /\ DecorationsFit'
    <3>1. pc[p] \notin Three
      BY <1>1 DEF Three
    <3>2. UNCHANGED <<closed, client, key, document, received, mistold, enforcing, touches>>
      BY <1>1, <1>4
    <3>3. /\ \A e \in Clients : wire'[e] = "up" => wire[e] = "up"
          /\ \A q \in Callers \ {p} : receipts'[q] = receipts[q]
      BY <1>4
    <3> QED
      BY <2>2, <2>4, <2>7, <2>8, <3>1, <3>2, <3>3, CalmCall DEF SameTickets
  <2>10. Slots' /\ Shut' /\ StartsAlone'
    <3>1. CASE label # "launch"
      <4>1. starting' = starting
        BY <2>3, <3>1
      <4>2. \A q \in Callers : Starter(q)' => Starter(q) /\ proc'[q].key = proc[q].key
        BY <2>3, <2>5, <3>1 DEF Starter
      <4>3. \A q \in Callers : ~enforcing => receipts'[q] = {}
        BY <1>4 DEF Rest, Shut
      <4> QED
        BY <1>1, <1>4, <4>1, <4>2, <4>3, SlotsFrame, ShutFrame, StartsFrame DEF Rest
    <3>2. CASE label = "launch"
      <4>1. /\ c = NULL /\ client[k] = NULL /\ ~disabled[k] /\ ~starting[k]
            /\ starting' = [starting EXCEPT ![k] = TRUE]
        BY <1>7, <2>3, <3>2
      <4>2. /\ starting'[k] = TRUE /\ \A e \in Keys \ {k} : starting'[e] = starting[e]
        BY <2>2, <4>1 DEF TypeOK
      <4>3. Slots'
        BY <1>1, <1>4, <4>1, <4>2 DEF Rest, Slots, Slot
      <4>4. Shut'
        BY <1>1, <1>4, <1>7 DEF Rest, Shut
      <4>5. StartsAlone'
        <5>1. ~Starter(p) /\ (\A q \in Callers : Starter(q) => proc[q].key # k)
          BY <1>1, <4>1 DEF Rest, StartsAlone, Starts, Starter
        <5>2. \A q \in Callers : Starter(q)' <=> Starter(q) \/ q = p
          BY <2>5, <3>2 DEF Starter
        <5>3. ASSUME NEW q \in Callers, q # p, Starter(q)
              PROVE  proc[q].key \in Keys
          BY <5>3 DEF Rest, Hands, Hand, Starter, Busy
        <5>4. ASSUME NEW q \in Callers, Starter(q)'
              PROVE  /\ starting'[proc'[q].key]
                     /\ \A r \in Callers : Starter(r)' /\ proc'[r].key = proc'[q].key => q = r
          <6>1. CASE q = p
            BY <2>2, <2>5, <4>2, <5>1, <5>2, <6>1
          <6>2. CASE q # p
            <7>1. Starter(q) /\ proc'[q] = proc[q] /\ proc[q].key # k /\ starting[proc[q].key]
              BY <2>5, <5>1, <5>2, <5>4, <6>2 DEF Rest, StartsAlone, Starts
            <7>2. starting'[proc'[q].key]
              BY <4>2, <5>3, <6>2, <7>1
            <7>3. ASSUME NEW r \in Callers, Starter(r)', proc'[r].key = proc'[q].key
                  PROVE  q = r
              BY <2>2, <2>5, <5>2, <7>1, <7>3 DEF Rest, StartsAlone, Starts
            <7> QED
              BY <7>2, <7>3
          <6> QED
            BY <6>1, <6>2
        <5> QED
          BY <5>4 DEF StartsAlone, Starts
      <4> QED
        BY <4>3, <4>4, <4>5
    <3> QED
      BY <3>1, <3>2
  <2> QED
    BY <2>6, <2>9, <2>10 DEF Rest
<1> QED
  BY <1>2, <1>6, <1>7

LEMMA LaunchStep ==
  ASSUME TypeOK, Rest, NEW p \in Callers, Launch(p)
  PROVE  TypeOK' /\ Rest'
<1> DEFINE k == proc[p].key
<1>1. /\ pc[p] = "launch" /\ Goto(p, "initialize")
      /\ UNCHANGED <<manager, watched, docLock, disk, enforcer, touches>>
  BY DEF Launch
<1>2. PICK c \in Clients \ Held :
        /\ wire[c] = "down"
        /\ key' = [key EXCEPT ![c] = k]
        /\ wire' = [wire EXCEPT ![c] = "up"]
        /\ version' = [version EXCEPT ![c] = [d \in Docs |-> 0]]
        /\ diag' = [diag EXCEPT ![c] = [d \in Docs |-> NoDiag]]
        /\ received' = [received EXCEPT ![c] = [d \in Docs |-> {[version |-> 0, text |-> disk[d]]}]]
        /\ mistold' = mistold \ {c}
        /\ proc' = [proc EXCEPT ![p].con = c]
  BY DEF Launch
<1>3. Hand(p) /\ k \in Keys /\ receipts[p] = {} /\ proc[p].doc \in Docs
  BY <1>1 DEF Rest, Hands, Hand, Busy
<1>4. /\ \A q \in Callers : proc[q].con # c
      /\ \A e \in Keys : client[e] # c
      /\ \A q \in Callers : \A w \in Tickets(q) : w.con # c
  BY <1>2 DEF Held
<1>5. proc' = [proc EXCEPT ![p].code = proc[p].code, ![p].con = c]
  <2> DEFINE y == proc[p]
  <2>1. proc \in [Callers -> Call] /\ y \in Call
    BY DEF TypeOK
  <2>2. proc' = [proc EXCEPT ![p] = [y EXCEPT !.con = c]]
    BY <1>2, <2>1
  <2> HIDE DEF y
  <2>3. [y EXCEPT !.con = c] = [y EXCEPT !.code = y.code, !.con = c]
    BY <2>1 DEF Call
  <2>4. proc' = [proc EXCEPT ![p] = [y EXCEPT !.code = y.code, !.con = c]]
    BY <2>2, <2>3
  <2> QED
    BY <2>1, <2>4 DEF y
<1>6. /\ proc' \in [Callers -> Call] /\ \A q \in Callers \ {p} : proc'[q] = proc[q]
      /\ proc'[p].code = proc[p].code /\ proc'[p].con = c /\ proc'[p].key = proc[p].key
      /\ proc'[p].todo = proc[p].todo
      /\ SameTouch(p) /\ SameTickets(p)
  <2>1. proc[p].code \in Codes
    BY DEF TypeOK, Call, Codes
  <2> QED
    BY <1>5, <2>1, CodeMove
<1>7. Moved(p, "initialize") /\ "initialize" \in Labels
  BY <1>1, <1>6 DEF Moved, Goto, Labels
<1>8. /\ pc'[p] = "initialize" /\ pc' \in [Callers -> Labels]
      /\ \A q \in Callers \ {p} : pc'[q] = pc[q] /\ proc'[q] = proc[q]
  BY <1>7, MovedLabels
<1>9. \A e \in Clients \ {c} : /\ key'[e] = key[e] /\ wire'[e] = wire[e] /\ version'[e] = version[e]
                               /\ diag'[e] = diag[e] /\ received'[e] = received[e]
                               /\ e \in mistold' <=> e \in mistold
  BY <1>2 DEF TypeOK
<1>10. /\ key'[c] = k /\ wire'[c] = "up" /\ version'[c] = [d \in Docs |-> 0]
       /\ diag'[c] = [d \in Docs |-> NoDiag]
       /\ received'[c] = [d \in Docs |-> {[version |-> 0, text |-> disk[d]]}]
  BY <1>2 DEF TypeOK
<1>11. TypeOK'
  <2>1. key' \in [Clients -> Keys \cup {NULL}] /\ wire' \in [Clients -> {"up", "cut", "down"}]
    BY <1>2, <1>3 DEF TypeOK
  <2>2. version' \in [Clients -> [Docs -> Texts]]
    <3>1. [d \in Docs |-> 0] \in [Docs -> Texts]
      BY DEF Texts
    <3> QED
      BY <1>2, <3>1 DEF TypeOK
  <2>3. diag' \in [Clients -> [Docs -> DiagnosticState]]
    <3>1. NoDiag \in DiagnosticState
      BY DEF NoDiag, DiagnosticState, Texts
    <3> QED
      BY <1>2, <3>1 DEF TypeOK
  <2>4. received' \in [Clients -> [Docs -> SUBSET [version: Texts, text: Texts]]]
    <3>1. [d \in Docs |-> {[version |-> 0, text |-> disk[d]]}] \in [Docs -> SUBSET [version: Texts, text: Texts]]
      BY DEF TypeOK, Texts
    <3> QED
      BY <1>2, <3>1 DEF TypeOK
  <2>5. mistold' \in SUBSET Clients
    BY <1>2 DEF TypeOK
  <2> QED
    BY <1>1, <1>6, <1>8, <2>1, <2>2, <2>3, <2>4, <2>5 DEF TypeOK, manager, enforcer
<1>12. UNCHANGED <<closed, starting, client, failures, disabled, closing, enforcing, receipts, docLock, touches>>
  BY <1>1 DEF manager, enforcer
<1>13. Slots'
  <2>1. \A e \in Keys : client[e] # NULL => key'[client[e]] = key[client[e]]
    BY <1>4, <1>9 DEF TypeOK
  <2> QED
    BY <1>12, <2>1, SlotsFrame DEF Rest
<1>14. Shut'
  BY <1>12, ShutFrame DEF Rest, Shut
<1>15. StartsAlone'
  <2>1. \A q \in Callers : Starter(q)' => Starter(q) /\ proc'[q].key = proc[q].key
    BY <1>1, <1>6, <1>8 DEF Starter
  <2> QED
    BY <1>12, <2>1, StartsFrame DEF Rest
<1>16. Hands'
  <2>1. Hand(p)'
    BY <1>3, <1>6, <1>8, <1>10, <1>12 DEF Hand, SameTouch, Busy, WithClient
  <2>2. ASSUME NEW q \in Callers, q # p
        PROVE  Hand(q)'
    <3>1. Hand(q) /\ pc'[q] = pc[q] /\ proc'[q] = proc[q]
      BY <1>8, <2>2 DEF Rest, Hands
    <3>2. proc[q].con # c /\ proc[q].con \in Clients \cup {NULL}
      BY <1>4 DEF TypeOK, Call
    <3>3. proc[q].con # NULL => key'[proc[q].con] = key[proc[q].con]
      BY <1>9, <3>2
    <3>4. pc[q] = "finish" /\ proc[q].code = "ok" =>
            closed' \/ client'[proc[q].key] = proc[q].con \/ wire'[proc[q].con] # "up"
      BY <1>9, <1>12, <3>1, <3>2 DEF Hand, WithClient
    <3> QED
      BY <1>12, <3>1, <3>3, <3>4, HandFrame
  <2> QED
    BY <2>1, <2>2 DEF Hands
<1>17. Kept'
  <2>1. ASSUME NEW e \in Clients, wire'[e] = "up", ~closed
        PROVE  \/ \E f \in Keys : client'[f] = e
               \/ \E q \in Callers : proc'[q].con = e /\ pc'[q] \in {"initialize", "complete", "finish"}
    <3>1. CASE e = c
      BY <1>6, <1>8, <3>1
    <3>2. CASE e # c
      <4>1. wire[e] = "up"
        BY <1>9, <2>1, <3>2
      <4>2. CASE \E f \in Keys : client[f] = e
        BY <1>12, <4>2
      <4>3. CASE \E q \in Callers : proc[q].con = e /\ pc[q] \in {"initialize", "complete", "finish"}
        BY <1>1, <1>8, <4>3
      <4> QED
        BY <2>1, <4>1, <4>2, <4>3 DEF Rest, Kept
    <3> QED
      BY <3>1, <3>2
  <2> QED
    BY <1>12, <2>1 DEF Kept
<1>18. Room'
  <2>1. ASSUME NEW e \in Keys
        PROVE  /\ IsFiniteSet(Pending(e)') /\ Cardinality(Pending(e)') <= touches
               /\ \A f \in Clients, d \in Docs :
                    key'[f] = e => version'[f][d] + Cardinality(Pending(e)') <= touches
    <3>1. Pending(e)' = Pending(e)
      BY <1>1, <1>6, <1>8 DEF Pending, Busy
    <3>2. /\ IsFiniteSet(Pending(e)) /\ Cardinality(Pending(e)) <= touches
          /\ \A f \in Clients, d \in Docs : key[f] = e => version[f][d] + Cardinality(Pending(e)) <= touches
      BY DEF Rest, Room
    <3>3. Cardinality(Pending(e)) \in Nat
      BY <3>2, FS_CardinalityType
    <3>4. ASSUME NEW f \in Clients, NEW d \in Docs, key'[f] = e
          PROVE  version'[f][d] + Cardinality(Pending(e)) <= touches
      <4>1. CASE f = c
        BY <1>10, <3>2, <3>3, <4>1
      <4>2. CASE f # c
        BY <1>9, <3>2, <3>4, <4>2
      <4> QED
        BY <4>1, <4>2
    <3> QED
      BY <3>1, <3>2, <3>4
  <2> QED
    BY <1>12, <2>1 DEF Room
<1>19. LocksHold'
  <2>1. ASSUME NEW q \in Callers, pc'[q] \in {"notify", "undo"}
        PROVE  Locked(q)'
    <3>1. q # p /\ pc'[q] = pc[q] /\ proc'[q] = proc[q] /\ Locked(q)
      BY <1>8, <2>1 DEF Rest, LocksHold
    <3>2. proc[q].con \in Clients \ {c}
      BY <1>4, <2>1, <3>1 DEF Rest, Hands, Hand, WithClient, TypeOK, Call
    <3> QED
      BY <1>9, <1>12, <3>1, <3>2 DEF Locked
  <2> QED
    BY <2>1 DEF LocksHold, Locked
<1>20. Reports' /\ ToldOnce'
  <2>1. ASSUME NEW e \in Clients, NEW d \in Docs
        PROVE  Report(e, d)' /\ Told(e, d)'
    <3>1. CASE e = c
      <4>1. /\ version'[c][d] = 0 /\ diag'[c][d] = NoDiag
            /\ received'[c][d] = {[version |-> 0, text |-> disk[d]]}
        BY <1>10
      <4> QED
        BY <3>1, <4>1 DEF Report, Told, NoDiag
    <3>2. CASE e # c
      BY <1>9, <3>2 DEF Rest, Reports, ToldOnce, Report, Told
    <3> QED
      BY <3>1, <3>2
  <2> QED
    BY <2>1 DEF Reports, ToldOnce
<1>21. TicketsSound'
  <2>1. ASSUME NEW q \in Callers, NEW w \in Tickets(q)'
        PROVE  Sound(q, w)'
    <3>1. Tickets(q)' = Tickets(q) /\ proc'[q].text = proc[q].text
      BY <1>6, <1>8, <1>12 DEF Tickets, SameTickets, SameTouch
    <3>2. Sound(q, w) /\ w.con # c
      BY <1>4, <3>1 DEF Rest, TicketsSound
    <3>3. w.con \in Clients
      BY <3>1, TicketTypes
    <3> QED
      BY <1>9, <3>1, <3>2, <3>3 DEF Sound
  <2> QED
    BY <2>1 DEF TicketsSound
<1>22. DecorationsFit'
  <2>1. \A q \in Callers : proc'[q].decor = proc[q].decor /\ proc'[q].text = proc[q].text
    BY <1>6, <1>8 DEF SameTickets, SameTouch
  <2> QED
    BY <2>1, DecorationsFrame DEF Rest
<1> QED
  BY <1>11, <1>13, <1>14, <1>15, <1>16, <1>17, <1>18, <1>19, <1>20, <1>21, <1>22 DEF Rest

(* What completeStart does with the call that has started the server.      *)
LEMMA CompleteStarter ==
  ASSUME TypeOK, Rest, NEW p \in Callers, pc[p] = "complete",
         NEW code \in Codes, NEW c \in {NULL, proc[p].con},
         c # NULL => code \in {"ok", "ended"}, code = "ok" => c # NULL,
         pc'[p] = (IF c = NULL THEN "next" ELSE "finish"),
         proc'[p] = (IF c = NULL THEN [Cleared(p) EXCEPT !.todo = IF code = "ended" THEN {} ELSE @]
                     ELSE [proc[p] EXCEPT !.code = IF code = "ok" /\ ~Installs(code) THEN "closed" ELSE code])
  PROVE  /\ proc'[p] \in Call /\ SameTouch(p) /\ SameTickets(p)
         /\ proc'[p].todo \subseteq proc[p].todo
         /\ c = NULL => proc'[p].key = NULL /\ proc'[p].con = NULL
         /\ c # NULL => /\ proc'[p].key = proc[p].key /\ proc'[p].con = c
                        /\ proc'[p].code \in {"ok", "ended", "closed"}
                        /\ proc'[p].code = "ok" => Installs(code)
                        /\ proc'[p].code = "closed" => closed
<1> DEFINE y == proc[p]
           left == [Cleared(p) EXCEPT !.todo = IF code = "ended" THEN {} ELSE @]
           word == IF code = "ok" /\ ~Installs(code) THEN "closed" ELSE code
           more == [y EXCEPT !.code = word]
<1>1. y \in Call
  BY DEF TypeOK
<1>2. CASE c = NULL
  <2> DEFINE todo == IF code = "ended" THEN {} ELSE y.todo
  <2>1. todo \in SUBSET Keys /\ todo \subseteq y.todo
    BY <1>1 DEF Call
  <2>2. left = [Cleared(p) EXCEPT !.todo = todo]
    <3> DEFINE r == Cleared(p)
    <3>1. r.todo = y.todo
      BY ClearedCall
    <3> HIDE DEF r
    <3>2. [r EXCEPT !.todo = IF code = "ended" THEN {} ELSE @] = [r EXCEPT !.todo = todo]
      BY <3>1
    <3> QED
      BY <3>2 DEF r
  <2> HIDE DEF todo, y
  <2>3. LET x == [Cleared(p) EXCEPT !.todo = todo] IN
        /\ x \in Call
        /\ x.doc = proc[p].doc /\ x.text = proc[p].text
        /\ x.todo = todo /\ x.key = NULL /\ x.con = NULL
        /\ x.waits = proc[p].waits /\ x.found = proc[p].found /\ x.decor = proc[p].decor
    BY <2>1, ClearedTodo
  <2>4. proc'[p] = left
    BY <1>2
  <2> HIDE DEF left
  <2> QED
    BY <1>2, <2>1, <2>2, <2>3, <2>4 DEF SameTouch, SameTickets, y
<1>3. CASE c # NULL
  <2>1. word \in {"ok", "ended", "closed"} /\ word \in Codes
    BY <1>3 DEF Codes
  <2>2. (word = "ok" => Installs(code)) /\ (word = "closed" => closed)
    BY <1>3 DEF Installs
  <2>3. proc'[p] = more
    BY <1>3
  <2> HIDE DEF word, y
  <2>4. more \in Call
    BY <1>1, <2>1 DEF Call, Codes
  <2>5. /\ more.code = word /\ more.con = y.con /\ more.key = y.key /\ more.todo = y.todo
        /\ more.doc = y.doc /\ more.text = y.text
        /\ more.waits = y.waits /\ more.found = y.found /\ more.decor = y.decor
    BY <1>1 DEF Call
  <2> HIDE DEF more
  <2> QED
    BY <1>3, <2>1, <2>2, <2>3, <2>4, <2>5 DEF SameTouch, SameTickets, y
<1> QED
  BY <1>2, <1>3

(* And with a call that has waited for it.                                 *)
LEMMA CompleteWaiter ==
  ASSUME TypeOK, NEW q \in Callers, NEW k \in Keys,
         proc'[q] = [Cleared(q) EXCEPT !.todo = @ \cup {k}]
  PROVE  /\ proc'[q] \in Call /\ SameTouch(q) /\ SameTickets(q)
         /\ proc'[q].todo = proc[q].todo \cup {k} /\ proc'[q].key = NULL /\ proc'[q].con = NULL
<1> DEFINE todo == proc[q].todo \cup {k}
<1>1. todo \in SUBSET Keys
  BY DEF TypeOK, Call
<1>2. proc'[q] = [Cleared(q) EXCEPT !.todo = todo]
  <2> DEFINE r == Cleared(q)
  <2>1. r.todo = proc[q].todo
    BY ClearedCall
  <2> HIDE DEF r
  <2>2. [r EXCEPT !.todo = @ \cup {k}] = [r EXCEPT !.todo = todo]
    BY <2>1
  <2> QED
    BY <2>2 DEF r
<1> HIDE DEF todo
<1>3. LET x == [Cleared(q) EXCEPT !.todo = todo] IN
      /\ x \in Call
      /\ x.doc = proc[q].doc /\ x.text = proc[q].text
      /\ x.todo = todo /\ x.key = NULL /\ x.con = NULL
      /\ x.waits = proc[q].waits /\ x.found = proc[q].found /\ x.decor = proc[q].decor
  BY <1>1, ClearedTodo
<1> QED
  BY <1>2, <1>3 DEF SameTouch, SameTickets, todo

LEMMA CompleteStep ==
  ASSUME TypeOK, Rest, NEW p \in Callers, Complete(p)
  PROVE  TypeOK' /\ Rest'
<1> DEFINE k == proc[p].key
           cc == proc[p].con
           dead == cc # NULL /\ wire[cc] = "down"
<1>1. /\ pc[p] = "complete"
      /\ starting' = [starting EXCEPT ![k] = FALSE]
      /\ UNCHANGED <<closed, closing, clients, document, server, enforcer, touches>>
  BY DEF Complete
<1>2. /\ Hand(p) /\ k \in Keys /\ cc \in Clients \cup {NULL} /\ (cc # NULL => key[cc] = k)
      /\ proc[p].code \in {"ok", "unavailable", "failed", "ended"} /\ (proc[p].code = "ok" <=> cc # NULL)
  BY <1>1 DEF Rest, Hands, Hand, Busy, TypeOK, Call
<1>3. PICK code \in {IF dead THEN "failed" ELSE proc[p].code, "ended"} :
       LET c == IF dead /\ code = "failed" THEN NULL ELSE cc
           left == [Cleared(p) EXCEPT !.todo = IF code = "ended" THEN {} ELSE @] IN
       /\ client' = [client EXCEPT ![k] = IF Installs(code) THEN c ELSE @]
       /\ failures' = [failures EXCEPT ![k] =
                         IF Installs(code) THEN 0 ELSE IF code = "ended" THEN @ ELSE @ + 1]
       /\ disabled' = [disabled EXCEPT ![k] =
                         /\ ~Installs(code) /\ code # "ended"
                         /\ code = "unavailable" \/ AtLimit(k)]
       /\ pc' = [q \in Callers |-> IF q = p THEN IF c = NULL THEN "next" ELSE "finish"
                                   ELSE IF Wakes(q, k) THEN "next" ELSE pc[q]]
       /\ proc' = [q \in Callers |->
                     IF q = p
                     THEN IF c = NULL THEN left
                          ELSE [proc[p] EXCEPT !.code = IF code = "ok" /\ ~Installs(code) THEN "closed" ELSE code]
                     ELSE IF Wakes(q, k) THEN [Cleared(q) EXCEPT !.todo = @ \cup {k}] ELSE proc[q]]
  BY DEF Complete
<1> DEFINE c == IF dead /\ code = "failed" THEN NULL ELSE cc
<1>4. /\ client' = [client EXCEPT ![k] = IF Installs(code) THEN c ELSE @]
      /\ failures' = [failures EXCEPT ![k] =
                        IF Installs(code) THEN 0 ELSE IF code = "ended" THEN @ ELSE @ + 1]
      /\ disabled' = [disabled EXCEPT ![k] =
                        /\ ~Installs(code) /\ code # "ended"
                        /\ code = "unavailable" \/ AtLimit(k)]
      /\ pc' = [q \in Callers |-> IF q = p THEN IF c = NULL THEN "next" ELSE "finish"
                                  ELSE IF Wakes(q, k) THEN "next" ELSE pc[q]]
  BY <1>3
<1>5. /\ pc'[p] = (IF c = NULL THEN "next" ELSE "finish")
      /\ proc'[p] = (IF c = NULL THEN [Cleared(p) EXCEPT !.todo = IF code = "ended" THEN {} ELSE @]
                     ELSE [proc[p] EXCEPT !.code = IF code = "ok" /\ ~Installs(code) THEN "closed" ELSE code])
  BY <1>3
<1>6. \A q \in Callers \ {p} :
        /\ Wakes(q, k) => pc'[q] = "next" /\ proc'[q] = [Cleared(q) EXCEPT !.todo = @ \cup {k}]
        /\ ~Wakes(q, k) => pc'[q] = pc[q] /\ proc'[q] = proc[q]
  BY <1>3
<1>7. DOMAIN proc' = Callers /\ proc' = [q \in Callers |-> proc'[q]]
  BY <1>3
<1>8. /\ code \in Codes /\ code \in {"ok", "unavailable", "failed", "ended"}
      /\ c \in {NULL, cc} /\ c \in Clients \cup {NULL}
      /\ c # NULL => c = cc /\ code \in {"ok", "ended"}
      /\ code = "ok" => c # NULL
      /\ c = NULL => cc = NULL \/ wire[cc] = "down"
  BY <1>2, <1>3 DEF Codes
<1> HIDE DEF c, dead
<1>9. /\ proc'[p] \in Call /\ SameTouch(p) /\ SameTickets(p)
      /\ proc'[p].todo \subseteq proc[p].todo
      /\ c = NULL => proc'[p].key = NULL /\ proc'[p].con = NULL
      /\ c # NULL => /\ proc'[p].key = proc[p].key /\ proc'[p].con = c
                     /\ proc'[p].code \in {"ok", "ended", "closed"}
                     /\ proc'[p].code = "ok" => Installs(code)
                     /\ proc'[p].code = "closed" => closed
  BY <1>1, <1>5, <1>8, CompleteStarter
<1>10. ASSUME NEW q \in Callers, q # p, Wakes(q, k)
       PROVE  /\ proc'[q] \in Call /\ SameTouch(q) /\ SameTickets(q)
              /\ proc'[q].todo = proc[q].todo \cup {k} /\ proc'[q].key = NULL /\ proc'[q].con = NULL
              /\ pc'[q] = "next" /\ pc[q] = "waiting" /\ proc[q].key = k
  BY <1>2, <1>6, <1>10, CompleteWaiter DEF Wakes
<1>11. /\ starting[k] /\ client[k] = NULL /\ ~disabled[k] /\ failures[k] \in 0..(FailureLimit - 1)
       /\ \A q \in Callers : Starter(q) /\ proc[q].key = k => q = p
  <2>1. starting[k] /\ \A q \in Callers : Starter(q) /\ proc[q].key = k => q = p
    BY <1>1 DEF Rest, StartsAlone, Starts, Starter
  <2> QED
    BY <1>2, <2>1 DEF Rest, Slots, Slot, TypeOK
<1>12. /\ UNCHANGED <<closed, closing, key, wire, watched, docLock, version, diag, disk, received, mistold,
                      enforcing, receipts, touches>>
  BY <1>1 DEF clients, document, server, enforcer
<1>13. /\ client' \in [Keys -> Clients \cup {NULL}] /\ client'[k] = (IF Installs(code) THEN c ELSE NULL)
       /\ \A e \in Keys \ {k} : client'[e] = client[e]
  BY <1>2, <1>4, <1>8, <1>11 DEF TypeOK
<1>14. /\ failures' \in [Keys -> 0..FailureLimit]
       /\ failures'[k] = (IF Installs(code) THEN 0 ELSE IF code = "ended" THEN failures[k] ELSE failures[k] + 1)
       /\ \A e \in Keys \ {k} : failures'[e] = failures[e]
  BY <1>2, <1>4, <1>11 DEF TypeOK
<1>15. /\ disabled' \in [Keys -> BOOLEAN]
       /\ disabled'[k] <=> /\ ~Installs(code) /\ code # "ended"
                           /\ code = "unavailable" \/ AtLimit(k)
       /\ \A e \in Keys \ {k} : disabled'[e] = disabled[e]
  <2> DEFINE b == /\ ~Installs(code) /\ code # "ended"
                  /\ code = "unavailable" \/ AtLimit(k)
  <2>1. b \in BOOLEAN /\ disabled \in [Keys -> BOOLEAN]
    BY DEF TypeOK
  <2>2. disabled' = [disabled EXCEPT ![k] = b]
    BY <1>4
  <2>3. b <=> /\ ~Installs(code) /\ code # "ended"
              /\ code = "unavailable" \/ AtLimit(k)
    OBVIOUS
  <2> HIDE DEF b
  <2>4. disabled' \in [Keys -> BOOLEAN] /\ disabled'[k] = b /\ \A e \in Keys \ {k} : disabled'[e] = disabled[e]
    BY <1>2, <2>1, <2>2
  <2> QED
    BY <2>3, <2>4
<1>16. /\ starting' \in [Keys -> BOOLEAN] /\ ~starting'[k]
       /\ \A e \in Keys \ {k} : starting'[e] = starting[e]
  BY <1>1, <1>2 DEF TypeOK
<1>17. TypeOK'
  <2>1. \A q \in Callers : proc'[q] \in Call
    BY <1>6, <1>9, <1>10 DEF TypeOK
  <2>2. proc' \in [Callers -> Call]
    BY <1>7, <2>1
  <2>3. pc' \in [Callers -> Labels]
    BY <1>4 DEF TypeOK, Labels
  <2> QED
    BY <1>12, <1>13, <1>14, <1>15, <1>16, <2>2, <2>3 DEF TypeOK
<1>18. Slots'
  <2>1. ASSUME NEW e \in Keys, e # k
        PROVE  Slot(e)'
    BY <1>12, <1>13, <1>14, <1>15, <1>16, <2>1 DEF Rest, Slots, Slot
  <2>2. ASSUME NEW e \in Keys, e = k
        PROVE  Slot(e)'
    <3>1. client'[k] # NULL => ~closed /\ ~disabled'[k] /\ key[client'[k]] = k
      BY <1>2, <1>8, <1>13, <1>15 DEF Installs
    <3>2. ~disabled'[k] => failures'[k] < FailureLimit
      BY <1>8, <1>11, <1>14, <1>15 DEF AtLimit
    <3> QED
      BY <1>12, <1>16, <2>2, <3>1, <3>2 DEF Slot
  <2> QED
    BY <2>1, <2>2 DEF Slots
<1>19. Shut'
  BY <1>12, <1>16, ShutFrame DEF Rest, Shut
<1>20. StartsAlone'
  <2>1. ASSUME NEW q \in Callers, Starter(q)'
        PROVE  q # p /\ Starter(q) /\ proc'[q] = proc[q] /\ proc[q].key \in Keys \ {k}
    <3>1. q # p /\ ~Wakes(q, k)
      BY <1>5, <1>6, <2>1 DEF Starter
    <3>2. Starter(q) /\ proc'[q] = proc[q]
      BY <1>6, <2>1, <3>1 DEF Starter
    <3> QED
      BY <1>11, <3>1, <3>2 DEF Rest, Hands, Hand, Starter, Busy
  <2> QED
    BY <1>16, <2>1 DEF Rest, StartsAlone, Starts
<1>21. Hands'
  <2>1. Hand(p)'
    <3>1. CASE c = NULL
      <4>1. pc'[p] = "next"
        BY <1>5, <3>1
      <4>2. receipts'[p] = {}
        BY <1>1, <1>2, <1>12 DEF Hand
      <4> QED
        BY <1>1, <1>2, <1>9, <3>1, <4>1, <4>2, FreeHand DEF SameTouch
    <3>2. CASE c # NULL
      <4>1. pc'[p] = "finish" /\ c = cc
        BY <1>5, <1>8, <3>2
      <4>2. receipts'[p] = {} /\ key' = key /\ closed' = closed
        BY <1>1, <1>2, <1>12 DEF Hand
      <4>3. proc'[p].code = "ok" => client'[k] = c
        BY <1>9, <1>13, <3>2
      <4> QED
        BY <1>1, <1>2, <1>9, <3>2, <4>1, <4>2, <4>3 DEF Hand, SameTouch, Busy, WithClient
    <3> QED
      BY <3>1, <3>2
  <2>2. ASSUME NEW q \in Callers, q # p, Wakes(q, k)
        PROVE  Hand(q)'
    <3>1. Hand(q) /\ receipts'[q] = {}
      BY <1>10, <1>12, <2>2 DEF Rest, Hands, Hand
    <3> QED
      BY <1>10, <2>2, <3>1, FreeHand DEF SameTouch
  <2>3. ASSUME NEW q \in Callers, q # p, ~Wakes(q, k)
        PROVE  Hand(q)'
    <3>1. Hand(q) /\ pc'[q] = pc[q] /\ proc'[q] = proc[q]
      BY <1>6, <2>3 DEF Rest, Hands
    <3>2. pc[q] = "finish" /\ proc[q].code = "ok" =>
            closed \/ client'[proc[q].key] = proc[q].con \/ wire[proc[q].con] # "up"
      <4>1. pc[q] = "finish" => proc[q].key \in Keys /\ proc[q].con # NULL
        BY <3>1 DEF Hand, Busy, WithClient
      <4> QED
        BY <1>11, <1>13, <3>1, <4>1 DEF Hand
    <3> QED
      BY <1>12, <3>1, <3>2, HandFrame
  <2> QED
    BY <2>1, <2>2, <2>3 DEF Hands
<1>22. Kept'
  <2>1. \A e \in Keys : client[e] \in Clients => client'[e] = client[e]
    BY <1>11, <1>13
  <2>2. ASSUME NEW q \in Callers, pc[q] \in Three, proc[q].con \in Clients, wire'[proc[q].con] = "up"
        PROVE  proc'[q].con = proc[q].con /\ pc'[q] \in Three
    <3>1. CASE q = p
      BY <1>5, <1>8, <1>9, <1>12, <2>2, <3>1 DEF Three
    <3>2. CASE q # p
      BY <1>6, <2>2, <3>2 DEF Three, Wakes
    <3> QED
      BY <3>1, <3>2
  <2> QED
    BY <1>12, <2>1, <2>2, KeptFrame DEF Rest
<1>23. Room'
  <2>1. ASSUME NEW q \in Callers, NEW e \in Keys,
               e \in proc'[q].todo \/ (pc'[q] \in Busy /\ proc'[q].key = e)
        PROVE  e \in proc[q].todo \/ (pc[q] \in Busy /\ proc[q].key = e)
    <3>1. CASE q = p
      BY <1>1, <1>5, <1>9, <2>1, <3>1 DEF Busy
    <3>2. CASE q # p /\ Wakes(q, k)
      BY <1>10, <2>1, <3>2 DEF Busy
    <3>3. CASE q # p /\ ~Wakes(q, k)
      BY <1>6, <2>1, <3>3
    <3> QED
      BY <3>1, <3>2, <3>3
  <2> QED
    BY <1>12, <2>1, RoomFrame DEF Rest
<1>24. LocksHold'
  <2>1. \A q \in Callers : pc'[q] \in {"notify", "undo"} => pc'[q] = pc[q] /\ proc'[q] = proc[q]
    BY <1>5, <1>6
  <2> QED
    BY <1>12, <2>1, LocksFrame DEF Rest
<1>25. Reports' /\ ToldOnce'
  BY <1>12, ReportsFrame, ToldFrame DEF Rest
<1>26. \A q \in Callers : SameTouch(q) /\ SameTickets(q)
  BY <1>6, <1>9, <1>10 DEF SameTouch, SameTickets
<1>27. TicketsSound'
  <2>1. \A q \in Callers : Tickets(q)' = Tickets(q) /\ proc'[q].text = proc[q].text
    BY <1>12, <1>26 DEF Tickets, SameTouch, SameTickets
  <2> QED
    BY <1>12, <2>1, TicketsFrame DEF Rest
<1>28. DecorationsFit'
  BY <1>26, DecorationsFrame DEF Rest, SameTouch, SameTickets
<1> QED
  BY <1>17, <1>18, <1>19, <1>20, <1>21, <1>22, <1>23, <1>24, <1>25, <1>27, <1>28 DEF Rest

-----------------------------------------------------------------------------
(* The beginning of a call, its receipt and its end.                       *)

LEMMA BeginTouchStep ==
  ASSUME TypeOK, Rest, NEW p \in Callers, BeginTouch(p)
  PROVE  TypeOK' /\ Rest'
<1>1. /\ pc[p] = "idle" /\ touches < MaxTouches /\ touches' = touches + 1 /\ Goto(p, "next")
      /\ UNCHANGED <<manager, clients, document, received, mistold, enforcer>>
  BY DEF BeginTouch
<1>2. PICK d \in Docs :
        /\ disk' = [disk EXCEPT ![d] = touches + 1]
        /\ proc' = [proc EXCEPT ![p] = [Idle EXCEPT !.doc = d, !.text = touches + 1,
                                                    !.todo = IF enforcing THEN Keys ELSE {}]]
  BY DEF BeginTouch
<1> DEFINE n == touches + 1
           todo == IF enforcing THEN Keys ELSE {}
           i == Idle
           x == [i EXCEPT !.doc = d, !.text = n, !.todo = todo]
<1>3. n \in Texts /\ todo \in SUBSET Keys /\ touches \in Nat
  BY <1>1 DEF TypeOK, Texts
<1>4. i \in Call /\ i.key = NULL /\ i.con = NULL /\ i.waits = {} /\ i.found = {} /\ i.decor = {}
  BY IdleCall
<1>5. proc' = [proc EXCEPT ![p] = x]
  BY <1>2
<1> HIDE DEF n, todo, i
<1>6. x \in Call
  BY <1>3, <1>4 DEF Call
<1>7. /\ x.doc = d /\ x.todo = todo /\ x.key = NULL /\ x.con = NULL
      /\ x.waits = {} /\ x.found = {} /\ x.decor = {}
  BY <1>4 DEF Call
<1> HIDE DEF x
<1>8. /\ proc' \in [Callers -> Call]
      /\ \A q \in Callers \ {p} : proc'[q] = proc[q]
      /\ proc'[p] = x
  BY <1>5, <1>6, Replaced
<1>9. Moved(p, "next") /\ "next" \in Labels
  BY <1>1, <1>8 DEF Moved, Goto, Labels
<1>10. /\ pc'[p] = "next" /\ pc' \in [Callers -> Labels]
       /\ \A q \in Callers \ {p} : pc'[q] = pc[q] /\ proc'[q] = proc[q]
  BY <1>9, MovedLabels
<1>11. UNCHANGED <<closed, starting, client, failures, disabled, closing, key, wire, watched,
                   docLock, version, diag, received, mistold, enforcing, receipts>>
  BY <1>1 DEF manager, clients, document, enforcer
<1>12. TypeOK'
  <2>1. disk' \in [Docs -> Texts] /\ touches' \in Texts
    BY <1>1, <1>2, <1>3 DEF TypeOK, n
  <2> QED
    BY <1>8, <1>10, <1>11, <2>1 DEF TypeOK
<1>13. Hand(p) /\ receipts[p] = {} /\ proc[p].todo = {} /\ pc[p] \notin Busy
  BY <1>1 DEF Rest, Hands, Hand, Busy
<1>14. Slots' /\ Shut'
  BY <1>11, SlotsFrame, ShutFrame DEF Rest, Shut
<1>15. StartsAlone'
  <2>1. \A q \in Callers : Starter(q)' => Starter(q) /\ proc'[q].key = proc[q].key
    BY <1>10 DEF Starter
  <2> QED
    BY <1>11, <2>1, StartsFrame DEF Rest
<1>16. Hands'
  <2>1. Hand(p)'
    BY <1>7, <1>8, <1>10, <1>11, <1>13 DEF Hand, Busy, WithClient
  <2>2. ASSUME NEW q \in Callers, q # p
        PROVE  Hand(q)'
    BY <1>10, <1>11, <2>2 DEF Rest, Hands, Hand
  <2> QED
    BY <2>1, <2>2 DEF Hands
<1>17. Kept'
  <2>1. \A q \in Callers : pc[q] \in Three => proc'[q].con = proc[q].con /\ pc'[q] \in Three
    BY <1>1, <1>10 DEF Three
  <2> QED
    BY <1>11, <2>1, KeptFrame DEF Rest
<1>18. Room'
  <2>1. ASSUME NEW k \in Keys
        PROVE  /\ IsFiniteSet(Pending(k)') /\ Cardinality(Pending(k)') <= touches'
               /\ \A c \in Clients, e \in Docs :
                    key'[c] = k => version'[c][e] + Cardinality(Pending(k)') <= touches'
    <3>1. /\ IsFiniteSet(Pending(k)) /\ Cardinality(Pending(k)) <= touches
          /\ \A c \in Clients, e \in Docs : key[c] = k => version[c][e] + Cardinality(Pending(k)) <= touches
      BY DEF Rest, Room
    <3>2. Pending(k)' \subseteq Pending(k) \cup {p}
      BY <1>10 DEF Pending
    <3>3. IsFiniteSet(Pending(k) \cup {p}) /\ Cardinality(Pending(k) \cup {p}) <= Cardinality(Pending(k)) + 1
      <4>1. /\ IsFiniteSet(Pending(k) \cup {p}) /\ Cardinality(Pending(k)) \in Nat
            /\ \/ Cardinality(Pending(k) \cup {p}) = Cardinality(Pending(k))
               \/ Cardinality(Pending(k) \cup {p}) = Cardinality(Pending(k)) + 1
        BY <3>1, FS_AddElement, FS_CardinalityType
      <4> QED
        BY <4>1
    <3>4. /\ IsFiniteSet(Pending(k)') /\ Cardinality(Pending(k)') \in Nat
          /\ Cardinality(Pending(k)) \in Nat /\ Cardinality(Pending(k)') <= Cardinality(Pending(k) \cup {p})
      BY <3>1, <3>2, <3>3, FS_Subset, FS_CardinalityType
    <3>5. Cardinality(Pending(k) \cup {p}) \in Nat
      BY <3>3, FS_CardinalityType
    <3>6. \A c \in Clients, e \in Docs : version[c][e] \in Nat
      BY DEF TypeOK, Texts
    <3> QED
      BY <1>1, <1>3, <1>11, <3>1, <3>3, <3>4, <3>5, <3>6
  <2> QED
    BY <2>1 DEF Room
<1>19. LocksHold'
  <2>1. \A q \in Callers : pc'[q] \in {"notify", "undo"} => pc'[q] = pc[q] /\ proc'[q] = proc[q]
    BY <1>10
  <2> QED
    BY <1>11, <2>1, LocksFrame DEF Rest
<1>20. Reports' /\ ToldOnce'
  BY <1>11, ReportsFrame, ToldFrame DEF Rest
<1>21. TicketsSound'
  <2>1. Tickets(p)' = {}
    BY <1>7, <1>8, <1>11, <1>13 DEF Tickets
  <2>2. \A q \in Callers \ {p} : Tickets(q)' = Tickets(q) /\ proc'[q].text = proc[q].text
    BY <1>10, <1>11 DEF Tickets
  <2> QED
    BY <1>11, <2>1, <2>2, TicketsFrame DEF Rest
<1>22. DecorationsFit'
  <2>1. \A y \in proc'[p].decor : Fits(y, proc'[p].text)
    BY <1>7, <1>8
  <2> QED
    BY <1>10, <2>1, DecorationsFrame DEF Rest
<1> QED
  BY <1>12, <1>14, <1>15, <1>16, <1>17, <1>18, <1>19, <1>20, <1>21, <1>22 DEF Rest

(* A call whose tickets change.                                            *)
LEMMA TicketMove ==
  ASSUME TypeOK, NEW p \in Callers, NEW waits \in SUBSET TicketSet, NEW found \in SUBSET TicketSet,
         proc' = [proc EXCEPT ![p].waits = waits, ![p].found = found]
  PROVE  /\ proc' \in [Callers -> Call] /\ \A q \in Callers \ {p} : proc'[q] = proc[q]
         /\ proc'[p].key = proc[p].key /\ proc'[p].con = proc[p].con /\ proc'[p].todo = proc[p].todo
         /\ SameTouch(p) /\ proc'[p].waits = waits /\ proc'[p].found = found
         /\ proc'[p].decor = proc[p].decor
<1> DEFINE y == proc[p]
           x == [y EXCEPT !.waits = waits, !.found = found]
<1>1. proc \in [Callers -> Call] /\ y \in Call
  BY DEF TypeOK
<1>2. proc' = [proc EXCEPT ![p] = x]
  BY <1>1
<1> HIDE DEF y
<1>3. x \in Call
  BY <1>1 DEF Call
<1>4. /\ x.key = y.key /\ x.con = y.con /\ x.todo = y.todo /\ x.doc = y.doc /\ x.text = y.text
      /\ x.waits = waits /\ x.found = found /\ x.decor = y.decor
  BY <1>1 DEF Call
<1> HIDE DEF x
<1>5. /\ proc' \in [Callers -> Call]
      /\ \A q \in Callers \ {p} : proc'[q] = proc[q]
      /\ proc'[p] = x
  BY <1>2, <1>3, Replaced
<1> QED
  BY <1>4, <1>5 DEF SameTouch, y

LEMMA OnlyTickets ==
  ASSUME TypeOK, NEW p \in Callers
  PROVE  /\ \A waits : [proc EXCEPT ![p].waits = waits]
                         = [proc EXCEPT ![p].waits = waits, ![p].found = proc[p].found]
         /\ \A found : [proc EXCEPT ![p].found = found]
                         = [proc EXCEPT ![p].waits = proc[p].waits, ![p].found = found]
<1> DEFINE y == proc[p]
<1>1. proc \in [Callers -> Call] /\ y \in Call
  BY DEF TypeOK
<1> HIDE DEF y
<1>2. ASSUME NEW waits
      PROVE  [y EXCEPT !.waits = waits] = [y EXCEPT !.waits = waits, !.found = y.found]
  BY <1>1 DEF Call
<1>3. ASSUME NEW found
      PROVE  [y EXCEPT !.found = found] = [y EXCEPT !.waits = y.waits, !.found = found]
  BY <1>1 DEF Call
<1> QED
  BY <1>1, <1>2, <1>3 DEF y

(* A call between its servers, or after the tool, that has no client in    *)
(* its hands.                                                              *)
LEMMA TicketStep ==
  ASSUME TypeOK, Rest, NEW p \in Callers, NEW label \in {"returned", "await"},
         pc[p] \in {"next", "returned", "await"}, Moved(p, label), SameTouch(p),
         proc'[p].key = proc[p].key, proc'[p].con = proc[p].con, proc'[p].todo = proc[p].todo,
         UNCHANGED <<manager, clients, document, server, enforcing, touches>>,
         receipts' \in [Callers -> SUBSET TicketSet],
         \A q \in Callers \ {p} : receipts'[q] = receipts[q],
         receipts'[p] # {} => enforcing /\ label = "returned",
         Tickets(p)' \subseteq Tickets(p),
         \/ proc'[p].decor = proc[p].decor
         \/ \A x \in proc'[p].decor : Fits(x, proc'[p].text)
  PROVE  TypeOK' /\ Rest'
<1>1. label \in Labels /\ label \notin Busy /\ pc[p] \notin Three
  BY DEF Labels, Busy, Three
<1>2. pc'[p] = label
  BY <1>1, MovedLabels
<1>3. UNCHANGED <<key, wire, watched, received, mistold>>
  BY DEF clients, server
<1>4. TypeOK'
  BY <1>1, <1>3, CallTypes DEF manager, TypeOK
<1>5. Hand(p) /\ proc[p].key = NULL /\ proc[p].con = NULL
  BY DEF Rest, Hands, Hand, Busy
<1>6. Hand(p)'
  BY <1>2, <1>5, FreeHand DEF SameTouch
<1>7. ~Starter(p)'
  BY <1>2 DEF Starter
<1>8. /\ \A c \in Clients : wire'[c] = "up" => wire[c] = "up"
      /\ ~enforcing => receipts'[p] = {}
      /\ \/ SameTouch(p) /\ proc'[p].decor = proc[p].decor
         \/ \A x \in proc'[p].decor : Fits(x, proc'[p].text)
      /\ label \notin {"notify", "undo"}
  BY <1>3
<1>9. Rest'
  BY <1>1, <1>3, <1>6, <1>7, <1>8, CalmMove
<1> QED
  BY <1>4, <1>9

LEMMA StoreReceiptStep ==
  ASSUME TypeOK, Rest, NEW p \in Callers, StoreReceipt(p)
  PROVE  TypeOK' /\ Rest'
<1>1. /\ pc[p] = "next" /\ Goto(p, "returned")
      /\ receipts' = [receipts EXCEPT ![p] = IF enforcing THEN proc[p].waits ELSE {}]
      /\ proc' = [proc EXCEPT ![p].waits = {}]
      /\ UNCHANGED <<manager, clients, document, server, enforcing, touches>>
  BY DEF StoreReceipt, Keeps
<1>2. proc[p].found \in SUBSET TicketSet /\ proc[p].waits \in SUBSET TicketSet /\ {} \in SUBSET TicketSet
  BY DEF TypeOK, Call
<1>3. proc' = [proc EXCEPT ![p].waits = {}, ![p].found = proc[p].found]
  BY <1>1, OnlyTickets
<1>4. /\ proc' \in [Callers -> Call] /\ \A q \in Callers \ {p} : proc'[q] = proc[q]
      /\ proc'[p].key = proc[p].key /\ proc'[p].con = proc[p].con /\ proc'[p].todo = proc[p].todo
      /\ SameTouch(p) /\ proc'[p].waits = {} /\ proc'[p].found = proc[p].found
      /\ proc'[p].decor = proc[p].decor
  BY <1>2, <1>3, TicketMove
<1>5. Moved(p, "returned")
  BY <1>1, <1>4 DEF Moved, Goto
<1>6. /\ receipts' \in [Callers -> SUBSET TicketSet]
      /\ receipts'[p] = (IF enforcing THEN proc[p].waits ELSE {})
      /\ \A q \in Callers \ {p} : receipts'[q] = receipts[q]
  BY <1>1, <1>2 DEF TypeOK
<1>7. Tickets(p)' \subseteq Tickets(p)
  BY <1>4, <1>6 DEF Tickets
<1> QED
  BY <1>1, <1>4, <1>5, <1>6, <1>7, TicketStep

LEMMA AwaitStep ==
  ASSUME TypeOK, Rest, NEW p \in Callers, Await(p)
  PROVE  TypeOK' /\ Rest'
<1>1. /\ pc[p] = "returned" /\ Goto(p, "await")
      /\ receipts' = [receipts EXCEPT ![p] = {}]
      /\ proc' = [proc EXCEPT ![p].waits = receipts[p]]
      /\ UNCHANGED <<manager, clients, document, server, enforcing, touches>>
  BY DEF Await
<1>2. proc[p].found \in SUBSET TicketSet /\ receipts[p] \in SUBSET TicketSet /\ {} \in SUBSET TicketSet
  BY DEF TypeOK, Call
<1>3. proc' = [proc EXCEPT ![p].waits = receipts[p], ![p].found = proc[p].found]
  BY <1>1, OnlyTickets
<1>4. /\ proc' \in [Callers -> Call] /\ \A q \in Callers \ {p} : proc'[q] = proc[q]
      /\ proc'[p].key = proc[p].key /\ proc'[p].con = proc[p].con /\ proc'[p].todo = proc[p].todo
      /\ SameTouch(p) /\ proc'[p].waits = receipts[p] /\ proc'[p].found = proc[p].found
      /\ proc'[p].decor = proc[p].decor
  BY <1>2, <1>3, TicketMove
<1>5. Moved(p, "await")
  BY <1>1, <1>4 DEF Moved, Goto
<1>6. /\ receipts' \in [Callers -> SUBSET TicketSet] /\ receipts'[p] = {}
      /\ \A q \in Callers \ {p} : receipts'[q] = receipts[q]
  BY <1>1, <1>2 DEF TypeOK
<1>7. Tickets(p)' \subseteq Tickets(p)
  BY <1>4, <1>6 DEF Tickets
<1> QED
  BY <1>1, <1>4, <1>5, <1>6, <1>7, TicketStep

LEMMA LookUpStep ==
  ASSUME TypeOK, Rest, NEW p \in Callers, LookUp(p)
  PROVE  TypeOK' /\ Rest'
<1>1. /\ pc[p] = "await"
      /\ UNCHANGED <<manager, clients, document, server, enforcer, touches, pc>>
  BY DEF LookUp
<1>2. PICK w \in proc[p].waits :
        proc' = [proc EXCEPT ![p].waits = @ \ {w},
                             ![p].found = IF client[w.key] = w.con THEN @ \cup {w} ELSE @]
  BY DEF LookUp
<1> DEFINE waits == proc[p].waits \ {w}
           found == IF client[w.key] = w.con THEN proc[p].found \cup {w} ELSE proc[p].found
<1>3. /\ waits \in SUBSET TicketSet /\ found \in SUBSET TicketSet
      /\ waits \cup found \subseteq proc[p].waits \cup proc[p].found
  <2>1. proc[p].waits \in SUBSET TicketSet /\ proc[p].found \in SUBSET TicketSet
    BY DEF TypeOK, Call
  <2> QED
    BY <2>1
<1>4. proc' = [proc EXCEPT ![p].waits = waits, ![p].found = found]
  BY <1>2 DEF TypeOK
<1> HIDE DEF waits, found
<1>5. /\ proc' \in [Callers -> Call] /\ \A q \in Callers \ {p} : proc'[q] = proc[q]
      /\ proc'[p].key = proc[p].key /\ proc'[p].con = proc[p].con /\ proc'[p].todo = proc[p].todo
      /\ SameTouch(p) /\ proc'[p].waits = waits /\ proc'[p].found = found
      /\ proc'[p].decor = proc[p].decor
  BY <1>3, <1>4, TicketMove
<1>6. Moved(p, "await")
  BY <1>1, <1>5 DEF Moved, TypeOK
<1>7. receipts' \in [Callers -> SUBSET TicketSet] /\ receipts' = receipts /\ enforcing' = enforcing
  BY <1>1 DEF TypeOK, enforcer
<1>8. Tickets(p)' \subseteq Tickets(p)
  BY <1>3, <1>5, <1>7 DEF Tickets
<1>9. receipts[p] = {}
  BY <1>1 DEF Rest, Hands, Hand
<1> QED
  BY <1>1, <1>5, <1>6, <1>7, <1>8, <1>9, TicketStep

LEMMA UnsettledStep ==
  ASSUME TypeOK, Rest, NEW p \in Callers, Unsettled(p)
  PROVE  TypeOK' /\ Rest'
<1>1. /\ pc[p] = "await"
      /\ UNCHANGED <<manager, clients, document, server, enforcer, touches, pc>>
  BY DEF Unsettled
<1>2. PICK w \in proc[p].found : proc' = [proc EXCEPT ![p].found = @ \ {w}]
  BY DEF Unsettled
<1> DEFINE found == proc[p].found \ {w}
<1>3. proc[p].waits \in SUBSET TicketSet /\ found \in SUBSET TicketSet /\ found \subseteq proc[p].found
  BY DEF TypeOK, Call
<1>4. proc' = [proc EXCEPT ![p].waits = proc[p].waits, ![p].found = found]
  <2>1. proc' = [proc EXCEPT ![p].found = found]
    BY <1>2 DEF TypeOK
  <2> HIDE DEF found
  <2> QED
    BY <2>1, OnlyTickets
<1> HIDE DEF found
<1>5. /\ proc' \in [Callers -> Call] /\ \A q \in Callers \ {p} : proc'[q] = proc[q]
      /\ proc'[p].key = proc[p].key /\ proc'[p].con = proc[p].con /\ proc'[p].todo = proc[p].todo
      /\ SameTouch(p) /\ proc'[p].waits = proc[p].waits /\ proc'[p].found = found
      /\ proc'[p].decor = proc[p].decor
  BY <1>3, <1>4, TicketMove
<1>6. Moved(p, "await")
  BY <1>1, <1>5 DEF Moved, TypeOK
<1>7. receipts' \in [Callers -> SUBSET TicketSet] /\ receipts' = receipts /\ enforcing' = enforcing
  BY <1>1 DEF TypeOK, enforcer
<1>8. Tickets(p)' \subseteq Tickets(p)
  BY <1>3, <1>5, <1>7 DEF Tickets
<1>9. receipts[p] = {}
  BY <1>1 DEF Rest, Hands, Hand
<1> QED
  BY <1>1, <1>5, <1>6, <1>7, <1>8, <1>9, TicketStep

LEMMA DecorateStep ==
  ASSUME TypeOK, Rest, NEW p \in Callers, Decorate(p)
  PROVE  TypeOK' /\ Rest'
<1>1. /\ pc[p] = "await"
      /\ UNCHANGED <<manager, clients, document, server, enforcer, touches, pc>>
  BY DEF Decorate
<1>2. PICK w \in proc[p].found :
        LET s == diag[w.con][w.doc] IN
        /\ Settled(w)
        /\ proc' = [proc EXCEPT ![p].found = @ \ {w},
                                ![p].decor = @ \cup {[text |-> s.values, version |-> w.version,
                                                      versioned |-> s.versioned,
                                                      misled |-> w.con \in mistold]}]
  BY DEF Decorate
<1> DEFINE s == diag[w.con][w.doc]
           misled == w.con \in mistold
           d == [text |-> s.values, version |-> w.version, versioned |-> s.versioned, misled |-> misled]
           y == proc[p]
           found == y.found \ {w}
           decor == y.decor \cup {d}
           x == [y EXCEPT !.found = found, !.decor = decor]
<1>3. w \in Tickets(p) /\ w.con \in Clients /\ w.doc \in Docs /\ w.version \in Texts /\ w.generation \in Nat
  <2>1. w \in Tickets(p)
    BY DEF Tickets
  <2> QED
    BY <2>1, TicketTypes
<1>4. Sound(p, w) /\ Report(w.con, w.doc) /\ Told(w.con, w.doc)
  BY <1>3 DEF Rest, TicketsSound, Reports, ToldOnce
<1>5. /\ s.generation \in Nat /\ s.versioned \in BOOLEAN /\ s.generation > w.generation
      /\ s.versioned => s.publication = w.version
  BY <1>2, <1>3 DEF Settled, TypeOK, DiagnosticState
<1>6. s.values \in Texts
  BY <1>3, <1>4, <1>5 DEF Report
<1>7. misled \in BOOLEAN
  OBVIOUS
<1>8. s.versioned => s.values = y.text \/ misled
  <2>1. ASSUME s.versioned, ~misled
        PROVE  s.values = y.text
    <3> DEFINE m == [version |-> w.version, text |-> s.values]
               n == [version |-> w.version, text |-> y.text]
    <3>1. m \in received[w.con][w.doc] /\ n \in received[w.con][w.doc]
      BY <1>4, <1>5, <2>1 DEF Sound, Report
    <3>2. m.version = n.version
      OBVIOUS
    <3>3. m.text = n.text
      BY <1>4, <2>1, <3>1, <3>2 DEF Told
    <3> QED
      BY <3>3
  <2> QED
    BY <2>1
<1>9. ~s.versioned => w.version = 1
  BY <1>4, <1>5 DEF Sound
<1>10. y \in Call /\ proc \in [Callers -> Call]
  BY DEF TypeOK
<1>11. proc' = [proc EXCEPT ![p] = x]
  BY <1>2, <1>10
<1>12. /\ d \in [text: Texts, version: Texts, versioned: BOOLEAN, misled: BOOLEAN]
       /\ Fits(d, y.text)
  <2> HIDE DEF s, misled, y
  <2> QED
    BY <1>3, <1>5, <1>6, <1>7, <1>8, <1>9 DEF Fits
<1> HIDE DEF d
<1>13. /\ found \in SUBSET TicketSet /\ found \subseteq y.found
       /\ decor \in SUBSET [text: Texts, version: Texts, versioned: BOOLEAN, misled: BOOLEAN]
  <2>1. y.found \in SUBSET TicketSet
        /\ y.decor \in SUBSET [text: Texts, version: Texts, versioned: BOOLEAN, misled: BOOLEAN]
    BY <1>10 DEF Call
  <2> HIDE DEF y
  <2> QED
    BY <1>12, <2>1
<1>14. \A e \in decor : Fits(e, y.text)
  <2>1. \A e \in y.decor : Fits(e, y.text)
    BY DEF Rest, DecorationsFit, Fits
  <2> HIDE DEF y
  <2> QED
    BY <1>12, <2>1
<1> HIDE DEF y, found, decor
<1>15. x \in Call
  BY <1>10, <1>13 DEF Call
<1>16. /\ x.key = y.key /\ x.con = y.con /\ x.todo = y.todo /\ x.doc = y.doc /\ x.text = y.text
       /\ x.waits = y.waits /\ x.found = found /\ x.decor = decor
  BY <1>10 DEF Call
<1> HIDE DEF x
<1>17. /\ proc' \in [Callers -> Call]
       /\ \A q \in Callers \ {p} : proc'[q] = proc[q]
       /\ proc'[p] = x
  BY <1>11, <1>15, Replaced
<1>18. Moved(p, "await")
  BY <1>1, <1>17 DEF Moved, TypeOK
<1>19. /\ receipts' \in [Callers -> SUBSET TicketSet] /\ receipts' = receipts /\ enforcing' = enforcing
       /\ receipts[p] = {}
  BY <1>1 DEF TypeOK, enforcer, Rest, Hands, Hand
<1>20. /\ SameTouch(p) /\ \A e \in proc'[p].decor : Fits(e, proc'[p].text)
       /\ proc'[p].key = proc[p].key /\ proc'[p].con = proc[p].con /\ proc'[p].todo = proc[p].todo
  BY <1>14, <1>16, <1>17 DEF SameTouch, y
<1>21. Tickets(p)' \subseteq Tickets(p)
  BY <1>13, <1>16, <1>17, <1>19 DEF Tickets, y
<1> QED
  BY <1>1, <1>18, <1>19, <1>20, <1>21, TicketStep

(* A call that ends.                                                       *)
LEMMA ReturnStep ==
  ASSUME TypeOK, Rest, NEW p \in Callers, pc[p] \in {"returned", "await"}, Return(p),
         UNCHANGED <<manager, clients, document, server, enforcing, touches>>,
         receipts' \in [Callers -> SUBSET TicketSet], receipts'[p] = {},
         \A q \in Callers \ {p} : receipts'[q] = receipts[q]
  PROVE  TypeOK' /\ Rest'
<1> DEFINE i == Idle
<1>1. i \in Call /\ i.todo = {} /\ i.key = NULL /\ i.con = NULL /\ i.waits = {} /\ i.found = {} /\ i.decor = {}
  BY IdleCall
<1>2. Goto(p, "idle") /\ proc' = [proc EXCEPT ![p] = i]
  BY DEF Return
<1> HIDE DEF i
<1>3. /\ proc' \in [Callers -> Call]
      /\ \A q \in Callers \ {p} : proc'[q] = proc[q]
      /\ proc'[p] = i
  BY <1>1, <1>2, Replaced
<1>4. Moved(p, "idle") /\ "idle" \in Labels
  BY <1>2, <1>3 DEF Moved, Goto, Labels
<1>5. pc'[p] = "idle"
  BY <1>4, MovedLabels
<1>6. UNCHANGED <<key, wire, watched, received, mistold>>
  BY DEF clients, server
<1>7. TypeOK'
  BY <1>4, <1>6, CallTypes DEF manager, TypeOK
<1>8. Hand(p)'
  BY <1>1, <1>3, <1>5 DEF Hand, Busy, WithClient
<1>9. /\ Tickets(p)' = {} /\ ~Starter(p)' /\ pc[p] \notin Three /\ "idle" \notin Busy
  BY <1>1, <1>3, <1>5 DEF Tickets, Starter, Three, Busy
<1>10. /\ \A c \in Clients : wire'[c] = "up" => wire[c] = "up"
       /\ ~enforcing => receipts'[p] = {}
       /\ \A x \in proc'[p].decor : Fits(x, proc'[p].text)
       /\ "idle" \notin {"notify", "undo"}
       /\ proc'[p].todo = {}
  BY <1>1, <1>3, <1>6
<1>11. Rest'
  BY <1>4, <1>6, <1>8, <1>9, <1>10, CalmMove
<1> QED
  BY <1>7, <1>11

LEMMA DropStep ==
  ASSUME TypeOK, Rest, NEW p \in Callers, Drop(p)
  PROVE  TypeOK' /\ Rest'
<1>1. /\ pc[p] = "returned" /\ receipts' = [receipts EXCEPT ![p] = {}] /\ Return(p)
      /\ UNCHANGED <<manager, clients, document, server, enforcing, touches>>
  BY DEF Drop
<1>2. /\ receipts' \in [Callers -> SUBSET TicketSet] /\ receipts'[p] = {}
      /\ \A q \in Callers \ {p} : receipts'[q] = receipts[q]
  BY <1>1 DEF TypeOK
<1> QED
  BY <1>1, <1>2, ReturnStep

LEMMA EndTouchStep ==
  ASSUME TypeOK, Rest, NEW p \in Callers, EndTouch(p)
  PROVE  TypeOK' /\ Rest'
<1>1. /\ pc[p] = "await" /\ Return(p)
      /\ UNCHANGED <<manager, clients, document, server, enforcer, touches>>
  BY DEF EndTouch
<1>2. /\ receipts' \in [Callers -> SUBSET TicketSet] /\ receipts' = receipts /\ receipts[p] = {}
  BY <1>1 DEF TypeOK, enforcer, Rest, Hands, Hand
<1> QED
  BY <1>1, <1>2, ReturnStep DEF enforcer

-----------------------------------------------------------------------------
(* The synchronization of a document.                                      *)

(* A call that is no starter moves on; a client that the manager lets go   *)
(* is not up any more.                                                     *)
LEMMA SyncMove ==
  ASSUME TypeOK, Rest, NEW p \in Callers, NEW label \in Labels, Moved(p, label), SameTouch(p),
         proc'[p].decor = proc[p].decor, pc[p] \notin Three, ~Starter(p)', Hand(p)',
         UNCHANGED <<closed, starting, key, receipts>>,
         \A c \in Clients : wire'[c] = "up" => wire[c] = "up",
         \A k \in Keys : client[k] \in Clients /\ wire'[client[k]] = "up" => client'[k] = client[k]
  PROVE  StartsAlone' /\ Hands' /\ Kept' /\ DecorationsFit'
<1>1. /\ pc'[p] = label
      /\ \A q \in Callers \ {p} : pc'[q] = pc[q] /\ proc'[q] = proc[q]
  BY MovedLabels
<1>2. StartsAlone'
  <2>1. \A q \in Callers : Starter(q)' => Starter(q) /\ proc'[q].key = proc[q].key
    BY <1>1 DEF Starter
  <2> QED
    BY <2>1, StartsFrame DEF Rest
<1>3. Hands'
  <2>1. ASSUME NEW q \in Callers, q # p
        PROVE  Hand(q)'
    <3>1. Hand(q) /\ pc'[q] = pc[q] /\ proc'[q] = proc[q] /\ proc[q].con \in Clients \cup {NULL}
      BY <1>1, <2>1 DEF Rest, Hands, TypeOK, Call
    <3>2. pc[q] = "finish" /\ proc[q].code = "ok" =>
            closed' \/ client'[proc[q].key] = proc[q].con \/ wire'[proc[q].con] # "up"
      <4>1. pc[q] = "finish" => proc[q].key \in Keys /\ proc[q].con \in Clients
        BY <3>1 DEF Hand, Busy, WithClient
      <4> QED
        BY <3>1, <4>1 DEF Hand
    <3> QED
      BY <3>1, <3>2, HandFrame
  <2> QED
    BY <2>1 DEF Hands
<1>4. Kept'
  <2>1. \A q \in Callers : pc[q] \in Three => proc'[q].con = proc[q].con /\ pc'[q] \in Three
    BY <1>1
  <2> QED
    BY <2>1, KeptFrame DEF Rest
<1>5. DecorationsFit'
  BY <1>1, DecorationsFrame DEF Rest, SameTouch
<1> QED
  BY <1>2, <1>3, <1>4, <1>5

(* A ticket stays sound.                                                   *)
LEMMA SoundFrame ==
  ASSUME TypeOK, NEW q \in Callers, NEW w \in TicketSet, Sound(q, w), proc'[q].text = proc[q].text,
         \A c \in Clients, d \in Docs :
           /\ received[c][d] \subseteq received'[c][d]
           /\ version'[c][d] \in Nat /\ version[c][d] <= version'[c][d]
           /\ diag'[c][d].generation = diag[c][d].generation
           /\ diag'[c][d].versioned = diag[c][d].versioned
  PROVE  Sound(q, w)'
<1>1. w.con \in Clients /\ w.doc \in Docs /\ w.version \in Nat
  BY DEF TicketSet, Texts
<1>2. version[w.con][w.doc] \in Nat
  BY <1>1 DEF TypeOK, Texts
<1> QED
  BY <1>1, <1>2 DEF Sound

(* One document of one client is announced, or taken back.                 *)
Announces(c, d, v) == diag' = [diag EXCEPT ![c][d].document = v]
LEMMA DocumentMove ==
  ASSUME TypeOK, NEW c \in Clients, NEW d \in Docs, NEW v \in Texts, Announces(c, d, v)
  PROVE  /\ diag' \in [Clients -> [Docs -> DiagnosticState]]
         /\ diag'[c][d].document = v
         /\ \A e \in Clients, f \in Docs :
              /\ diag'[e][f].generation = diag[e][f].generation
              /\ diag'[e][f].versioned = diag[e][f].versioned
              /\ diag'[e][f].values = diag[e][f].values
              /\ diag'[e][f].publication = diag[e][f].publication
              /\ e # c \/ f # d => diag'[e][f] = diag[e][f]
<1> DEFINE s == diag[c][d]
           x == [s EXCEPT !.document = v]
           row == [diag[c] EXCEPT ![d] = x]
<1>1. diag \in [Clients -> [Docs -> DiagnosticState]] /\ s \in DiagnosticState
  BY DEF TypeOK
<1>2. diag' = [diag EXCEPT ![c] = row]
  BY <1>1 DEF Announces
<1> HIDE DEF s
<1>3. x \in DiagnosticState
  BY <1>1 DEF DiagnosticState
<1>4. /\ x.document = v /\ x.generation = s.generation /\ x.versioned = s.versioned
      /\ x.values = s.values /\ x.publication = s.publication
  BY <1>1 DEF DiagnosticState
<1> HIDE DEF x
<1>5. /\ row \in [Docs -> DiagnosticState] /\ row[d] = x
      /\ \A f \in Docs \ {d} : row[f] = diag[c][f]
  BY <1>1, <1>3
<1> HIDE DEF row
<1>6. /\ diag' \in [Clients -> [Docs -> DiagnosticState]] /\ diag'[c] = row
      /\ \A e \in Clients \ {c} : diag'[e] = diag[e]
  BY <1>1, <1>2, <1>5
<1>7. ASSUME NEW e \in Clients, NEW f \in Docs
      PROVE  /\ diag'[e][f].generation = diag[e][f].generation
             /\ diag'[e][f].versioned = diag[e][f].versioned
             /\ diag'[e][f].values = diag[e][f].values
             /\ diag'[e][f].publication = diag[e][f].publication
             /\ e # c \/ f # d => diag'[e][f] = diag[e][f]
  <2>1. CASE e = c /\ f = d
    BY <1>4, <1>5, <1>6, <2>1 DEF s
  <2>2. CASE e # c \/ f # d
    BY <1>5, <1>6, <2>2
  <2> QED
    BY <2>1, <2>2
<1>8. diag'[c][d].document = v
  BY <1>4, <1>5, <1>6
<1> QED
  BY <1>6, <1>7, <1>8

(* A call that will still synchronize has room for it.                     *)
LEMMA RoomLeft ==
  ASSUME TypeOK, Room, NEW p \in Callers, NEW c \in Clients, NEW d \in Docs,
         key[c] \in Keys, p \in Pending(key[c])
  PROVE  version[c][d] + 1 \in Texts /\ version[c][d] + 1 <= touches /\ version[c][d] \in Nat
<1> DEFINE k == key[c]
<1>1. /\ IsFiniteSet(Pending(k)) /\ version[c][d] + Cardinality(Pending(k)) <= touches
  BY DEF Room
<1>2. Cardinality(Pending(k)) \in Nat /\ Cardinality(Pending(k)) # 0
  BY <1>1, FS_CardinalityType, FS_EmptySet
<1>3. version[c][d] \in Nat /\ touches \in Nat /\ touches <= MaxTouches
  BY DEF TypeOK, Texts
<1> QED
  BY <1>1, <1>2, <1>3 DEF Texts

LEMMA PrepareStep ==
  ASSUME TypeOK, Rest, NEW p \in Callers, Prepare(p)
  PROVE  TypeOK' /\ Rest'
<1>1. /\ pc[p] = "sync" /\ docLock[proc[p].con] = NULL /\ Goto(p, "notify")
      /\ UNCHANGED <<manager, clients, version, server, enforcer, touches>>
  BY DEF Prepare
<1>2. Hand(p) /\ receipts[p] = {}
  BY <1>1 DEF Rest, Hands, Hand
<1>3. PICK c \in Clients, d \in Docs : c = proc[p].con /\ d = proc[p].doc
  BY <1>1, <1>2 DEF Hand, WithClient, TypeOK, Call
<1> DEFINE s == diag[c][d]
           v == version[c][d] + 1
           prev == s.document
           gen == s.generation
           y == proc[p]
           x == [y EXCEPT !.version = v, !.previous = prev, !.generation = gen]
<1>4. /\ docLock' = [docLock EXCEPT ![c] = p]
      /\ diag' = [diag EXCEPT ![c][d].document = v]
      /\ proc' = [proc EXCEPT ![p].version = v, ![p].previous = prev, ![p].generation = gen]
  BY <1>3 DEF Prepare
<1>5. v \in Texts /\ version[c][d] \in Nat
  <2>1. key[c] = proc[p].key /\ proc[p].key \in Keys /\ p \in Pending(key[c])
    BY <1>1, <1>2, <1>3 DEF Hand, Busy, Pending
  <2> QED
    BY <2>1, RoomLeft DEF Rest
<1>6. prev \in Texts /\ gen \in Nat
  BY DEF TypeOK, DiagnosticState
<1>7. y \in Call /\ proc \in [Callers -> Call]
  BY DEF TypeOK
<1>8. proc' = [proc EXCEPT ![p] = x]
  BY <1>4, <1>7
<1>9. Report(c, d)
  BY DEF Rest, Reports
<1>10. version[c][d] <= prev
  BY <1>9 DEF Report
<1> HIDE DEF v, prev, gen, y
<1>11. x \in Call
  BY <1>5, <1>6, <1>7 DEF Call
<1>12. /\ x.version = v /\ x.previous = prev /\ x.generation = gen
       /\ x.doc = y.doc /\ x.text = y.text /\ x.todo = y.todo /\ x.key = y.key /\ x.con = y.con
       /\ x.waits = y.waits /\ x.found = y.found /\ x.decor = y.decor
  BY <1>7 DEF Call
<1> HIDE DEF x
<1>13. /\ proc' \in [Callers -> Call]
       /\ \A q \in Callers \ {p} : proc'[q] = proc[q]
       /\ proc'[p] = x
  BY <1>8, <1>11, Replaced
<1>14. Moved(p, "notify") /\ "notify" \in Labels
  BY <1>1, <1>13 DEF Moved, Goto, Labels
<1>15. /\ pc'[p] = "notify" /\ pc' \in [Callers -> Labels]
       /\ \A q \in Callers \ {p} : pc'[q] = pc[q] /\ proc'[q] = proc[q]
  BY <1>14, MovedLabels
<1>16. /\ diag' \in [Clients -> [Docs -> DiagnosticState]]
       /\ diag'[c][d].document = v
       /\ \A e \in Clients, f \in Docs :
            /\ diag'[e][f].generation = diag[e][f].generation
            /\ diag'[e][f].versioned = diag[e][f].versioned
            /\ diag'[e][f].values = diag[e][f].values
            /\ diag'[e][f].publication = diag[e][f].publication
            /\ e # c \/ f # d => diag'[e][f] = diag[e][f]
  <2>1. v \in Texts /\ Announces(c, d, v)
    BY <1>4, <1>5 DEF Announces
  <2> QED
    BY <2>1, DocumentMove
<1>17. UNCHANGED <<closed, starting, client, failures, disabled, closing, key, wire, watched,
                   version, disk, received, mistold, enforcing, receipts, touches>>
  BY <1>1 DEF manager, clients, server, enforcer
<1>18. /\ docLock' \in [Clients -> Callers \cup {NULL}] /\ docLock'[c] = p
       /\ \A e \in Clients \ {c} : docLock'[e] = docLock[e]
  BY <1>4 DEF TypeOK
<1>19. TypeOK'
  BY <1>13, <1>15, <1>16, <1>17, <1>18 DEF TypeOK
<1>20. Slots' /\ Shut'
  BY <1>17, SlotsFrame, ShutFrame DEF Rest, Shut
<1>21. StartsAlone' /\ Hands' /\ Kept' /\ DecorationsFit'
  <2>1. Hand(p)'
    BY <1>1, <1>2, <1>12, <1>13, <1>15, <1>17 DEF Hand, Busy, WithClient, y
  <2>2. SameTouch(p) /\ proc'[p].decor = proc[p].decor
    BY <1>12, <1>13 DEF SameTouch, y
  <2>3. pc[p] \notin Three /\ ~Starter(p)'
    BY <1>1, <1>15 DEF Three, Starter
  <2> QED
    BY <1>14, <1>17, <2>1, <2>2, <2>3, SyncMove
<1>22. Room'
  <2>1. ASSUME NEW q \in Callers, NEW k \in Keys, k \in proc'[q].todo \/ (pc'[q] \in Busy /\ proc'[q].key = k)
        PROVE  k \in proc[q].todo \/ (pc[q] \in Busy /\ proc[q].key = k)
    <3>1. CASE q = p
      BY <1>1, <1>12, <1>13, <1>15, <2>1, <3>1 DEF Busy, y
    <3>2. CASE q # p
      BY <1>15, <2>1, <3>2
    <3> QED
      BY <3>1, <3>2
  <2> QED
    BY <1>17, <2>1, RoomFrame DEF Rest
<1>23. LocksHold'
  <2>1. ASSUME NEW q \in Callers, pc'[q] \in {"notify", "undo"}, q # p
        PROVE  Locked(q)'
    <3>1. pc'[q] = pc[q] /\ proc'[q] = proc[q] /\ Locked(q)
      BY <1>15, <2>1 DEF Rest, LocksHold
    <3>2. proc[q].con \in Clients /\ proc[q].doc \in Docs /\ docLock[proc[q].con] = q
      BY <2>1, <3>1 DEF Locked, Rest, Hands, Hand, WithClient, TypeOK, Call
    <3>3. proc[q].con # c
      BY <1>1, <1>3, <3>2
    <3> QED
      BY <1>16, <1>17, <1>18, <2>1, <3>1, <3>2, <3>3 DEF Locked
  <2>2. Locked(p)'
    <3>1. proc'[p].con = c /\ proc'[p].doc = d
      BY <1>3, <1>12, <1>13 DEF y
    <3>2. proc'[p].version = v /\ proc'[p].previous = prev /\ proc'[p].generation = gen
      BY <1>12, <1>13
    <3>3. diag'[c][d].generation = gen
      BY <1>16 DEF gen
    <3>4. v = version'[c][d] + 1 /\ version'[c][d] <= prev
      BY <1>10, <1>17 DEF v
    <3> QED
      BY <1>5, <1>6, <1>15, <1>16, <1>18, <3>1, <3>2, <3>3, <3>4 DEF Locked, Texts
  <2> QED
    BY <2>1, <2>2 DEF LocksHold, Locked
<1>24. Reports'
  <2>1. ASSUME NEW e \in Clients, NEW f \in Docs
        PROVE  Report(e, f)'
    <3>1. Report(e, f)
      BY DEF Rest, Reports
    <3>2. version'[e][f] <= diag'[e][f].document
      <4>1. CASE e = c /\ f = d
        BY <1>5, <1>16, <1>17, <4>1 DEF v
      <4>2. CASE e # c \/ f # d
        BY <1>16, <1>17, <3>1, <4>2 DEF Report
      <4> QED
        BY <4>1, <4>2
    <3> QED
      BY <1>16, <1>17, <3>1, <3>2 DEF Report
  <2> QED
    BY <2>1 DEF Reports
<1>25. ToldOnce'
  BY <1>17, ToldFrame DEF Rest
<1>26. TicketsSound'
  <2>1. ASSUME NEW q \in Callers, NEW w \in Tickets(q)'
        PROVE  Sound(q, w)'
    <3>1. w \in Tickets(q) /\ proc'[q].text = proc[q].text
      BY <1>12, <1>13, <1>17 DEF Tickets, y
    <3>2. Sound(q, w) /\ w \in TicketSet
      BY <3>1, TicketTypes DEF Rest, TicketsSound
    <3>3. \A e \in Clients, f \in Docs : version[e][f] \in Nat
      BY DEF TypeOK, Texts
    <3> QED
      BY <1>16, <1>17, <3>1, <3>2, <3>3, SoundFrame
  <2> QED
    BY <2>1 DEF TicketsSound
<1> QED
  BY <1>19, <1>20, <1>21, <1>22, <1>23, <1>24, <1>25, <1>26 DEF Rest

LEMMA RollbackStep ==
  ASSUME TypeOK, Rest, NEW p \in Callers, Rollback(p)
  PROVE  TypeOK' /\ Rest'
<1>1. /\ pc[p] = "undo" /\ NextServer(p)
      /\ UNCHANGED <<manager, clients, version, server, enforcer, touches>>
  BY DEF Rollback
<1>2. Hand(p) /\ receipts[p] = {}
  BY <1>1 DEF Rest, Hands, Hand
<1>3. PICK c \in Clients, d \in Docs : c = proc[p].con /\ d = proc[p].doc
  BY <1>1, <1>2 DEF Hand, WithClient, TypeOK, Call
<1> DEFINE prev == proc[p].previous
           x == Cleared(p)
<1>4. Announces(c, d, prev) /\ docLock' = [docLock EXCEPT ![c] = NULL]
  BY <1>3 DEF Rollback, Restored, Announces
<1>5. prev \in Texts
  BY DEF TypeOK, Call
<1>6. docLock[c] = p /\ version[c][d] <= prev
  BY <1>1, <1>3 DEF Rest, LocksHold, Locked
<1>7. /\ x \in Call /\ x.doc = proc[p].doc /\ x.text = proc[p].text /\ x.todo = proc[p].todo
      /\ x.key = NULL /\ x.con = NULL
      /\ x.waits = proc[p].waits /\ x.found = proc[p].found /\ x.decor = proc[p].decor
  BY ClearedCall
<1>8. Goto(p, "next") /\ proc' = [proc EXCEPT ![p] = x]
  BY <1>1 DEF NextServer
<1> HIDE DEF x, prev
<1>9. /\ proc' \in [Callers -> Call]
      /\ \A q \in Callers \ {p} : proc'[q] = proc[q]
      /\ proc'[p] = x
  BY <1>7, <1>8, Replaced
<1>10. Moved(p, "next") /\ "next" \in Labels
  BY <1>8, <1>9 DEF Moved, Goto, Labels
<1>11. /\ pc'[p] = "next" /\ pc' \in [Callers -> Labels]
       /\ \A q \in Callers \ {p} : pc'[q] = pc[q] /\ proc'[q] = proc[q]
  BY <1>10, MovedLabels
<1>12. /\ diag' \in [Clients -> [Docs -> DiagnosticState]]
       /\ diag'[c][d].document = prev
       /\ \A e \in Clients, f \in Docs :
            /\ diag'[e][f].generation = diag[e][f].generation
            /\ diag'[e][f].versioned = diag[e][f].versioned
            /\ diag'[e][f].values = diag[e][f].values
            /\ diag'[e][f].publication = diag[e][f].publication
            /\ e # c \/ f # d => diag'[e][f] = diag[e][f]
  BY <1>4, <1>5, DocumentMove
<1>13. UNCHANGED <<closed, starting, client, failures, disabled, closing, key, wire, watched,
                   version, disk, received, mistold, enforcing, receipts, touches>>
  BY <1>1 DEF manager, clients, server, enforcer
<1>14. /\ docLock' \in [Clients -> Callers \cup {NULL}]
       /\ \A e \in Clients \ {c} : docLock'[e] = docLock[e]
  BY <1>4 DEF TypeOK
<1>15. TypeOK'
  BY <1>9, <1>11, <1>12, <1>13, <1>14 DEF TypeOK
<1>16. Slots' /\ Shut'
  BY <1>13, SlotsFrame, ShutFrame DEF Rest, Shut
<1>17. StartsAlone' /\ Hands' /\ Kept' /\ DecorationsFit'
  <2>1. Hand(p)'
    BY <1>1, <1>2, <1>7, <1>9, <1>11, <1>13, FreeHand
  <2>2. SameTouch(p) /\ proc'[p].decor = proc[p].decor
    BY <1>7, <1>9 DEF SameTouch
  <2>3. pc[p] \notin Three /\ ~Starter(p)'
    BY <1>1, <1>11 DEF Three, Starter
  <2> QED
    BY <1>10, <1>13, <2>1, <2>2, <2>3, SyncMove
<1>18. Room'
  <2>1. ASSUME NEW q \in Callers, NEW k \in Keys, k \in proc'[q].todo \/ (pc'[q] \in Busy /\ proc'[q].key = k)
        PROVE  k \in proc[q].todo \/ (pc[q] \in Busy /\ proc[q].key = k)
    <3>1. CASE q = p
      BY <1>7, <1>9, <1>11, <2>1, <3>1 DEF Busy
    <3>2. CASE q # p
      BY <1>11, <2>1, <3>2
    <3> QED
      BY <3>1, <3>2
  <2> QED
    BY <1>13, <2>1, RoomFrame DEF Rest
<1>19. LocksHold'
  <2>1. ASSUME NEW q \in Callers, pc'[q] \in {"notify", "undo"}
        PROVE  Locked(q)'
    <3>1. q # p /\ pc'[q] = pc[q] /\ proc'[q] = proc[q] /\ Locked(q)
      BY <1>11, <2>1 DEF Rest, LocksHold
    <3>2. proc[q].con \in Clients /\ proc[q].doc \in Docs /\ docLock[proc[q].con] = q
      BY <2>1, <3>1 DEF Locked, Rest, Hands, Hand, WithClient, TypeOK, Call
    <3>3. proc[q].con # c
      BY <1>6, <3>1, <3>2
    <3> QED
      BY <1>12, <1>13, <1>14, <2>1, <3>1, <3>2, <3>3 DEF Locked
  <2> QED
    BY <2>1 DEF LocksHold, Locked
<1>20. Reports'
  <2>1. ASSUME NEW e \in Clients, NEW f \in Docs
        PROVE  Report(e, f)'
    <3>1. Report(e, f)
      BY DEF Rest, Reports
    <3>2. version'[e][f] <= diag'[e][f].document
      <4>1. CASE e = c /\ f = d
        BY <1>6, <1>12, <1>13, <4>1
      <4>2. CASE e # c \/ f # d
        BY <1>12, <1>13, <3>1, <4>2 DEF Report
      <4> QED
        BY <4>1, <4>2
    <3> QED
      BY <1>12, <1>13, <3>1, <3>2 DEF Report
  <2> QED
    BY <2>1 DEF Reports
<1>21. ToldOnce'
  BY <1>13, ToldFrame DEF Rest
<1>22. TicketsSound'
  <2>1. ASSUME NEW q \in Callers, NEW w \in Tickets(q)'
        PROVE  Sound(q, w)'
    <3>1. w \in Tickets(q) /\ proc'[q].text = proc[q].text
      BY <1>7, <1>9, <1>13 DEF Tickets
    <3>2. Sound(q, w) /\ w \in TicketSet
      BY <3>1, TicketTypes DEF Rest, TicketsSound
    <3>3. \A e \in Clients, f \in Docs : version[e][f] \in Nat
      BY DEF TypeOK, Texts
    <3> QED
      BY <1>12, <1>13, <3>1, <3>2, <3>3, SoundFrame
  <2> QED
    BY <2>1 DEF TicketsSound
<1> QED
  BY <1>15, <1>16, <1>17, <1>18, <1>19, <1>20, <1>21, <1>22 DEF Rest

(* The server receives one text more.                                      *)
LEMMA ReceivesMove ==
  ASSUME TypeOK, NEW p \in Callers, NEW c \in Clients, NEW d \in Docs,
         c = proc[p].con, d = proc[p].doc, Receives(p)
  PROVE  LET m == [version |-> proc[p].version, text |-> proc[p].text] IN
         /\ received' \in [Clients -> [Docs -> SUBSET [version: Texts, text: Texts]]]
         /\ received'[c][d] = received[c][d] \cup {m}
         /\ \A e \in Clients, f \in Docs :
              /\ received[e][f] \subseteq received'[e][f]
              /\ e # c \/ f # d => received'[e][f] = received[e][f]
<1> DEFINE m == [version |-> proc[p].version, text |-> proc[p].text]
           M == [version: Texts, text: Texts]
           more == received[c][d] \cup {m}
           row == [received[c] EXCEPT ![d] = more]
<1>1. received \in [Clients -> [Docs -> SUBSET M]] /\ m \in M
  BY DEF TypeOK, Call
<1>2. received' = [received EXCEPT ![c] = row]
  BY <1>1 DEF Receives
<1> HIDE DEF m, M
<1>3. more \in SUBSET M /\ received[c][d] \subseteq more
  BY <1>1
<1> HIDE DEF more
<1>4. row \in [Docs -> SUBSET M] /\ row[d] = more /\ \A f \in Docs \ {d} : row[f] = received[c][f]
  BY <1>1, <1>3
<1> HIDE DEF row
<1>5. /\ received' \in [Clients -> [Docs -> SUBSET M]] /\ received'[c] = row
      /\ \A e \in Clients \ {c} : received'[e] = received[e]
  BY <1>1, <1>2, <1>4
<1> QED
  BY <1>3, <1>4, <1>5 DEF more, m, M

(* The version of one document is raised.                                  *)
Raises(c, d, v) == version' = [version EXCEPT ![c] = [version[c] EXCEPT ![d] = v]]
LEMMA VersionMove ==
  ASSUME TypeOK, NEW c \in Clients, NEW d \in Docs, NEW v \in Texts, Raises(c, d, v)
  PROVE  /\ version' \in [Clients -> [Docs -> Texts]]
         /\ version'[c][d] = v
         /\ \A e \in Clients, f \in Docs : e # c \/ f # d => version'[e][f] = version[e][f]
<1> DEFINE row == [version[c] EXCEPT ![d] = v]
<1>1. version \in [Clients -> [Docs -> Texts]]
  BY DEF TypeOK
<1>2. row \in [Docs -> Texts] /\ row[d] = v /\ \A f \in Docs \ {d} : row[f] = version[c][f]
  BY <1>1
<1>3. version' = [version EXCEPT ![c] = row]
  BY DEF Raises
<1> HIDE DEF row
<1>4. /\ version' \in [Clients -> [Docs -> Texts]] /\ version'[c] = row
      /\ \A e \in Clients \ {c} : version'[e] = version[e]
  BY <1>1, <1>2, <1>3
<1> QED
  BY <1>2, <1>4

(* The ticket of a call that has told its server.                          *)
LEMMA TicketOf ==
  ASSUME TypeOK, NEW p \in Callers, proc[p].key \in Keys, proc[p].con \in Clients, proc[p].doc \in Docs
  PROVE  LET x == [Cleared(p) EXCEPT !.waits = @ \cup {Ticket(p)}] IN
         /\ Ticket(p) \in TicketSet
         /\ x \in Call /\ x.doc = proc[p].doc /\ x.text = proc[p].text /\ x.todo = proc[p].todo
         /\ x.key = NULL /\ x.con = NULL
         /\ x.waits = proc[p].waits \cup {Ticket(p)} /\ x.found = proc[p].found /\ x.decor = proc[p].decor
<1> DEFINE t == Ticket(p)
           r == Cleared(p)
           waits == r.waits \cup {t}
           x == [r EXCEPT !.waits = waits]
<1>1. proc[p] \in Call
  BY DEF TypeOK
<1>2. t \in TicketSet
  BY <1>1 DEF Call, Ticket, TicketSet
<1>3. /\ r \in Call
      /\ r.doc = proc[p].doc /\ r.text = proc[p].text
      /\ r.todo = proc[p].todo
      /\ r.key = NULL /\ r.con = NULL
      /\ r.waits = proc[p].waits /\ r.found = proc[p].found
      /\ r.decor = proc[p].decor
  BY ClearedCall
<1> HIDE DEF t, r
<1>4. waits \in SUBSET TicketSet
  BY <1>2, <1>3 DEF Call
<1>5. [r EXCEPT !.waits = @ \cup {t}] = x
  BY <1>3 DEF Call
<1> HIDE DEF waits
<1>6. x \in Call
  BY <1>3, <1>4 DEF Call
<1>7. /\ x.doc = r.doc /\ x.text = r.text /\ x.todo = r.todo /\ x.key = r.key /\ x.con = r.con
      /\ x.waits = waits /\ x.found = r.found /\ x.decor = r.decor
  BY <1>3 DEF Call
<1> HIDE DEF x
<1> QED
  BY <1>2, <1>3, <1>5, <1>6, <1>7 DEF waits, t, r

LEMMA NotifyDocumentStep ==
  ASSUME TypeOK, Rest, NEW p \in Callers, NotifyDocument(p)
  PROVE  TypeOK' /\ Rest'
<1>1. /\ pc[p] = "notify" /\ Receives(p) /\ Goto(p, "next")
      /\ UNCHANGED <<manager, clients, diag, disk, mistold, enforcer, touches>>
  BY DEF NotifyDocument
<1>2. Hand(p) /\ receipts[p] = {} /\ Locked(p)
  BY <1>1 DEF Rest, Hands, Hand, LocksHold
<1>3. PICK c \in Clients, d \in Docs : c = proc[p].con /\ d = proc[p].doc
  BY <1>1, <1>2 DEF Hand, WithClient, TypeOK, Call
<1> DEFINE k == key[c]
           v == proc[p].version
           t == Ticket(p)
           x == [Cleared(p) EXCEPT !.waits = @ \cup {t}]
           m == [version |-> v, text |-> proc[p].text]
<1>4. /\ wire[c] = "up"
      /\ Raises(c, d, v)
      /\ docLock' = [docLock EXCEPT ![c] = NULL]
      /\ proc' = [proc EXCEPT ![p] = x]
  BY <1>3 DEF NotifyDocument, TypeOK, Raises
<1>5. /\ docLock[c] = p /\ v = version[c][d] + 1 /\ v <= diag[c][d].document
      /\ diag[c][d].generation > proc[p].generation /\ ~diag[c][d].versioned => v = 1
  BY <1>1, <1>2, <1>3 DEF Locked
<1>6. v \in Texts /\ version[c][d] \in Nat /\ v \in Nat
  <2>1. v \in Texts
    BY DEF TypeOK, Call
  <2>2. version[c][d] \in Texts
    BY DEF TypeOK
  <2> QED
    BY <2>1, <2>2 DEF Texts
<1>7. /\ k = proc[p].key /\ k \in Keys /\ k \notin proc[p].todo
  BY <1>1, <1>2, <1>3 DEF Hand, Busy
<1>8. /\ t \in TicketSet /\ t.con = c /\ t.doc = d /\ t.version = v /\ t.generation = proc[p].generation
      /\ x \in Call /\ x.doc = proc[p].doc /\ x.text = proc[p].text /\ x.todo = proc[p].todo
      /\ x.key = NULL /\ x.con = NULL
      /\ x.waits = proc[p].waits \cup {t} /\ x.found = proc[p].found /\ x.decor = proc[p].decor
  <2>1. t.con = c /\ t.doc = d /\ t.version = v /\ t.generation = proc[p].generation
    BY <1>3 DEF Ticket
  <2> QED
    BY <1>3, <1>7, <2>1, TicketOf
<1> HIDE DEF x, t
<1>9. /\ proc' \in [Callers -> Call]
      /\ \A q \in Callers \ {p} : proc'[q] = proc[q]
      /\ proc'[p] = x
  BY <1>4, <1>8, Replaced
<1>10. Moved(p, "next") /\ "next" \in Labels
  BY <1>1, <1>9 DEF Moved, Goto, Labels
<1>11. /\ pc'[p] = "next" /\ pc' \in [Callers -> Labels]
       /\ \A q \in Callers \ {p} : pc'[q] = pc[q] /\ proc'[q] = proc[q]
  BY <1>10, MovedLabels
<1>12. /\ version' \in [Clients -> [Docs -> Texts]]
       /\ version'[c][d] = v
       /\ \A e \in Clients, f \in Docs : e # c \/ f # d => version'[e][f] = version[e][f]
  BY <1>4, <1>6, VersionMove
<1>13. /\ received' \in [Clients -> [Docs -> SUBSET [version: Texts, text: Texts]]]
       /\ received'[c][d] = received[c][d] \cup {m}
       /\ \A e \in Clients, f \in Docs :
            /\ received[e][f] \subseteq received'[e][f]
            /\ e # c \/ f # d => received'[e][f] = received[e][f]
  BY <1>1, <1>3, ReceivesMove
<1>14. UNCHANGED <<closed, starting, client, failures, disabled, closing, key, wire, watched,
                   diag, disk, mistold, enforcing, receipts, touches>>
  BY <1>1 DEF manager, clients, enforcer
<1>15. /\ docLock' \in [Clients -> Callers \cup {NULL}]
       /\ \A e \in Clients \ {c} : docLock'[e] = docLock[e]
  BY <1>4 DEF TypeOK
<1>16. TypeOK'
  BY <1>9, <1>11, <1>12, <1>13, <1>14, <1>15 DEF TypeOK
<1>17. \A e \in Clients, f \in Docs : version'[e][f] \in Nat /\ version[e][f] <= version'[e][f]
  <2>1. \A e \in Clients, f \in Docs : version'[e][f] \in Nat /\ version[e][f] \in Nat
    BY <1>12 DEF TypeOK, Texts
  <2>2. version[c][d] <= version'[c][d]
    BY <1>5, <1>6, <1>12
  <2> QED
    BY <1>12, <2>1, <2>2
<1>18. Slots' /\ Shut'
  BY <1>14, SlotsFrame, ShutFrame DEF Rest, Shut
<1>19. StartsAlone' /\ Hands' /\ Kept' /\ DecorationsFit'
  <2>1. Hand(p)'
    BY <1>1, <1>2, <1>8, <1>9, <1>11, <1>14, FreeHand
  <2>2. SameTouch(p) /\ proc'[p].decor = proc[p].decor
    BY <1>8, <1>9 DEF SameTouch
  <2>3. pc[p] \notin Three /\ ~Starter(p)'
    BY <1>1, <1>11 DEF Three, Starter
  <2> QED
    BY <1>10, <1>14, <2>1, <2>2, <2>3, SyncMove
<1>20. Room'
  <2>1. ASSUME NEW h \in Keys
        PROVE  /\ IsFiniteSet(Pending(h)') /\ Cardinality(Pending(h)') <= touches
               /\ \A e \in Clients, f \in Docs :
                    key[e] = h => version'[e][f] + Cardinality(Pending(h)') <= touches
    <3>1. /\ IsFiniteSet(Pending(h)) /\ Cardinality(Pending(h)) <= touches
          /\ \A e \in Clients, f \in Docs : key[e] = h => version[e][f] + Cardinality(Pending(h)) <= touches
      BY DEF Rest, Room
    <3>2. CASE h = k
      <4>1. Pending(h)' = Pending(h) \ {p} /\ p \in Pending(h)
        BY <1>1, <1>7, <1>8, <1>9, <1>11, <3>2 DEF Pending, Busy
      <4>2. /\ IsFiniteSet(Pending(h)') /\ Cardinality(Pending(h)') = Cardinality(Pending(h)) - 1
            /\ Cardinality(Pending(h)) \in Nat
        BY <3>1, <4>1, FS_RemoveElement, FS_CardinalityType
      <4>3. touches \in Nat /\ \A e \in Clients, f \in Docs : version[e][f] \in Nat
        BY DEF TypeOK, Texts
      <4>4. ASSUME NEW e \in Clients, NEW f \in Docs
            PROVE  version'[e][f] <= version[e][f] + 1 /\ version'[e][f] \in Nat
        BY <1>5, <1>6, <1>12, <4>3
      <4> QED
        BY <3>1, <4>2, <4>3, <4>4
    <3>3. CASE h # k
      <4>1. Pending(h)' = Pending(h)
        BY <1>1, <1>7, <1>8, <1>9, <1>11, <3>3 DEF Pending, Busy
      <4> QED
        BY <1>12, <3>1, <3>3, <4>1
    <3> QED
      BY <3>2, <3>3
  <2> QED
    BY <1>14, <2>1 DEF Room
<1>21. LocksHold'
  <2>1. ASSUME NEW q \in Callers, pc'[q] \in {"notify", "undo"}
        PROVE  Locked(q)'
    <3>1. q # p /\ pc'[q] = pc[q] /\ proc'[q] = proc[q] /\ Locked(q)
      BY <1>11, <2>1 DEF Rest, LocksHold
    <3>2. proc[q].con \in Clients /\ proc[q].doc \in Docs /\ docLock[proc[q].con] = q
      BY <2>1, <3>1 DEF Locked, Rest, Hands, Hand, WithClient, TypeOK, Call
    <3>3. proc[q].con # c
      BY <1>5, <3>1, <3>2
    <3> QED
      BY <1>12, <1>14, <1>15, <2>1, <3>1, <3>2, <3>3 DEF Locked
  <2> QED
    BY <2>1 DEF LocksHold, Locked
<1>22. Reports'
  <2>1. ASSUME NEW e \in Clients, NEW f \in Docs
        PROVE  Report(e, f)'
    <3>1. Report(e, f) /\ received[e][f] \subseteq received'[e][f]
      BY <1>13 DEF Rest, Reports
    <3>2. version'[e][f] <= diag[e][f].document
      <4>1. CASE e = c /\ f = d
        BY <1>5, <1>12, <4>1
      <4>2. CASE e # c \/ f # d
        BY <1>12, <3>1, <4>2 DEF Report
      <4> QED
        BY <4>1, <4>2
    <3> QED
      BY <1>14, <3>1, <3>2 DEF Report
  <2> QED
    BY <2>1 DEF Reports
<1>23. ToldOnce'
  <2>1. ASSUME NEW e \in Clients, NEW f \in Docs
        PROVE  Told(e, f)'
    <3>1. Told(e, f)
      BY DEF Rest, ToldOnce
    <3>2. CASE e = c /\ f = d
      <4>1. m.version = v
        OBVIOUS
      <4> HIDE DEF m
      <4>2. ASSUME c \notin mistold
            PROVE  /\ \A n \in received[c][d] : n.version \in Nat /\ n.version <= version[c][d]
                   /\ \A n, o \in received[c][d] : n.version = o.version => n.text = o.text
        <5>1. \A n \in received[c][d] : n.version \in Nat
          BY DEF TypeOK, Texts
        <5> QED
          BY <1>4, <3>1, <3>2, <4>2, <5>1 DEF Told
      <4> QED
        <5>1. mistold' = mistold /\ received'[c][d] = received[c][d] \cup {m} /\ version'[c][d] = v
          BY <1>12, <1>13, <1>14
        <5>2. v = version[c][d] + 1 /\ version[c][d] \in Nat
          BY <1>5, <1>6
        <5> HIDE DEF v
        <5>3. ASSUME c \notin mistold
              PROVE  \A n, o \in received[c][d] \cup {m} : n.version = o.version => n.text = o.text
          BY <4>1, <4>2, <5>2, <5>3
        <5>4. ASSUME c \notin mistold
              PROVE  \A n \in received[c][d] \cup {m} : n.version <= v
          BY <4>1, <4>2, <5>2, <5>4
        <5> QED
          BY <3>2, <5>1, <5>3, <5>4 DEF Told
    <3>3. CASE e # c \/ f # d
      BY <1>12, <1>13, <1>14, <3>1, <3>3 DEF Told
    <3> QED
      BY <3>2, <3>3
  <2> QED
    BY <2>1 DEF ToldOnce
<1>24. TicketsSound'
  <2>1. ASSUME NEW q \in Callers, NEW w \in Tickets(q)'
        PROVE  Sound(q, w)'
    <3>1. proc'[q].text = proc[q].text
      BY <1>8, <1>9
    <3>2. CASE w \in Tickets(q)
      <4>1. Sound(q, w) /\ w \in TicketSet
        BY <3>2, TicketTypes DEF Rest, TicketsSound
      <4> QED
        BY <1>13, <1>14, <1>17, <3>1, <4>1, SoundFrame
    <3>3. CASE w \notin Tickets(q)
      <4>1. q = p /\ w = t
        BY <1>8, <1>9, <1>14, <2>1, <3>3 DEF Tickets
      <4>2. m \in received'[c][d] /\ 1 <= v
        BY <1>5, <1>6, <1>13
      <4> QED
        BY <1>5, <1>6, <1>8, <1>12, <1>14, <3>1, <4>1, <4>2 DEF Sound
    <3> QED
      BY <3>2, <3>3
  <2> QED
    BY <2>1 DEF TicketsSound
<1> QED
  BY <1>16, <1>18, <1>19, <1>20, <1>21, <1>22, <1>23, <1>24 DEF Rest

-----------------------------------------------------------------------------
(* Failures, connections and processes.                                    *)

(* A connection that is cut is not up, and no other one comes up.          *)
LEMMA CutMove ==
  ASSUME TypeOK, NEW c \in Clients, Cut(c)
  PROVE  /\ wire' \in [Clients -> {"up", "cut", "down"}]
         /\ wire'[c] # "up"
         /\ \A e \in Clients : wire'[e] = "up" => wire[e] = "up"
BY DEF TypeOK, Cut

(* A failure takes from a server at most the client that failed, and only  *)
(* when it has disconnected or the server is disabled.                     *)
LEMMA FailureMove ==
  ASSUME TypeOK, Slots, NEW c \in Clients, NEW disconnected \in BOOLEAN,
         RecordFailure(c, disconnected), UNCHANGED <<closed, starting, key>>
  PROVE  /\ client' \in [Keys -> Clients \cup {NULL}]
         /\ failures' \in [Keys -> 0..FailureLimit]
         /\ disabled' \in [Keys -> BOOLEAN]
         /\ \A k \in Keys : client'[k] # client[k] => client[k] = c /\ (disconnected \/ Disables(c))
         /\ Slots'
<1>1. /\ client \in [Keys -> Clients \cup {NULL}] /\ failures \in [Keys -> 0..FailureLimit]
      /\ disabled \in [Keys -> BOOLEAN]
  BY DEF TypeOK
<1>2. CASE UNCHANGED <<client, failures, disabled>>
  BY <1>1, <1>2 DEF Slots, Slot
<1>3. CASE Counts(c) /\ key[c] \in Keys
  <2> DEFINE k == key[c]
             limit == AtLimit(k)
             new == Detached(c, disconnected)
             more == disabled[k] \/ limit
  <2>1. /\ client[k] = c /\ ~closed /\ c # NULL
        /\ ~starting[k] /\ ~disabled[k] /\ failures[k] < FailureLimit
    BY <1>3 DEF Counts, Slots, Slot
  <2>2. /\ failures' = [failures EXCEPT ![k] = failures[k] + 1]
        /\ client' = [client EXCEPT ![k] = new]
        /\ disabled' = [disabled EXCEPT ![k] = more]
    BY <1>1, <1>3 DEF RecordFailure
  <2>3. /\ new \in {c, NULL} /\ (new = NULL <=> disconnected \/ limit)
        /\ more \in BOOLEAN /\ (more <=> limit)
    BY <2>1 DEF Detached, AtLimit
  <2>4. failures[k] + 1 \in 0..FailureLimit /\ (~limit => failures[k] + 1 < FailureLimit)
    BY <1>1, <1>3, <2>1 DEF AtLimit
  <2>5. Disables(c) <=> limit
    BY <1>3 DEF Disables
  <2> HIDE DEF new, more, limit
  <2>6. /\ client' \in [Keys -> Clients \cup {NULL}] /\ client'[k] = new
        /\ failures' \in [Keys -> 0..FailureLimit] /\ failures'[k] = failures[k] + 1
        /\ disabled' \in [Keys -> BOOLEAN] /\ disabled'[k] = more
        /\ \A h \in Keys \ {k} : /\ client'[h] = client[h] /\ failures'[h] = failures[h]
                                 /\ disabled'[h] = disabled[h]
    BY <1>1, <1>3, <2>2, <2>3, <2>4
  <2>7. \A h \in Keys : client'[h] # client[h] => client[h] = c /\ (disconnected \/ Disables(c))
    BY <2>1, <2>3, <2>5, <2>6
  <2>8. ASSUME NEW h \in Keys
        PROVE  Slot(h)'
    <3>1. CASE h = k
      <4>1. client'[h] # NULL => client'[h] = c /\ ~disabled'[h]
        BY <2>3, <2>6, <3>1
      <4>2. ~disabled'[h] => failures'[h] < FailureLimit
        BY <2>3, <2>4, <2>6, <3>1
      <4> QED
        BY <2>1, <3>1, <4>1, <4>2 DEF Slot
    <3>2. CASE h # k
      BY <2>6, <3>2 DEF Slots, Slot
    <3> QED
      BY <3>1, <3>2
  <2> QED
    BY <2>6, <2>7, <2>8 DEF Slots
<1>4. CASE Counts(c) /\ key[c] \notin Keys
  <2> DEFINE k == key[c]
             more == failures[k] + 1
             new == Detached(c, disconnected)
             off == disabled[k] \/ AtLimit(k)
  <2>1. /\ failures' = [failures EXCEPT ![k] = more]
        /\ client' = [client EXCEPT ![k] = new]
        /\ disabled' = [disabled EXCEPT ![k] = off]
    BY <1>4 DEF RecordFailure
  <2>2. k \notin Keys
    BY <1>4
  <2> HIDE DEF k, more, new, off
  <2>3. failures' = failures /\ client' = client /\ disabled' = disabled
    BY <1>1, <2>1, <2>2
  <2> QED
    BY <1>2, <2>3
<1> QED
  BY <1>2, <1>3, <1>4 DEF RecordFailure

(* A process or its connection ends, and the manager may take note of it.  *)
LEMMA WireMove ==
  ASSUME TypeOK, Rest,
         UNCHANGED <<closed, starting, closing, key, document, server, enforcer, touches, pc, proc>>,
         client' \in [Keys -> Clients \cup {NULL}], failures' \in [Keys -> 0..FailureLimit],
         disabled' \in [Keys -> BOOLEAN], Slots',
         wire' \in [Clients -> {"up", "cut", "down"}], watched' \in SUBSET Clients,
         \A c \in Clients : wire'[c] = "up" => wire[c] = "up",
         \A k \in Keys : client[k] \in Clients /\ wire'[client[k]] = "up" =>
           closed \/ client'[k] = client[k]
  PROVE  TypeOK' /\ Rest'
<1>1. UNCHANGED <<docLock, version, diag, disk, received, mistold, enforcing, receipts>>
  BY DEF document, server, enforcer
<1>2. TypeOK'
  BY <1>1 DEF TypeOK
<1>3. Shut'
  BY <1>1, ShutFrame DEF Rest, Shut
<1>4. StartsAlone'
  BY StartsFrame DEF Rest, Starter
<1>5. Hands'
  <2>1. ASSUME NEW q \in Callers
        PROVE  Hand(q)'
    <3>1. Hand(q) /\ proc[q].con \in Clients \cup {NULL}
      BY DEF Rest, Hands, TypeOK, Call
    <3>2. pc[q] = "finish" => proc[q].key \in Keys /\ proc[q].con \in Clients
      BY <3>1 DEF Hand, Busy, WithClient
    <3>3. pc[q] = "finish" /\ proc[q].code = "ok" =>
            closed' \/ client'[proc[q].key] = proc[q].con \/ wire'[proc[q].con] # "up"
      BY <3>1, <3>2 DEF Hand
    <3> QED
      BY <1>1, <3>1, <3>3, HandFrame
  <2> QED
    BY <2>1 DEF Hands
<1>6. Kept'
  BY KeptFrame DEF Rest
<1>7. Room'
  BY <1>1, RoomFrame DEF Rest
<1>8. LocksHold' /\ Reports' /\ ToldOnce'
  BY <1>1, LocksFrame, ReportsFrame, ToldFrame DEF Rest
<1>9. TicketsSound'
  <2>1. \A q \in Callers : Tickets(q)' \subseteq Tickets(q) /\ proc'[q].text = proc[q].text
    BY <1>1 DEF Tickets
  <2> QED
    BY <1>1, <2>1, TicketsFrame DEF Rest
<1>10. DecorationsFit'
  BY DecorationsFrame DEF Rest
<1> QED
  BY <1>2, <1>3, <1>4, <1>5, <1>6, <1>7, <1>8, <1>9, <1>10 DEF Rest

LEMMA GarbleStep ==
  ASSUME TypeOK, Rest, NEW c \in Clients, Garble(c)
  PROVE  TypeOK' /\ Rest'
<1>1. /\ RecordFailure(c, FALSE)
      /\ IF Disables(c) THEN Cut(c) ELSE UNCHANGED wire
      /\ UNCHANGED <<closed, starting, closing, key, watched, document, server, enforcer, touches, pc, proc>>
  BY DEF Garble
<1>2. /\ client' \in [Keys -> Clients \cup {NULL}]
      /\ failures' \in [Keys -> 0..FailureLimit]
      /\ disabled' \in [Keys -> BOOLEAN]
      /\ \A k \in Keys : client'[k] # client[k] => client[k] = c /\ Disables(c)
      /\ Slots'
  BY <1>1, FailureMove DEF Rest
<1>3. /\ wire' \in [Clients -> {"up", "cut", "down"}]
      /\ \A e \in Clients : wire'[e] = "up" => wire[e] = "up"
      /\ Disables(c) => wire'[c] # "up"
  BY <1>1, CutMove DEF TypeOK
<1>4. watched' \in SUBSET Clients
  BY <1>1 DEF TypeOK
<1>5. \A k \in Keys : client[k] \in Clients /\ wire'[client[k]] = "up" => client'[k] = client[k]
  BY <1>2, <1>3
<1> QED
  BY <1>1, <1>2, <1>3, <1>4, <1>5, WireMove

(* The connection or the process of a client ends.                         *)
LEMMA ProcessStep ==
  ASSUME TypeOK, Rest, NEW c \in Clients, Exit(c) \/ Lifecycle(c) \/ Reap(c)
  PROVE  TypeOK' /\ Rest'
<1>1. UNCHANGED <<manager, key, watched, document, server, enforcer, touches, pc, proc>>
  BY DEF Exit, Lifecycle, Reap
<1>2. /\ wire' \in [Clients -> {"up", "cut", "down"}]
      /\ \A e \in Clients : wire'[e] = "up" => wire[e] = "up"
  <2>1. CASE Cut(c)
    BY <2>1, CutMove
  <2>2. CASE Reap(c)
    BY <2>2 DEF TypeOK, Reap
  <2> QED
    BY <2>1, <2>2 DEF Exit, Lifecycle
<1>3. UNCHANGED <<closed, starting, client, failures, disabled, closing>>
  BY <1>1 DEF manager
<1>4. /\ client' \in [Keys -> Clients \cup {NULL}] /\ failures' \in [Keys -> 0..FailureLimit]
      /\ disabled' \in [Keys -> BOOLEAN] /\ watched' \in SUBSET Clients
  BY <1>1, <1>3 DEF TypeOK
<1>5. Slots'
  BY <1>1, <1>3, SlotsFrame DEF Rest
<1> QED
  BY <1>1, <1>2, <1>3, <1>4, <1>5, WireMove

LEMMA WatchStep ==
  ASSUME TypeOK, Rest, NEW c \in Clients, Watch(c)
  PROVE  TypeOK' /\ Rest'
<1>1. /\ RecordFailure(c, TRUE) /\ watched' = watched \ {c}
      /\ wire[c] = "down" \/ closed
      /\ UNCHANGED <<closed, starting, closing, key, wire, document, server, enforcer, touches, pc, proc>>
  BY DEF Watch
<1>2. /\ client' \in [Keys -> Clients \cup {NULL}]
      /\ failures' \in [Keys -> 0..FailureLimit]
      /\ disabled' \in [Keys -> BOOLEAN]
      /\ \A k \in Keys : client'[k] # client[k] => client[k] = c
      /\ Slots'
  BY <1>1, FailureMove DEF Rest
<1>3. wire' \in [Clients -> {"up", "cut", "down"}] /\ watched' \in SUBSET Clients
  BY <1>1 DEF TypeOK
<1>4. \A k \in Keys : client[k] \in Clients /\ wire'[client[k]] = "up" =>
        closed \/ client'[k] = client[k]
  BY <1>1, <1>2
<1> QED
  BY <1>1, <1>2, <1>3, <1>4, WireMove

(* A notification that fails, in each of its ways.                         *)
LEMMA NotifyFailsStep ==
  ASSUME TypeOK, Rest, NEW p \in Callers, NotifyFails(p)
  PROVE  TypeOK' /\ Rest'
<1>1. /\ pc[p] = "notify" /\ Goto(p, "undo")
      /\ UNCHANGED <<closed, starting, closing, key, watched, document, disk, enforcer, touches>>
  BY DEF NotifyFails
<1>2. Hand(p) /\ receipts[p] = {} /\ Locked(p)
  BY <1>1 DEF Rest, Hands, Hand, LocksHold
<1>3. PICK c \in Clients, d \in Docs : c = proc[p].con /\ d = proc[p].doc
  BY <1>1, <1>2 DEF Hand, WithClient, TypeOK, Call
<1>4. PICK sent \in BOOLEAN, cut \in BOOLEAN, counts \in BOOLEAN :
        /\ sent => wire[c] = "up"
        /\ IF sent THEN Receives(p) ELSE UNCHANGED received
        /\ mistold' = IF sent /\ ~cut THEN mistold \cup {c} ELSE mistold
        /\ IF counts THEN RecordFailure(c, FALSE) ELSE UNCHANGED <<client, failures, disabled>>
        /\ IF cut \/ (counts /\ Disables(c)) THEN Cut(c) ELSE UNCHANGED wire
        /\ proc' = [proc EXCEPT ![p].todo = IF counts THEN @ ELSE {}]
  BY <1>3 DEF NotifyFails
<1> DEFINE y == proc[p]
           todo == IF counts THEN y.todo ELSE {}
           x == [y EXCEPT !.todo = todo]
           m == [version |-> y.version, text |-> y.text]
<1>5. /\ docLock[c] = p /\ version[c][d] <= y.previous /\ y.version = version[c][d] + 1
  BY <1>1, <1>2, <1>3 DEF Locked
<1>6. y \in Call /\ proc \in [Callers -> Call]
  BY DEF TypeOK
<1>7. proc' = [proc EXCEPT ![p] = x]
  BY <1>4, <1>6
<1>8. todo \subseteq y.todo /\ todo \in SUBSET Keys
  BY <1>6 DEF Call
<1> HIDE DEF y, todo
<1>9. /\ x \in Call
      /\ x.doc = y.doc /\ x.text = y.text /\ x.todo = todo /\ x.key = y.key /\ x.con = y.con
      /\ x.version = y.version /\ x.previous = y.previous /\ x.generation = y.generation
      /\ x.waits = y.waits /\ x.found = y.found /\ x.decor = y.decor
  BY <1>6, <1>8 DEF Call
<1> HIDE DEF x
<1>10. /\ proc' \in [Callers -> Call]
       /\ \A q \in Callers \ {p} : proc'[q] = proc[q]
       /\ proc'[p] = x
  BY <1>7, <1>9, Replaced
<1>11. Moved(p, "undo") /\ "undo" \in Labels
  BY <1>1, <1>10 DEF Moved, Goto, Labels
<1>12. /\ pc'[p] = "undo" /\ pc' \in [Callers -> Labels]
       /\ \A q \in Callers \ {p} : pc'[q] = pc[q] /\ proc'[q] = proc[q]
  BY <1>11, MovedLabels
<1>13. UNCHANGED <<docLock, version, diag, enforcing, receipts>>
  BY <1>1 DEF document, enforcer
<1>14. /\ client' \in [Keys -> Clients \cup {NULL}]
       /\ failures' \in [Keys -> 0..FailureLimit]
       /\ disabled' \in [Keys -> BOOLEAN]
       /\ \A k \in Keys : client'[k] # client[k] => client[k] = c /\ counts /\ Disables(c)
       /\ Slots'
  <2>1. CASE counts
    <3>1. RecordFailure(c, FALSE)
      BY <1>4, <2>1
    <3> QED
      BY <1>1, <2>1, <3>1, FailureMove DEF Rest
  <2>2. CASE ~counts
    <3>1. UNCHANGED <<client, failures, disabled>>
      BY <1>4, <2>2
    <3>2. UNCHANGED <<closed, starting, client, failures, disabled>> /\ key' = key
      BY <1>1, <3>1
    <3>3. Slots'
      BY <3>2, SlotsFrame DEF Rest
    <3> QED
      BY <3>1, <3>3 DEF TypeOK
  <2> QED
    BY <2>1, <2>2
<1>15. /\ wire' \in [Clients -> {"up", "cut", "down"}]
       /\ \A e \in Clients : wire'[e] = "up" => wire[e] = "up"
       /\ cut \/ (counts /\ Disables(c)) => wire'[c] # "up"
  BY <1>4, CutMove DEF TypeOK
<1>16. /\ received' \in [Clients -> [Docs -> SUBSET [version: Texts, text: Texts]]]
       /\ received'[c][d] = IF sent THEN received[c][d] \cup {m} ELSE received[c][d]
       /\ \A e \in Clients, f \in Docs :
            /\ received[e][f] \subseteq received'[e][f]
            /\ e # c \/ f # d => received'[e][f] = received[e][f]
  <2>1. CASE sent
    <3>1. Receives(p)
      BY <1>4, <2>1
    <3> QED
      BY <1>3, <2>1, <3>1, ReceivesMove DEF y
  <2>2. CASE ~sent
    BY <1>4, <2>2 DEF TypeOK
  <2> QED
    BY <2>1, <2>2
<1>17. mistold' \in SUBSET Clients /\ mistold \subseteq mistold' /\ (sent /\ ~cut => c \in mistold')
  BY <1>4 DEF TypeOK
<1>18. TypeOK'
  BY <1>1, <1>10, <1>12, <1>13, <1>14, <1>15, <1>16, <1>17 DEF TypeOK
<1>19. Shut'
  BY <1>1, <1>13, ShutFrame DEF Rest, Shut
<1>20. StartsAlone' /\ Hands' /\ Kept' /\ DecorationsFit'
  <2>1. Hand(p)'
    BY <1>1, <1>2, <1>8, <1>9, <1>10, <1>12, <1>13 DEF Hand, Busy, WithClient, y
  <2>2. SameTouch(p) /\ proc'[p].decor = proc[p].decor
    BY <1>9, <1>10 DEF SameTouch, y
  <2>3. pc[p] \notin Three /\ ~Starter(p)'
    BY <1>1, <1>12 DEF Three, Starter
  <2>4. \A k \in Keys : client[k] \in Clients /\ wire'[client[k]] = "up" => client'[k] = client[k]
    BY <1>14, <1>15
  <2> QED
    BY <1>1, <1>11, <1>13, <1>15, <2>1, <2>2, <2>3, <2>4, SyncMove
<1>21. Room'
  <2>1. ASSUME NEW q \in Callers, NEW k \in Keys, k \in proc'[q].todo \/ (pc'[q] \in Busy /\ proc'[q].key = k)
        PROVE  k \in proc[q].todo \/ (pc[q] \in Busy /\ proc[q].key = k)
    <3>1. CASE q = p
      BY <1>1, <1>8, <1>9, <1>10, <1>12, <2>1, <3>1 DEF Busy, y
    <3>2. CASE q # p
      BY <1>12, <2>1, <3>2
    <3> QED
      BY <3>1, <3>2
  <2> QED
    BY <1>1, <1>13, <2>1, RoomFrame DEF Rest
<1>22. LocksHold'
  <2>1. ASSUME NEW q \in Callers
        PROVE  Locked(q)'
    <3>1. Locked(q)
      BY DEF Rest, LocksHold
    <3>2. CASE q = p
      <4>1. proc'[p].con = c /\ proc'[p].doc = d /\ proc'[p].previous = y.previous
        BY <1>3, <1>9, <1>10 DEF y
      <4> QED
        BY <1>5, <1>12, <1>13, <3>2, <4>1 DEF Locked
    <3>3. CASE q # p
      BY <1>12, <1>13, <3>1, <3>3 DEF Locked
    <3> QED
      BY <3>2, <3>3
  <2> QED
    BY <2>1 DEF LocksHold
<1>23. Reports'
  BY <1>13, <1>16 DEF Rest, Reports, Report
<1>24. ToldOnce'
  <2>1. ASSUME NEW e \in Clients, NEW f \in Docs, e \notin mistold'
        PROVE  /\ \A n, o \in received'[e][f] : n.version = o.version => n.text = o.text
               /\ wire'[e] = "up" => \A n \in received'[e][f] : n.version <= version'[e][f]
    <3>1. Told(e, f) /\ e \notin mistold
      BY <1>17, <2>1 DEF Rest, ToldOnce
    <3>2. CASE received'[e][f] = received[e][f]
      BY <1>13, <1>15, <3>1, <3>2 DEF Told
    <3>3. CASE received'[e][f] # received[e][f]
      <4>1. e = c /\ f = d /\ sent /\ cut
        BY <1>16, <1>17, <2>1, <3>3
      <4>2. wire[c] = "up" /\ wire'[c] # "up" /\ received'[c][d] = received[c][d] \cup {m}
        BY <1>4, <1>15, <1>16, <4>1
      <4>3. \A n \in received[c][d] : n.version \in Nat /\ n.version <= version[c][d]
        BY <3>1, <4>1, <4>2 DEF Told, TypeOK, Texts
      <4>4. \A n, o \in received[c][d] : n.version = o.version => n.text = o.text
        BY <3>1, <4>1 DEF Told
      <4>5. m.version = version[c][d] + 1 /\ version[c][d] \in Nat
        BY <1>5 DEF TypeOK, Texts
      <4> HIDE DEF m
      <4> QED
        BY <4>1, <4>2, <4>3, <4>4, <4>5
    <3> QED
      BY <3>2, <3>3
  <2> QED
    BY <2>1 DEF ToldOnce, Told
<1>25. TicketsSound'
  <2>1. ASSUME NEW q \in Callers, NEW w \in Tickets(q)'
        PROVE  Sound(q, w)'
    <3>1. w \in Tickets(q) /\ proc'[q].text = proc[q].text
      BY <1>9, <1>10, <1>13 DEF Tickets, y
    <3>2. Sound(q, w) /\ w \in TicketSet
      BY <3>1, TicketTypes DEF Rest, TicketsSound
    <3>3. \A e \in Clients, f \in Docs : version[e][f] \in Nat
      BY DEF TypeOK, Texts
    <3> QED
      BY <1>13, <1>16, <3>1, <3>2, <3>3, SoundFrame
  <2> QED
    BY <2>1 DEF TicketsSound
<1> QED
  BY <1>14, <1>18, <1>19, <1>20, <1>21, <1>22, <1>23, <1>24, <1>25 DEF Rest

-----------------------------------------------------------------------------
(* The reports of a server.                                                *)

Learns(c, d, x) == diag' = [diag EXCEPT ![c] = [diag[c] EXCEPT ![d] = x]]
LEMMA ReportMove ==
  ASSUME TypeOK, NEW c \in Clients, NEW d \in Docs, NEW x \in DiagnosticState, Learns(c, d, x)
  PROVE  /\ diag' \in [Clients -> [Docs -> DiagnosticState]]
         /\ diag'[c][d] = x
         /\ \A e \in Clients, f \in Docs : e # c \/ f # d => diag'[e][f] = diag[e][f]
<1> DEFINE row == [diag[c] EXCEPT ![d] = x]
<1>1. diag \in [Clients -> [Docs -> DiagnosticState]]
  BY DEF TypeOK
<1>2. row \in [Docs -> DiagnosticState] /\ row[d] = x /\ \A f \in Docs \ {d} : row[f] = diag[c][f]
  BY <1>1
<1>3. diag' = [diag EXCEPT ![c] = row]
  BY DEF Learns
<1> HIDE DEF row
<1>4. /\ diag' \in [Clients -> [Docs -> DiagnosticState]] /\ diag'[c] = row
      /\ \A e \in Clients \ {c} : diag'[e] = diag[e]
  BY <1>1, <1>2, <1>3
<1> QED
  BY <1>2, <1>4

(* A report is on a text of the server, by its version, or without one and *)
(* on a document of which no second version was announced.                 *)
LEMMA PublishStep ==
  ASSUME TypeOK, Rest, NEW c \in Clients, NEW d \in Docs, Publish(c, d)
  PROVE  TypeOK' /\ Rest'
<1> DEFINE s == diag[c][d]
<1>1. PICK m \in received[c][d], versioned \in BOOLEAN :
        /\ IF versioned THEN m.version > 0 ELSE m.version = 0 /\ Unversioned
        /\ Accepts(s, m, versioned)
        /\ diag' = [diag EXCEPT ![c][d] =
                      [document |-> @.document, generation |-> @.generation + 1, values |-> m.text,
                       publication |-> IF versioned THEN m.version ELSE 0, versioned |-> versioned]]
  BY DEF Publish
<1> DEFINE pub == IF versioned THEN m.version ELSE 0
           gen == s.generation + 1
           x == [document |-> s.document, generation |-> gen, values |-> m.text,
                 publication |-> pub, versioned |-> versioned]
<1>2. /\ diag \in [Clients -> [Docs -> DiagnosticState]] /\ s \in DiagnosticState
      /\ m \in [version: Texts, text: Texts] /\ received[c][d] \subseteq [version: Texts, text: Texts]
  BY DEF TypeOK
<1>3. Learns(c, d, x)
  BY <1>1, <1>2 DEF Learns
<1>4. gen \in Nat /\ gen > 0 /\ pub \in Texts /\ s.document \in Texts /\ m.text \in Texts
  BY <1>2 DEF DiagnosticState, Texts
<1>5. versioned => m = [version |-> pub, text |-> m.text]
  BY <1>2
<1>6. ~versioned => s.document <= 1
  BY <1>1 DEF Accepts
<1> HIDE DEF s, pub, gen
<1>7. /\ x \in DiagnosticState
      /\ x.document = s.document /\ x.generation = gen /\ x.values = m.text
      /\ x.publication = pub /\ x.versioned = versioned
  BY <1>4 DEF DiagnosticState
<1> HIDE DEF x
<1>8. /\ diag' \in [Clients -> [Docs -> DiagnosticState]]
      /\ diag'[c][d] = x
      /\ \A e \in Clients, f \in Docs : e # c \/ f # d => diag'[e][f] = diag[e][f]
  BY <1>3, <1>7, ReportMove
<1>9. UNCHANGED <<closed, starting, client, failures, disabled, closing, key, wire, watched, docLock,
                  version, disk, received, mistold, enforcing, receipts, touches, pc, proc>>
  BY DEF Publish, manager, clients, server, enforcer
<1>10. TypeOK'
  BY <1>8, <1>9 DEF TypeOK
<1>11. Slots' /\ Shut' /\ StartsAlone'
  BY <1>9, SlotsFrame, ShutFrame, StartsFrame DEF Rest, Shut, Starter
<1>12. Hands'
  BY <1>9 DEF Rest, Hands, Hand
<1>13. Kept' /\ Room' /\ ToldOnce' /\ DecorationsFit'
  BY <1>9, KeptFrame, RoomFrame, ToldFrame, DecorationsFrame DEF Rest
<1>14. Report(c, d) /\ version[c][d] \in Nat /\ s.document \in Nat
  BY <1>4 DEF Rest, Reports, TypeOK, Texts
<1>15. LocksHold'
  <2>1. ASSUME NEW q \in Callers, pc[q] \in {"notify", "undo"}
        PROVE  Locked(q)'
    <3>1. Locked(q) /\ proc[q].con \in Clients /\ proc[q].doc \in Docs /\ proc[q].version \in Nat
      <4>1. Locked(q) /\ Hand(q) /\ proc[q] \in Call
        BY DEF Rest, LocksHold, Hands, TypeOK
      <4>2. proc[q].con \in Clients \cup {NULL} /\ proc[q].doc \in Docs \cup {NULL}
            /\ proc[q].version \in Texts
        BY <4>1 DEF Call
      <4>3. proc[q].version \in Nat
        BY <4>2 DEF Texts
      <4> QED
        BY <2>1, <4>1, <4>2, <4>3 DEF Hand, WithClient
    <3>2. CASE proc[q].con = c /\ proc[q].doc = d
      <4>1. pc[q] = "notify" => proc[q].version = version[c][d] + 1 /\ proc[q].version <= s.document
        BY <3>1, <3>2 DEF Locked, s
      <4>2. pc[q] = "notify" /\ ~versioned => proc[q].version = 1
        BY <1>6, <1>14, <3>1, <4>1
      <4> QED
        BY <1>7, <1>8, <1>9, <2>1, <3>1, <3>2, <4>1, <4>2 DEF Locked
    <3>3. CASE ~(proc[q].con = c /\ proc[q].doc = d)
      BY <1>8, <1>9, <3>1, <3>3 DEF Locked
    <3> QED
      BY <3>2, <3>3
  <2> QED
    BY <1>9, <2>1 DEF LocksHold, Locked
<1>16. Reports'
  <2>1. ASSUME NEW e \in Clients, NEW f \in Docs
        PROVE  Report(e, f)'
    <3>1. CASE e = c /\ f = d
      <4>1. version[c][d] <= s.document
        BY <1>14 DEF Report, s
      <4>2. versioned => [version |-> pub, text |-> m.text] \in received[c][d]
        BY <1>1, <1>5
      <4> QED
        BY <1>4, <1>7, <1>8, <1>9, <3>1, <4>1, <4>2 DEF Report
    <3>2. CASE e # c \/ f # d
      BY <1>8, <1>9, <3>2 DEF Rest, Reports, Report
    <3> QED
      BY <3>1, <3>2
  <2> QED
    BY <2>1 DEF Reports
<1>17. TicketsSound'
  <2>1. ASSUME NEW q \in Callers, NEW w \in Tickets(q)'
        PROVE  Sound(q, w)'
    <3>1. w \in Tickets(q) /\ proc'[q].text = proc[q].text
      BY <1>9 DEF Tickets
    <3>2. Sound(q, w) /\ w.con \in Clients /\ w.doc \in Docs /\ w.version \in Nat
      BY <3>1, TicketTypes DEF Rest, TicketsSound, Texts
    <3>3. CASE w.con = c /\ w.doc = d
      <4>1. 1 <= w.version /\ w.version <= version[c][d] /\ version[c][d] <= s.document
        BY <1>14, <3>2, <3>3 DEF Sound, Report, s
      <4>2. ~versioned => w.version = 1
        BY <1>6, <1>14, <3>2, <4>1
      <4> QED
        BY <1>7, <1>8, <1>9, <3>1, <3>2, <3>3, <4>2 DEF Sound
    <3>4. CASE ~(w.con = c /\ w.doc = d)
      BY <1>8, <1>9, <3>1, <3>2, <3>4 DEF Sound
    <3> QED
      BY <3>3, <3>4
  <2> QED
    BY <2>1 DEF TicketsSound
<1> QED
  BY <1>10, <1>11, <1>12, <1>13, <1>15, <1>16, <1>17 DEF Rest

-----------------------------------------------------------------------------
(* Close.                                                                  *)

LEMMA CloseEnforcerStep ==
  ASSUME TypeOK, Rest, CloseEnforcer
  PROVE  TypeOK' /\ Rest'
<1>1. /\ enforcing' = FALSE /\ receipts' = [q \in Callers |-> {}]
      /\ UNCHANGED <<manager, clients, document, server, touches, pc, proc>>
  BY DEF CloseEnforcer
<1>2. UNCHANGED <<closed, starting, client, failures, disabled, closing, key, wire, watched, docLock,
                  version, diag, disk, received, mistold, touches, pc, proc>>
  BY <1>1 DEF manager, clients, document, server
<1>3. TypeOK'
  BY <1>1, <1>2 DEF TypeOK
<1>4. Slots' /\ Shut' /\ StartsAlone'
  <2>1. Shut'
    BY <1>1, <1>2 DEF Rest, Shut
  <2> QED
    BY <1>2, <2>1, SlotsFrame, StartsFrame DEF Rest, Starter
<1>5. Hands'
  <2>1. ASSUME NEW q \in Callers
        PROVE  Hand(q)'
    <3>1. Hand(q) /\ receipts'[q] = {}
      BY <1>1 DEF Rest, Hands
    <3> QED
      BY <1>2, <3>1 DEF Hand
  <2> QED
    BY <2>1 DEF Hands
<1>6. Kept' /\ Room' /\ LocksHold' /\ Reports' /\ ToldOnce' /\ DecorationsFit'
  BY <1>2, KeptFrame, RoomFrame, LocksFrame, ReportsFrame, ToldFrame, DecorationsFrame DEF Rest
<1>7. TicketsSound'
  <2>1. \A q \in Callers : Tickets(q)' \subseteq Tickets(q) /\ proc'[q].text = proc[q].text
    BY <1>1, <1>2 DEF Tickets
  <2> QED
    BY <1>2, <2>1, TicketsFrame DEF Rest
<1> QED
  BY <1>3, <1>4, <1>5, <1>6, <1>7 DEF Rest

LEMMA CloseManagerStep ==
  ASSUME TypeOK, Rest, CloseManager
  PROVE  TypeOK' /\ Rest'
<1>1. /\ ~enforcing /\ ~closed /\ closed' = TRUE /\ closing' = "waiting"
      /\ client' = [k \in Keys |-> NULL]
      /\ wire' = [c \in Clients |->
                    IF wire[c] = "up" /\ c \in {client[k] : k \in Keys} THEN "cut" ELSE wire[c]]
      /\ UNCHANGED <<starting, failures, disabled, key, watched, document, server, enforcer, touches, pc, proc>>
  BY DEF CloseManager
<1>2. UNCHANGED <<docLock, version, diag, disk, received, mistold, enforcing, receipts>>
  BY <1>1 DEF document, server, enforcer
<1>3. /\ wire' \in [Clients -> {"up", "cut", "down"}]
      /\ \A c \in Clients : wire'[c] = "up" => wire[c] = "up"
  BY <1>1 DEF TypeOK
<1>4. TypeOK'
  BY <1>1, <1>2, <1>3 DEF TypeOK
<1>5. Slots' /\ Shut' /\ StartsAlone'
  <2>1. Slots'
    BY <1>1 DEF Rest, Slots, Slot
  <2>2. Shut'
    BY <1>1, <1>2 DEF Rest, Shut
  <2> QED
    BY <1>1, <2>1, <2>2, StartsFrame DEF Rest, Starter
<1>6. Hands'
  <2>1. ASSUME NEW q \in Callers
        PROVE  Hand(q)'
    <3>1. Hand(q)
      BY DEF Rest, Hands
    <3> QED
      BY <1>1, <1>2, <3>1, HandFrame
  <2> QED
    BY <2>1 DEF Hands
<1>7. Kept'
  BY <1>1 DEF Kept
<1>8. Room' /\ LocksHold' /\ Reports' /\ ToldOnce' /\ DecorationsFit'
  BY <1>1, <1>2, <1>3, RoomFrame, LocksFrame, ReportsFrame, ToldFrame, DecorationsFrame DEF Rest
<1>9. TicketsSound'
  <2>1. \A q \in Callers : Tickets(q)' \subseteq Tickets(q) /\ proc'[q].text = proc[q].text
    BY <1>1, <1>2 DEF Tickets
  <2> QED
    BY <1>2, <2>1, TicketsFrame DEF Rest
<1> QED
  BY <1>4, <1>5, <1>6, <1>7, <1>8, <1>9 DEF Rest

(* Nothing changes but how far Close has come.                             *)
LEMMA ClosingStep ==
  ASSUME TypeOK, Rest,
         \/ closing' = closing
         \/ closing = "waiting" /\ closing' = IF \A k \in Keys : ~starting[k] THEN "clean" ELSE "timeout",
         UNCHANGED <<closed, starting, client, failures, disabled, clients, document, server, enforcer,
                     touches, pc, proc>>
  PROVE  TypeOK' /\ Rest'
<1>1. UNCHANGED <<closed, starting, client, failures, disabled, key, wire, watched, docLock, version,
                  diag, disk, received, mistold, enforcing, receipts, touches, pc, proc>>
  BY DEF clients, document, server, enforcer
<1>2. TypeOK'
  BY <1>1 DEF TypeOK
<1>3. Slots' /\ Shut' /\ StartsAlone'
  <2>1. Shut'
    BY <1>1 DEF Rest, Shut
  <2> QED
    BY <1>1, <2>1, SlotsFrame, StartsFrame DEF Rest, Starter
<1>4. Hands'
  BY <1>1 DEF Rest, Hands, Hand
<1>5. Kept' /\ Room' /\ LocksHold' /\ Reports' /\ ToldOnce' /\ DecorationsFit'
  BY <1>1, KeptFrame, RoomFrame, LocksFrame, ReportsFrame, ToldFrame, DecorationsFrame DEF Rest
<1>6. TicketsSound'
  <2>1. \A q \in Callers : Tickets(q)' \subseteq Tickets(q) /\ proc'[q].text = proc[q].text
    BY <1>1 DEF Tickets
  <2> QED
    BY <1>1, <2>1, TicketsFrame DEF Rest
<1> QED
  BY <1>2, <1>3, <1>4, <1>5, <1>6 DEF Rest

-----------------------------------------------------------------------------
(* The invariant.                                                          *)

LEMMA Start == Init => LspInv
<1> SUFFICES ASSUME Init
             PROVE  TypeOK /\ Rest
  BY DEF LspInv, Rest
<1>1. Idle \in Call /\ \A p \in Callers : proc[p] = Idle /\ pc[p] = "idle" /\ receipts[p] = {}
  BY IdleCall DEF Init
<1>2. /\ Idle.doc = NULL /\ Idle.todo = {} /\ Idle.key = NULL /\ Idle.con = NULL
      /\ Idle.waits = {} /\ Idle.found = {} /\ Idle.decor = {}
  BY IdleCall
<1> DEFINE zero == 0
           none == NoDiag
<1>3. zero \in Texts /\ zero \in Nat /\ zero \in 0..FailureLimit
  BY DEF Texts
<1>4. none = [document |-> zero, generation |-> zero, values |-> NULL, publication |-> zero,
              versioned |-> FALSE]
  BY DEF NoDiag
<1>5. /\ version = [c \in Clients |-> [d \in Docs |-> zero]]
      /\ diag = [c \in Clients |-> [d \in Docs |-> none]]
      /\ disk = [d \in Docs |-> zero] /\ touches = zero
      /\ failures = [k \in Keys |-> zero]
      /\ received = [c \in Clients |-> [d \in Docs |-> {}]]
  BY DEF Init
<1> HIDE DEF zero, none
<1>6. none \in DiagnosticState
  BY <1>3, <1>4 DEF DiagnosticState
<1>7. TypeOK
  <2>1. /\ proc \in [Callers -> Call] /\ pc \in [Callers -> Labels]
        /\ receipts \in [Callers -> SUBSET TicketSet]
    BY <1>1 DEF Init, Labels
  <2>2. /\ version \in [Clients -> [Docs -> Texts]] /\ diag \in [Clients -> [Docs -> DiagnosticState]]
        /\ disk \in [Docs -> Texts] /\ touches \in Texts /\ failures \in [Keys -> 0..FailureLimit]
        /\ received \in [Clients -> [Docs -> SUBSET [version: Texts, text: Texts]]]
    BY <1>3, <1>5, <1>6
  <2>3. /\ closed \in BOOLEAN /\ enforcing \in BOOLEAN
        /\ closing \in {"none", "waiting", "clean", "timeout"}
        /\ starting \in [Keys -> BOOLEAN] /\ disabled \in [Keys -> BOOLEAN]
        /\ client \in [Keys -> Clients \cup {NULL}]
        /\ key \in [Clients -> Keys \cup {NULL}]
        /\ wire \in [Clients -> {"up", "cut", "down"}]
        /\ watched \in SUBSET Clients /\ mistold \in SUBSET Clients
        /\ docLock \in [Clients -> Callers \cup {NULL}]
    BY DEF Init
  <2> QED
    BY <2>1, <2>2, <2>3 DEF TypeOK
<1>8. Slots /\ Shut /\ StartsAlone /\ Kept
  BY <1>1 DEF Init, Slots, Slot, Shut, StartsAlone, Starts, Starter, Kept
<1>9. Hands /\ LocksHold
  BY <1>1, <1>2 DEF Hands, Hand, Busy, WithClient, LocksHold, Locked
<1>10. Room
  <2>1. ASSUME NEW k \in Keys
        PROVE  Pending(k) = {}
    BY <1>1, <1>2 DEF Pending, Busy
  <2>2. IsFiniteSet({}) /\ Cardinality({}) = 0
    BY FS_EmptySet
  <2>3. /\ touches = 0
        /\ \A c \in Clients, d \in Docs : version[c][d] = 0
    BY <1>5 DEF zero
  <2> QED
    BY <2>1, <2>2, <2>3 DEF Room
<1>11. Reports /\ ToldOnce
  BY <1>4, <1>5 DEF Reports, Report, ToldOnce, Told, zero
<1>12. TicketsSound /\ DecorationsFit
  BY <1>1, <1>2 DEF TicketsSound, Tickets, DecorationsFit
<1> QED
  BY <1>7, <1>8, <1>9, <1>10, <1>11, <1>12 DEF Rest

(* No step of a call, of a server or of Close breaks the invariant.        *)
LEMMA Step == LspInv /\ [Next]_vars => LspInv'
<1> SUFFICES ASSUME TypeOK, Rest, [Next]_vars
             PROVE  TypeOK' /\ Rest'
  BY DEF LspInv, Rest
<1>1. ASSUME NEW p \in Callers, BeginTouch(p) \/ BeginStart(p) \/ StopWaiting(p)
      PROVE  TypeOK' /\ Rest'
  BY <1>1, BeginTouchStep, BeginStartStep, StopWaitingStep
<1>2. ASSUME NEW p \in Callers,
             LaunchFails(p) \/ Launch(p) \/ Initialize(p) \/ Complete(p) \/ FinishStart(p)
      PROVE  TypeOK' /\ Rest'
  BY <1>2, LaunchFailsStep, LaunchStep, InitializeStep, CompleteStep, FinishStartStep
<1>3. ASSUME NEW p \in Callers, Prepare(p) \/ NotifyDocument(p) \/ NotifyFails(p) \/ Rollback(p)
      PROVE  TypeOK' /\ Rest'
  BY <1>3, PrepareStep, NotifyDocumentStep, NotifyFailsStep, RollbackStep
<1>4. ASSUME NEW p \in Callers,
             \/ StoreReceipt(p) \/ Drop(p) \/ Await(p)
             \/ LookUp(p) \/ Decorate(p) \/ Unsettled(p) \/ EndTouch(p)
      PROVE  TypeOK' /\ Rest'
  BY <1>4, StoreReceiptStep, DropStep, AwaitStep, LookUpStep, DecorateStep, UnsettledStep, EndTouchStep
<1>5. ASSUME NEW c \in Clients, Garble(c) \/ Exit(c) \/ Lifecycle(c) \/ Reap(c) \/ Watch(c)
      PROVE  TypeOK' /\ Rest'
  BY <1>5, GarbleStep, ProcessStep, WatchStep
<1>6. ASSUME NEW c \in Clients, NEW d \in Docs, Publish(c, d)
      PROVE  TypeOK' /\ Rest'
  BY <1>6, PublishStep
<1>7. ASSUME CloseEnforcer \/ CloseManager
      PROVE  TypeOK' /\ Rest'
  BY <1>7, CloseEnforcerStep, CloseManagerStep
<1>8. ASSUME CloseEnds
      PROVE  TypeOK' /\ Rest'
  BY <1>8, ClosingStep DEF CloseEnds
<1>9. ASSUME UNCHANGED vars
      PROVE  TypeOK' /\ Rest'
  BY <1>9, ClosingStep DEF vars, manager
<1> QED
  BY <1>1, <1>2, <1>3, <1>4, <1>5, <1>6, <1>7, <1>8, <1>9 DEF Next

LEMMA Invariant == Spec => []LspInv
  BY Start, Step, PTL DEF Spec

-----------------------------------------------------------------------------
(* What the invariant says of the servers.                                 *)

LEMMA Forgotten == LspInv => NothingForgotten
<1> SUFFICES ASSUME LspInv
             PROVE  NothingForgotten
  OBVIOUS
<1>1. ASSUME closing = "clean"
      PROVE  /\ \A k \in Keys : client[k] = NULL /\ ~starting[k]
             /\ \A p \in Callers : receipts[p] = {}
  BY <1>1 DEF LspInv, Shut, Slots, Slot
<1> QED
  BY <1>1 DEF LspInv, Kept, NothingForgotten

(* Of two processes of a server one is not its client, so a call that is   *)
(* starting the server holds it, or one that has given up its start does.  *)
LEMMA One == LspInv => OneServer
<1> SUFFICES ASSUME LspInv
             PROVE  OneServer
  OBVIOUS
<1>1. ASSUME NEW p \in Callers, NEW q \in Callers, Starter(p), Starter(q), proc[p].key = proc[q].key
      PROVE  p = q
  BY <1>1 DEF LspInv, StartsAlone, Starts
<1>2. ASSUME NEW c \in Clients, NEW e \in Clients, wire[c] = "up", wire[e] = "up", key[c] = key[e],
             c # e, ~closed
      PROVE  \E p \in Callers : pc[p] = "finish" /\ proc[p].code = "ended" /\ proc[p].con \in {c, e}
  <2> DEFINE Owned(x) == \E k \in Keys : client[k] = x
             By(p, x) == proc[p].con = x /\ pc[p] \in {"initialize", "complete", "finish"}
             Ended(p) == pc[p] = "finish" /\ proc[p].code = "ended"
  <2>1. ASSUME NEW x \in Clients, wire[x] = "up"
        PROVE  Owned(x) \/ \E p \in Callers : By(p, x)
    BY <1>2, <2>1 DEF LspInv, Kept
  <2>2. ASSUME NEW x \in Clients, Owned(x)
        PROVE  key[x] \in Keys /\ client[key[x]] = x /\ ~starting[key[x]]
    BY <2>2 DEF LspInv, Slots, Slot
  <2>3. ASSUME NEW x \in Clients, wire[x] = "up", NEW p \in Callers, By(p, x)
        PROVE  /\ key[x] = proc[p].key /\ key[x] \in Keys
               /\ \/ Starter(p) /\ starting[key[x]]
                  \/ Ended(p)
                  \/ Owned(x)
    <3>1. Hand(p) /\ Starts(p)
      BY DEF LspInv, Hands, StartsAlone
    <3>2. proc[p].con # NULL /\ key[x] = proc[p].key /\ proc[p].key \in Keys
      BY <2>3, <3>1 DEF Hand, Busy
    <3>3. CASE pc[p] \in {"initialize", "complete"}
      BY <3>1, <3>2, <3>3 DEF Starter, Starts
    <3>4. CASE pc[p] = "finish"
      BY <1>2, <2>3, <3>1, <3>2, <3>4 DEF Hand
    <3> QED
      BY <2>3, <3>2, <3>3, <3>4
  <2>4. CASE Owned(c)
    <3>1. client[key[c]] = c /\ ~starting[key[c]] /\ ~Owned(e)
      BY <1>2, <2>2, <2>4
    <3>2. PICK q \in Callers : By(q, e)
      BY <1>2, <2>1, <3>1
    <3> QED
      BY <1>2, <2>3, <3>1, <3>2
  <2>5. CASE ~Owned(c)
    <3>1. PICK p \in Callers : By(p, c)
      BY <1>2, <2>1, <2>5
    <3>2. CASE Ended(p)
      BY <3>1, <3>2
    <3>3. CASE Starter(p) /\ starting[key[c]]
      <4>1. ~Owned(e)
        BY <1>2, <2>2, <3>3
      <4>2. PICK q \in Callers : By(q, e)
        BY <1>2, <2>1, <4>1
      <4>3. p # q
        BY <1>2, <3>1, <4>2
      <4>4. key[e] = proc[q].key /\ key[c] = proc[p].key
        BY <1>2, <2>3, <3>1, <4>2
      <4> QED
        BY <1>1, <1>2, <2>3, <3>3, <4>1, <4>2, <4>3, <4>4
    <3> QED
      BY <1>2, <2>3, <2>5, <3>1, <3>2, <3>3
  <2> QED
    BY <2>4, <2>5
<1> QED
  BY <1>1, <1>2 DEF OneServer

(* The state of the manager, of its clients and of the calls keeps its     *)
(* types: failures never passes FailureLimit, and no version of a document *)
(* passes the number of touches (versions and documentVersion in           *)
(* manager.go).                                                            *)
THEOREM TypeCorrect == Spec => []TypeOK
<1>1. LspInv => TypeOK
  BY DEF LspInv
<1> QED
  BY <1>1, Invariant, PTL

(* A language server that runs is the client of the manager, or in the     *)
(* hands of the call that starts it, or dies with the closed manager; and  *)
(* a Close that ends without an error leaves no server, no start and no    *)
(* receipt behind (completeStart, finishStart, recordFailure, Close).      *)
THEOREM NothingIsForgotten == Spec => []NothingForgotten
BY Invariant, Forgotten, PTL

(* One call at a time starts the server of a root, and a second process of *)
(* it exists only until the call whose start was given up stops it         *)
(* (beginStart, completeStart, finishStart).                               *)
THEOREM OneServerEach == Spec => []OneServer
BY Invariant, One, PTL

(* What decorates the result of a call was reported for the text that this *)
(* call wrote, by its version, unless the server was sent another text     *)
(* under the same one; a report without a version decorates the first      *)
(* version only (syncDocument, acceptsDiagnostics, waitForDiagnostics).    *)
THEOREM Decorations == Spec => []DecorationsFit
<1>1. LspInv => DecorationsFit
  BY DEF LspInv
<1> QED
  BY <1>1, Invariant, PTL
=============================================================================
