------------------------ MODULE FileMutationProofs ------------------------
(* The file tools lose no update and show no half of a file, for any       *)
(* number of calls, sessions, paths and inodes.                            *)
EXTENDS FileMutation, TLAPS

USE ConstantsAssumption DEF ConstantsAssumption

Opening == {"read1", "read2", "old1", "old2"}
Writing == {"fill", "rename"}
Choosing == {"temp", "fill", "rename", "recordwrite"}

Calls == [op : {"none", "read", "write", "edit"}, ses : Sessions \cup {NULL},
          path : Paths \cup {NULL}, ino : Inodes \cup {NULL},
          got : Content \cup {NULL}, new : Content \cup {NULL}, late : BOOLEAN]

(* The types, with what the label of a call says about its variables.      *)
FilesType ==
  /\ disk \in [Paths -> Inodes \cup {NULL}]
  /\ data \in [Inodes -> Content]
  /\ temps \subseteq Inodes
  /\ leaked \subseteq temps
SharedType ==
  /\ queue \in Callers \cup {NULL}
  /\ ledger \in [Sessions -> [Paths -> Content \cup {NULL}]]
  /\ seen = ledger
  /\ outside \subseteq Callers
Local(k, l) ==
  /\ l # "idle" => k.ses \in Sessions /\ k.path \in Paths
  /\ l \in Opening \cup Writing => k.ino \in Inodes
  /\ l \in Choosing => k.new \in Texts
  /\ l \in {"queue", "inspect"} => k.got = NULL
  /\ l \in {"read2", "old2"} => k.got \in Content
CallsType ==
  /\ pc \in [Callers -> Labels]
  /\ proc \in [Callers -> Calls]
  /\ \A c \in Callers : Local(proc[c], pc[c])

(* Two paths never lead to one inode, none to a temporary file, and what a *)
(* path leads to is a whole text.                                          *)
Linked ==
  /\ \A p, q \in Paths : disk[p] = disk[q] /\ disk[p] # NULL => p = q
  /\ \A p \in Paths : disk[p] # NULL => disk[p] \notin temps /\ data[disk[p]] \in Texts

(* An inode that a call holds open is no temporary file, is linked under   *)
(* the path of the call at most, and whole; so a text is read from one     *)
(* state of it, unless a command interferes.                               *)
Reader(c) ==
  /\ pc[c] \in Opening =>
       /\ proc[c].ino \notin temps
       /\ \A q \in Paths : disk[q] = proc[c].ino => q = Path(c)
       /\ data[proc[c].ino] \in Texts
  /\ pc[c] \in {"read2", "old2"} /\ c \notin outside => proc[c].got[1] = data[proc[c].ino][1]
  /\ pc[c] \in {"check1", "check2", "record", "verify"} /\ c \notin outside /\ proc[c].got # NULL
       => proc[c].got[1] = proc[c].got[2]

(* What the call in the slot has read is what its path holds; its          *)
(* temporary file is its own.                                              *)
Writer(c) ==
  /\ pc[c] \in Writing => proc[c].ino \in temps \ leaked
  /\ pc[c] = "rename" => data[proc[c].ino] = proc[c].new
  /\ c \notin outside =>
       /\ pc[c] \in {"old1", "old2"} => disk[Path(c)] = proc[c].ino
       /\ pc[c] \in {"verify", "temp", "fill", "rename"} => At(Path(c)) = proc[c].got
       /\ pc[c] \in {"temp", "fill", "rename"} =>
            proc[c].late \/ proc[c].got \in {NULL, seen[proc[c].ses][Path(c)]}

Accounted ==
  \A i \in temps \ leaked : \E c \in Callers : pc[c] \in Writing /\ proc[c].ino = i

Types == FilesType /\ SharedType /\ CallsType
FileInv ==
  /\ Types
  /\ Serialized
  /\ Linked
  /\ \A c \in Callers : Reader(c) /\ Writer(c)
  /\ Accounted

LEMMA FileInit == Init => FileInv
<1> SUFFICES ASSUME Init PROVE FileInv
  OBVIOUS
<1>1. Texts \subseteq Content
  BY DEF Texts, Content
<1>2. FilesType
  BY <1>1 DEF Init, FilesType
<1>3. SharedType
  BY DEF Init, SharedType
<1>4. CallsType
  BY DEF Init, CallsType, Local, Calls, Idle, Labels, Opening, Writing, Choosing
<1>5. Serialized
  BY DEF Init, Serialized, Mutating
<1>6. Linked
  BY DEF Init, Linked
<1>7. \A c \in Callers : Reader(c) /\ Writer(c)
  BY DEF Init, Reader, Writer, Opening, Writing
<1>8. Accounted
  BY DEF Init, Accounted
<1> QED BY <1>2, <1>3, <1>4, <1>5, <1>6, <1>7, <1>8 DEF FileInv, Types

(* What the invariant says of one call, with the definitions it is stated  *)
(* in opened.                                                              *)
LEMMA InvImplies ==
  FileInv => TypeOK /\ Serialized /\ ReadsAreWhole /\ NoPartialFile /\ TempsCleared
<1> SUFFICES ASSUME FileInv PROVE TypeOK /\ Serialized /\ ReadsAreWhole /\ NoPartialFile /\ TempsCleared
  OBVIOUS
<1>1. TypeOK
  BY DEF FileInv, Types, FilesType, SharedType, CallsType, Local, Calls, TypeOK, Opening, Writing
<1>2. Serialized
  BY DEF FileInv
<1>3. ReadsAreWhole
  BY DEF FileInv, Reader, ReadsAreWhole
<1>4. NoPartialFile
  BY DEF FileInv, Linked, NoPartialFile
<1>5. TempsCleared
  <2> SUFFICES ASSUME queue = NULL PROVE temps = leaked
    BY DEF TempsCleared
  <2>1. \A c \in Callers : pc[c] \notin Writing
    BY DEF FileInv, Serialized, Mutating, Writing
  <2> QED BY <2>1 DEF FileInv, Accounted, Types, FilesType
<1> QED BY <1>1, <1>2, <1>3, <1>4, <1>5

-----------------------------------------------------------------------------
(* Steps that change the variables of one call and the slot only.          *)

LEMMA SmallFacts ==
  /\ Texts \subseteq Content
  /\ \A c \in Content : c = <<c[1], c[2]>>
  /\ \A c \in Content : <<c[1], NULL>> \in Content
  /\ \A b, c \in Content : <<b[1], c[2]>> \in Content
  /\ \A c \in Texts : c[1] = c[2]
  BY DEF Texts, Content

LEMMA QuietMove ==
  ASSUME FileInv, NEW c \in Callers, NEW k \in Calls, NEW l \in Labels,
         pc' = [pc EXCEPT ![c] = l], proc' = [proc EXCEPT ![c] = k], Local(k, l),
         UNCHANGED <<files, ledger, seen, leaked>>,
         outside' \in {outside, outside \ {c}},
         queue' \in Callers \cup {NULL},
         Serialized', Reader(c)', Writer(c)',
         pc[c] \in Writing => l \in Writing /\ k.ino = proc[c].ino
  PROVE  FileInv'
<1> USE DEF files
<1>1. FilesType'
  BY DEF FileInv, Types, FilesType
<1>2. SharedType'
  BY DEF FileInv, Types, SharedType
<1>3. CallsType'
  BY DEF FileInv, Types, CallsType
<1>4. Linked'
  BY DEF FileInv, Linked
<1>5. ASSUME NEW d \in Callers PROVE Reader(d)' /\ Writer(d)'
  <2>1. CASE d = c
    BY <2>1
  <2>2. CASE d # c
    <3>1. pc'[d] = pc[d] /\ proc'[d] = proc[d] /\ (d \in outside' <=> d \in outside)
      BY <2>2 DEF FileInv, Types, CallsType
    <3>2. Reader(d)'
      BY <3>1 DEF FileInv, Reader, Path
    <3>3. Writer(d)'
      BY <3>1 DEF FileInv, Writer, Path, At
    <3> QED BY <3>2, <3>3
  <2> QED BY <2>1, <2>2
<1>6. Accounted'
  <2> SUFFICES ASSUME NEW i \in temps \ leaked
               PROVE  \E d \in Callers : pc'[d] \in Writing /\ proc'[d].ino = i
    BY DEF Accounted
  <2>1. PICK d \in Callers : pc[d] \in Writing /\ proc[d].ino = i
    BY DEF FileInv, Accounted
  <2>2. pc'[d] \in Writing /\ proc'[d].ino = i
    BY <2>1 DEF FileInv, Types, CallsType
  <2> QED BY <2>2
<1> QED BY <1>1, <1>2, <1>3, <1>4, <1>5, <1>6 DEF FileInv, Types

(* The slot stays with the call that has it, as the call stays inside or   *)
(* outside the mutation.                                                   *)
LEMMA SlotKept ==
  ASSUME FileInv, NEW c \in Callers, NEW l \in Labels, pc' = [pc EXCEPT ![c] = l],
         UNCHANGED queue, pc[c] \in Mutating <=> l \in Mutating
  PROVE  Serialized' /\ queue' \in Callers \cup {NULL}
  BY DEF FileInv, Serialized, Types, CallsType, SharedType

(* What Return leaves of a call and the slot.                              *)
LEMMA IdleCall == Idle \in Calls /\ Local(Idle, "idle") /\ "idle" \in Labels
  BY DEF Idle, Calls, Local, Labels, Opening, Writing, Choosing

LEMMA SlotReturned ==
  ASSUME FileInv, NEW c \in Callers, pc' = [pc EXCEPT ![c] = "idle"], Release(c)
  PROVE  Serialized' /\ queue' \in Callers \cup {NULL}
  BY DEF FileInv, Serialized, Types, CallsType, SharedType, Release, Mutating

LEMMA IdleSound ==
  ASSUME NEW c \in Callers, pc'[c] = "idle"
  PROVE  Reader(c)' /\ Writer(c)'
  BY DEF Reader, Writer, Opening, Writing

LEMMA Returns ==
  ASSUME FileInv, NEW c \in Callers, Return(c), pc[c] \notin Writing,
         UNCHANGED <<files, ledger, seen, leaked>>
  PROVE  FileInv'
<1>1. pc' = [pc EXCEPT ![c] = "idle"] /\ proc' = [proc EXCEPT ![c] = Idle] /\ Release(c)
  BY DEF Return, ReturnFrom, Goto
<1>2. pc'[c] = "idle"
  BY <1>1 DEF FileInv, Types, CallsType
<1>3. Serialized' /\ queue' \in Callers \cup {NULL}
  BY <1>1, SlotReturned
<1>4. outside' \in {outside, outside \ {c}}
  BY DEF Return, ReturnFrom
<1> QED BY <1>1, <1>2, <1>3, <1>4, IdleCall, IdleSound, QuietMove

LEMMA CallStep ==
  ASSUME FileInv, NEW c \in Callers, Call(c)
  PROVE  FileInv'
<1>1. PICK op \in Ops \ {"bash"}, s \in Sessions, p \in Paths :
        /\ proc' = [proc EXCEPT ![c] = [Idle EXCEPT !.op = op, !.ses = s, !.path = p]]
        /\ Goto(c, IF op = "read" THEN "open" ELSE "queue")
  BY DEF Call
<1> SUFFICES ASSUME NEW k, k = [Idle EXCEPT !.op = op, !.ses = s, !.path = p],
                    NEW l, l = IF op = "read" THEN "open" ELSE "queue"
             PROVE  FileInv'
  OBVIOUS
<1>2. l \in Labels /\ l \notin Mutating \cup Opening \cup Writing \cup Choosing /\ l # "idle"
  BY DEF Labels, Mutating, Opening, Writing, Choosing
<1>3. k \in Calls /\ k.ses = s /\ k.path = p /\ k.got = NULL
  BY DEF Idle, Calls
<1>4. pc' = [pc EXCEPT ![c] = l] /\ pc'[c] = l /\ proc' = [proc EXCEPT ![c] = k]
  BY <1>1 DEF Goto, FileInv, Types, CallsType
<1>5. Local(k, l)
  BY <1>2, <1>3 DEF Local
<1>6. pc[c] = "idle" /\ UNCHANGED <<files, queue, ledger, seen, outside, leaked>>
  BY DEF Call, history
<1>7. Serialized' /\ queue' \in Callers \cup {NULL}
  BY <1>2, <1>4, <1>6, SlotKept DEF Mutating
<1>8. Reader(c)' /\ Writer(c)'
  BY <1>4 DEF Reader, Writer, Opening, Writing
<1>9. pc[c] \notin Writing
  BY <1>6 DEF Writing
<1> QED BY <1>2, <1>3, <1>4, <1>5, <1>6, <1>7, <1>8, <1>9, QuietMove

-----------------------------------------------------------------------------
(* Reading.                                                                *)

(* Opens for a read (label read1) and for a mutation (label old1).         *)
LEMMA OpensMove ==
  ASSUME FileInv, NEW c \in Callers, NEW l \in {"read1", "old1"}, Opens(c, l),
         UNCHANGED <<files, ledger, seen, leaked, queue, outside>>,
         \/ l = "read1" /\ pc[c] = "open"
         \/ l = "old1" /\ pc[c] = "inspect"
  PROVE  FileInv'
<1> SUFFICES ASSUME NEW k, k = [proc[c] EXCEPT !.ino = disk[Path(c)]] PROVE FileInv'
  OBVIOUS
<1>1. proc[c] \in Calls /\ Local(proc[c], pc[c]) /\ pc[c] \in Labels
  BY DEF FileInv, Types, CallsType
<1>2. Path(c) \in Paths /\ proc[c].ses \in Sessions
  BY <1>1 DEF Local, Path
<1>3. disk[Path(c)] \in Inodes
  BY <1>2 DEF FileInv, Types, FilesType, Opens
<1>4. k \in Calls /\ k.ses = proc[c].ses /\ k.path = Path(c) /\ k.ino = disk[Path(c)]
  BY <1>1, <1>3 DEF Calls, Path
<1>5. Local(k, l)
  BY <1>2, <1>3, <1>4 DEF Local, Opening, Writing, Choosing
<1>6. proc' = [proc EXCEPT ![c] = k] /\ pc' = [pc EXCEPT ![c] = l]
  BY DEF Opens, Goto
<1>7. proc'[c] = k /\ pc'[c] = l
  BY <1>6 DEF FileInv, Types, CallsType
<1>8. l \in Labels /\ (pc[c] \in Mutating <=> l \in Mutating) /\ pc[c] \notin Writing
  BY DEF Labels, Mutating, Writing
<1>9. Serialized' /\ queue' \in Callers \cup {NULL}
  BY <1>6, <1>8, SlotKept
<1>10. Reader(c)'
  BY <1>2, <1>3, <1>4, <1>7 DEF Reader, FileInv, Linked, Path, files
<1>11. Writer(c)'
  BY <1>4, <1>7 DEF Writer, Path, files, Writing
<1> QED BY <1>4, <1>5, <1>6, <1>8, <1>9, <1>10, <1>11, QuietMove

LEMMA OpenReadStep ==
  ASSUME FileInv, NEW c \in Callers, OpenRead(c)
  PROVE  FileInv'
<1>1. pc[c] = "open" /\ UNCHANGED <<files, ledger, seen, leaked>>
  BY DEF OpenRead
<1>2. CASE Opens(c, "read1") /\ UNCHANGED <<queue, outside>>
  BY <1>1, <1>2, OpensMove
<1>3. CASE Return(c)
  BY <1>1, <1>3, Returns DEF Writing
<1> QED BY <1>2, <1>3 DEF OpenRead, Fails

(* A half of an open file arrives.                                         *)
LEMMA ReadHalfMove ==
  ASSUME FileInv, NEW c \in Callers, NEW l, NEW next, NEW text \in Content, ReadHalf(c, l, next, text),
         \/ /\ <<l, next>> \in {<<"read1", "read2">>, <<"old1", "old2">>}
            /\ text[1] = data[proc[c].ino][1]
         \/ /\ <<l, next>> \in {<<"read2", "check1">>, <<"old2", "verify">>}
            /\ text[1] = proc[c].got[1]
            /\ text = <<text[1], data[proc[c].ino][2]>>
  PROVE  FileInv'
<1>1. pc[c] = l /\ UNCHANGED <<files, ledger, seen, leaked>>
  BY DEF ReadHalf
<1>2. l \in Opening /\ l \notin Writing
  BY DEF Opening, Writing
<1>3. CASE Return(c)
  BY <1>1, <1>2, <1>3, Returns
<1>4. CASE /\ proc' = [proc EXCEPT ![c].got = text]
           /\ Goto(c, next)
           /\ UNCHANGED <<queue, outside>>
  <2> SUFFICES ASSUME NEW k, k = [proc[c] EXCEPT !.got = text] PROVE FileInv'
    OBVIOUS
  <2>1. proc[c] \in Calls /\ Local(proc[c], pc[c]) /\ Reader(c) /\ Writer(c)
    BY DEF FileInv, Types, CallsType
  <2>2. k \in Calls /\ k.got = text /\ k.ino = proc[c].ino /\ k.path = Path(c) /\ k.ses = proc[c].ses
    BY <2>1 DEF Calls, Path
  <2>3. next \in Labels /\ next \notin Writing \cup Choosing /\ (l \in Mutating <=> next \in Mutating)
          /\ next \notin {"queue", "inspect", "idle"}
    BY DEF Labels, Writing, Choosing, Mutating
  <2>4. Local(k, next)
    BY <1>1, <1>2, <2>1, <2>2, <2>3 DEF Local, Opening, Path
  <2>5. proc' = [proc EXCEPT ![c] = k] /\ pc' = [pc EXCEPT ![c] = next]
    BY <1>4 DEF Goto
  <2>6. proc'[c] = k /\ pc'[c] = next
    BY <2>5 DEF FileInv, Types, CallsType
  <2>7. Serialized' /\ queue' \in Callers \cup {NULL}
    BY <1>1, <1>4, <2>3, <2>5, SlotKept
  <2>8. data[proc[c].ino] \in Texts /\ data[proc[c].ino][1] = data[proc[c].ino][2]
    BY <1>1, <1>2, <2>1, SmallFacts DEF Reader
  <2>9. CASE /\ <<l, next>> \in {<<"read1", "read2">>, <<"old1", "old2">>}
             /\ text[1] = data[proc[c].ino][1]
    <3>1. Reader(c)'
      BY <1>1, <1>2, <2>1, <2>2, <2>6, <2>8, <2>9 DEF Reader, Path, files
    <3>2. Writer(c)'
      BY <1>1, <1>4, <2>1, <2>2, <2>6, <2>9 DEF Writer, Path, files, Writing
    <3> QED BY <1>1, <1>2, <1>4, <2>2, <2>3, <2>4, <2>5, <2>7, <3>1, <3>2, QuietMove
  <2>10. CASE /\ <<l, next>> \in {<<"read2", "check1">>, <<"old2", "verify">>}
              /\ text[1] = proc[c].got[1]
              /\ text = <<text[1], data[proc[c].ino][2]>>
    <3>1. c \notin outside => text = data[proc[c].ino]
      <4>1. data[proc[c].ino] = <<data[proc[c].ino][1], data[proc[c].ino][2]>>
        BY <2>8, SmallFacts
      <4> QED BY <1>1, <2>1, <2>10, <4>1 DEF Reader
    <3>2. c \notin outside => text[1] = text[2]
      BY <2>8, <3>1
    <3>3. Reader(c)'
      BY <1>4, <2>2, <2>6, <2>10, <3>2 DEF Reader, Opening
    <3>4. c \notin outside /\ l = "old2" => At(Path(c)) = text
      <4>1. c \notin outside /\ l = "old2" => disk[Path(c)] = proc[c].ino
        BY <1>1, <2>1 DEF Writer
      <4>2. l = "old2" => proc[c].ino \in Inodes
        BY <1>1, <1>2, <2>1 DEF Local
      <4> QED BY <3>1, <4>1, <4>2 DEF At
    <3>5. Writer(c)'
      BY <1>1, <1>4, <2>2, <2>6, <2>10, <3>4 DEF Writer, Path, At, files, Writing
    <3> QED BY <1>1, <1>2, <1>4, <2>2, <2>3, <2>4, <2>5, <2>7, <3>3, <3>5, QuietMove
  <2> QED BY <2>9, <2>10
<1> QED BY <1>3, <1>4 DEF ReadHalf, Fails

LEMMA ReadStep ==
  ASSUME FileInv, NEW c \in Callers,
         \/ readOpenedFile(c, "read1", "read2") \/ readOpenedFile(c, "old1", "old2")
         \/ readToEnd(c, "read2", "check1") \/ readToEnd(c, "old2", "verify")
  PROVE  FileInv'
<1>1. pc[c] \in Opening
  BY DEF readOpenedFile, readToEnd, ReadHalf, Opening
<1>2. proc[c].ino \in Inodes /\ data[proc[c].ino] \in Content /\ proc[c].got \in Content \cup {NULL}
  BY <1>1 DEF FileInv, Types, CallsType, FilesType, Local, Calls
<1>3. ASSUME NEW l \in {"read1", "old1"}, readOpenedFile(c, l, IF l = "read1" THEN "read2" ELSE "old2")
      PROVE  FileInv'
  <2>1. <<data[proc[c].ino][1], NULL>> \in Content
    BY <1>2, SmallFacts
  <2> QED BY <1>3, <2>1, ReadHalfMove DEF readOpenedFile
<1>4. ASSUME NEW l \in {"read2", "old2"}, readToEnd(c, l, IF l = "read2" THEN "check1" ELSE "verify")
      PROVE  FileInv'
  <2>1. pc[c] = l
    BY <1>4 DEF readToEnd, ReadHalf
  <2>2. proc[c].got \in Content
    BY <2>1 DEF FileInv, Types, CallsType, Local
  <2>3. <<proc[c].got[1], data[proc[c].ino][2]>> \in Content
    BY <1>2, <2>2, SmallFacts
  <2> QED BY <1>4, <2>3, ReadHalfMove DEF readToEnd
<1> QED BY <1>3, <1>4

LEMMA CheckReadStep ==
  ASSUME FileInv, NEW c \in Callers,
         CheckRead(c, "check1", "check2") \/ CheckRead(c, "check2", "record")
  PROVE  FileInv'
<1>1. PICK l \in {"check1", "check2"}, next \in {"check2", "record"} : CheckRead(c, l, next)
  OBVIOUS
<1>2. pc[c] = l /\ UNCHANGED <<files, ledger, seen, leaked>>
  BY <1>1 DEF CheckRead
<1>3. CASE Return(c)
  BY <1>2, <1>3, Returns DEF Writing
<1>4. CASE Goto(c, next) /\ UNCHANGED <<proc, queue, outside>>
  <2>1. proc[c] \in Calls /\ Local(proc[c], pc[c]) /\ Reader(c)
    BY DEF FileInv, Types, CallsType
  <2>2. pc' = [pc EXCEPT ![c] = next] /\ pc'[c] = next /\ proc' = [proc EXCEPT ![c] = proc[c]]
    BY <1>4 DEF Goto, FileInv, Types, CallsType
  <2>3. Local(proc[c], next)
    BY <1>2, <2>1 DEF Local, Opening, Writing, Choosing
  <2>4. Serialized' /\ queue' \in Callers \cup {NULL}
    BY <1>2, <1>4, <2>2, SlotKept DEF Labels, Mutating
  <2>5. Reader(c)' /\ Writer(c)'
    BY <1>2, <1>4, <2>1, <2>2 DEF Reader, Writer, Opening, Writing
  <2> QED BY <1>2, <1>4, <2>1, <2>2, <2>3, <2>4, <2>5, QuietMove DEF Labels, Mutating, Writing
<1> QED BY <1>1, <1>3, <1>4 DEF CheckRead, Fails

-----------------------------------------------------------------------------
(* Mutating.                                                               *)

LEMMA AcquireStep ==
  ASSUME FileInv, NEW c \in Callers, Acquire(c)
  PROVE  FileInv'
<1>1. /\ pc[c] = "queue" /\ queue = NULL /\ queue' = c
      /\ UNCHANGED <<files, ledger, proc, seen, outside, leaked>>
  BY DEF Acquire, history
<1>2. pc' = [pc EXCEPT ![c] = "inspect"] /\ pc'[c] = "inspect" /\ proc' = [proc EXCEPT ![c] = proc[c]]
  BY <1>1 DEF Acquire, Goto, FileInv, Types, CallsType
<1>3. proc[c] \in Calls /\ Local(proc[c], "inspect")
  BY <1>1 DEF FileInv, Types, CallsType, Local, Opening, Writing, Choosing
<1>4. Serialized'
  BY <1>1, <1>2 DEF FileInv, Serialized, Types, CallsType, Mutating
<1>5. Reader(c)' /\ Writer(c)'
  BY <1>2 DEF Reader, Writer, Opening, Writing
<1> QED BY <1>1, <1>2, <1>3, <1>4, <1>5, QuietMove DEF Labels, Mutating, Writing

LEMMA GiveUpStep ==
  ASSUME FileInv, NEW c \in Callers, GiveUp(c)
  PROVE  FileInv'
  BY Returns DEF GiveUp, Fails, Writing

LEMMA InspectStep ==
  ASSUME FileInv, NEW c \in Callers, Inspect(c)
  PROVE  FileInv'
<1>1. pc[c] = "inspect" /\ UNCHANGED <<files, ledger, seen, leaked>>
  BY DEF Inspect
<1>2. CASE Opens(c, "old1") /\ UNCHANGED <<queue, outside>>
  BY <1>1, <1>2, OpensMove
<1>3. CASE Return(c)
  BY <1>1, <1>3, Returns DEF Writing
<1>4. CASE disk[Path(c)] = NULL /\ Goto(c, "verify") /\ UNCHANGED <<proc, queue, outside>>
  <2>1. proc[c] \in Calls /\ Local(proc[c], pc[c]) /\ proc[c].got = NULL
    BY <1>1 DEF FileInv, Types, CallsType, Local
  <2>2. pc' = [pc EXCEPT ![c] = "verify"] /\ pc'[c] = "verify" /\ proc' = [proc EXCEPT ![c] = proc[c]]
    BY <1>4 DEF Goto, FileInv, Types, CallsType
  <2>3. Local(proc[c], "verify")
    BY <1>1, <2>1 DEF Local, Opening, Writing, Choosing
  <2>4. Serialized' /\ queue' \in Callers \cup {NULL}
    BY <1>1, <1>4, <2>2, SlotKept DEF Labels, Mutating
  <2>5. Reader(c)'
    BY <1>4, <2>1, <2>2 DEF Reader, Opening
  <2>6. Writer(c)'
    BY <1>1, <1>4, <2>1, <2>2 DEF Writer, Writing, At, Path, files
  <2> QED BY <1>1, <1>4, <2>1, <2>2, <2>3, <2>4, <2>5, <2>6, QuietMove DEF Labels, Mutating, Writing
<1> QED BY <1>2, <1>3, <1>4 DEF Inspect, Fails

LEMMA VerifyStep ==
  ASSUME FileInv, NEW c \in Callers, Verify(c)
  PROVE  FileInv'
<1>1. pc[c] = "verify" /\ UNCHANGED <<files, ledger, seen, leaked>>
  BY DEF Verify
<1>2. CASE Return(c)
  BY <1>1, <1>2, Returns DEF Writing
<1>3. ASSUME NEW new \in Results(c), Verified(c), Goto(c, "temp"), UNCHANGED <<queue, outside>>,
             proc' = [proc EXCEPT ![c].new = new, ![c].ino = NULL]
      PROVE  FileInv'
  <2> SUFFICES ASSUME NEW k, k = [[proc[c] EXCEPT !.new = new] EXCEPT !.ino = NULL] PROVE FileInv'
    OBVIOUS
  <2>1. proc[c] \in Calls /\ Local(proc[c], pc[c]) /\ Writer(c)
    BY DEF FileInv, Types, CallsType
  <2>2. new \in Texts /\ new \in Content
    BY <1>3, SmallFacts DEF Results
  <2>3. /\ k \in Calls /\ k.new = new /\ k.got = proc[c].got
        /\ k.path = Path(c) /\ k.ses = proc[c].ses /\ k.late = proc[c].late
    BY <2>1, <2>2 DEF Calls, Path
  <2>4. proc' = [proc EXCEPT ![c] = k] /\ pc' = [pc EXCEPT ![c] = "temp"]
    BY <1>3 DEF Goto, FileInv, Types, CallsType
  <2>5. proc'[c] = k /\ pc'[c] = "temp"
    BY <2>4 DEF FileInv, Types, CallsType
  <2>6. Local(k, "temp")
    BY <1>1, <2>1, <2>2, <2>3 DEF Local, Opening, Writing, Choosing, Path
  <2>7. Serialized' /\ queue' \in Callers \cup {NULL}
    BY <1>1, <1>3, <2>4, SlotKept DEF Labels, Mutating
  <2>8. Reader(c)'
    BY <2>5 DEF Reader, Opening
  <2>9. seen = ledger
    BY DEF FileInv, Types, SharedType
  <2>10. Writer(c)'
    <3>1. Path(c)' = Path(c) /\ At(Path(c))' = At(Path(c))
      BY <1>1, <2>3, <2>5 DEF Path, At, files
    <3>2. proc[c].got \in {NULL, seen[proc[c].ses][Path(c)]}
      BY <1>3, <2>9 DEF Verified
    <3>3. c \notin outside => At(Path(c)) = proc[c].got
      BY <1>1, <2>1 DEF Writer
    <3> QED BY <1>1, <1>3, <2>3, <2>5, <3>1, <3>2, <3>3 DEF Writer, Writing
  <2> QED BY <1>1, <1>3, <2>3, <2>4, <2>6, <2>7, <2>8, <2>10, QuietMove DEF Labels, Mutating, Writing
<1> QED BY <1>2, <1>3 DEF Verify, Fails

(* Everything but the slot holder is out of the way of a mutation.         *)
LEMMA OnlyHolder ==
  ASSUME FileInv, NEW c \in Callers, pc[c] \in Mutating, NEW d \in Callers, d # c
  PROVE  pc[d] \notin Mutating /\ pc[d] \notin Writing
  BY DEF FileInv, Serialized, Mutating, Writing

(* The other calls, when the call in the slot changes files.               *)
LEMMA OtherReaders ==
  ASSUME FileInv, NEW c \in Callers, pc[c] \in Mutating, NEW d \in Callers, d # c,
         pc'[d] = pc[d], proc'[d].ino = proc[d].ino, proc'[d].path = proc[d].path,
         proc'[d].got = proc[d].got, d \in outside' <=> d \in outside,
         pc[d] \in Opening =>
           /\ proc[d].ino \notin temps'
           /\ data'[proc[d].ino] = data[proc[d].ino]
           /\ \A q \in Paths : disk'[q] = proc[d].ino => disk[q] = proc[d].ino
  PROVE  Reader(d)' /\ Writer(d)'
<1>1. pc[d] \notin Mutating /\ pc[d] \notin Writing
  BY OnlyHolder
<1>2. Reader(d)
  BY DEF FileInv
<1>3. Reader(d)'
  BY <1>1, <1>2 DEF Reader, Opening, Path, Mutating
<1>4. Writer(d)'
  BY <1>1 DEF Writer, Mutating, Writing
<1> QED BY <1>3, <1>4

LEMMA CreateTempStep ==
  ASSUME FileInv, NEW c \in Callers, CreateTemp(c)
  PROVE  FileInv'
<1>1. pc[c] = "temp" /\ UNCHANGED <<ledger, seen, leaked>>
  BY DEF CreateTemp
<1>2. CASE Return(c) /\ UNCHANGED files
  BY <1>1, <1>2, Returns DEF Writing
<1>3. CASE createRootTemp(c) /\ Goto(c, "fill") /\ UNCHANGED <<disk, queue, outside>>
  <2>1. PICK i \in Inodes \ Used :
          /\ proc' = [proc EXCEPT ![c].ino = i]
          /\ data' = [data EXCEPT ![i] = <<proc[c].new[1], NULL>>]
          /\ temps' = temps \cup {i}
    BY <1>3 DEF createRootTemp
  <2> SUFFICES ASSUME NEW k, k = [proc[c] EXCEPT !.ino = i] PROVE FileInv'
    OBVIOUS
  <2>2. proc[c] \in Calls /\ Local(proc[c], pc[c]) /\ Writer(c) /\ c \in Callers
    BY DEF FileInv, Types, CallsType
  <2>3. /\ k \in Calls /\ k.ino = i /\ k.new = proc[c].new /\ k.got = proc[c].got
        /\ k.path = Path(c) /\ k.ses = proc[c].ses /\ k.late = proc[c].late
    BY <2>2 DEF Calls, Path
  <2>4. proc' = [proc EXCEPT ![c] = k] /\ pc' = [pc EXCEPT ![c] = "fill"]
    BY <1>3, <2>1 DEF Goto
  <2>5. proc'[c] = k /\ pc'[c] = "fill"
    BY <2>4 DEF FileInv, Types, CallsType
  <2>6. Local(k, "fill")
    BY <1>1, <2>2, <2>3 DEF Local, Opening, Writing, Choosing, Path
  <2>7. i \notin temps /\ (\A p \in Paths : disk[p] # i)
          /\ \A d \in Callers : pc[d] \in Opening => proc[d].ino # i
    BY DEF Used, Open, Opening
  <2>8. proc[c].new \in Content
    BY <1>1, <2>2, SmallFacts DEF Local, Choosing
  <2>9. FilesType'
    <3>1. <<proc[c].new[1], NULL>> \in Content
      BY <2>8, SmallFacts
    <3> QED BY <1>1, <1>3, <2>1, <3>1 DEF FileInv, Types, FilesType
  <2>10. SharedType'
    BY <1>1, <1>3 DEF FileInv, Types, SharedType
  <2>11. CallsType'
    BY <2>3, <2>4, <2>6 DEF FileInv, Types, CallsType, Labels, Mutating
  <2>12. Serialized'
    BY <1>1, <1>3, <2>4, SlotKept DEF Labels, Mutating
  <2>13. Linked'
    BY <1>3, <2>1, <2>7 DEF FileInv, Types, FilesType, Linked
  <2>14. ASSUME NEW d \in Callers, d # c PROVE Reader(d)' /\ Writer(d)'
    <3>1. pc'[d] = pc[d] /\ proc'[d] = proc[d]
      BY <2>4, <2>14 DEF FileInv, Types, CallsType
    <3>2. Reader(d) /\ (pc[d] \in Opening => proc[d].ino \in Inodes)
      BY DEF FileInv, Types, CallsType, Local
    <3>3. pc[d] \in Opening => proc[d].ino \notin temps' /\ data'[proc[d].ino] = data[proc[d].ino]
      BY <2>1, <2>7, <3>2 DEF Reader, FileInv, Types, FilesType
    <3> QED BY <1>1, <1>3, <2>14, <3>1, <3>3, OtherReaders DEF Mutating
  <2>15. Reader(c)'
    BY <2>5 DEF Reader, Opening
  <2>16. Writer(c)'
    <3>1. Path(c)' = Path(c) /\ Path(c) \in Paths
      BY <1>1, <2>2, <2>3, <2>5 DEF Path, Local
    <3>2. At(Path(c))' = At(Path(c))
      BY <1>3, <2>1, <2>7, <3>1 DEF At, FileInv, Types, FilesType
    <3>3. i \in temps' \ leaked'
      BY <1>1, <2>1, <2>7 DEF FileInv, Types, FilesType
    <3>4. c \notin outside => At(Path(c)) = proc[c].got
                              /\ (proc[c].late \/ proc[c].got \in {NULL, seen[proc[c].ses][Path(c)]})
      BY <1>1, <2>2 DEF Writer
    <3> QED BY <1>1, <1>3, <2>3, <2>5, <3>1, <3>2, <3>3, <3>4 DEF Writer, Writing
  <2>17. Accounted'
    <3> SUFFICES ASSUME NEW j \in temps' \ leaked'
                 PROVE  \E d \in Callers : pc'[d] \in Writing /\ proc'[d].ino = j
      BY DEF Accounted
    <3>1. CASE j = i
      BY <2>2, <2>3, <2>5, <3>1 DEF Writing
    <3>2. CASE j # i
      BY <1>1, <2>1, <3>2, OnlyHolder DEF FileInv, Accounted, Mutating, Writing
    <3> QED BY <3>1, <3>2
  <2> QED BY <2>9, <2>10, <2>11, <2>12, <2>13, <2>14, <2>15, <2>16, <2>17 DEF FileInv, Types
<1> QED BY <1>2, <1>3 DEF CreateTemp

(* A mutation gives up after it has created its temporary file.            *)
LEMMA AbandonMove ==
  ASSUME FileInv, NEW c \in Callers, pc[c] \in Writing, Return(c), Abandon(c),
         UNCHANGED <<disk, data, ledger, seen>>
  PROVE  FileInv'
<1>1. pc' = [pc EXCEPT ![c] = "idle"] /\ proc' = [proc EXCEPT ![c] = Idle] /\ Release(c)
  BY DEF Return, ReturnFrom, Goto
<1>2. pc'[c] = "idle" /\ pc[c] \in Mutating
  BY <1>1 DEF FileInv, Types, CallsType, Writing, Mutating
<1>3. proc[c].ino \in temps \ leaked /\ proc[c].ino \in Inodes
  BY DEF FileInv, Writer, Types, FilesType
<1>4. temps' \subseteq temps /\ leaked' \subseteq temps' /\ temps' \ leaked' = (temps \ leaked) \ {proc[c].ino}
  BY <1>3 DEF Abandon, FileInv, Types, FilesType
<1>5. FilesType'
  BY <1>4 DEF FileInv, Types, FilesType
<1>6. SharedType'
  BY <1>1, SlotReturned DEF FileInv, Types, SharedType, Return, ReturnFrom
<1>7. CallsType'
  BY <1>1, IdleCall DEF FileInv, Types, CallsType
<1>8. Serialized'
  BY <1>1, SlotReturned
<1>9. Linked'
  BY <1>4 DEF FileInv, Linked
<1>10. ASSUME NEW d \in Callers PROVE Reader(d)' /\ Writer(d)'
  <2>1. CASE d = c
    BY <1>2, <2>1, IdleSound
  <2>2. CASE d # c
    <3>1. pc'[d] = pc[d] /\ proc'[d] = proc[d] /\ (d \in outside' <=> d \in outside)
      BY <1>1, <2>2 DEF FileInv, Types, CallsType, Return, ReturnFrom
    <3>2. Reader(d)
      BY DEF FileInv
    <3> QED BY <1>2, <1>4, <2>2, <3>1, <3>2, OtherReaders DEF Reader
  <2> QED BY <2>1, <2>2
<1>11. Accounted'
  <2> SUFFICES ASSUME NEW j \in temps' \ leaked' PROVE FALSE
    BY DEF Accounted
  <2>1. PICK d \in Callers : pc[d] \in Writing /\ proc[d].ino = j
    BY <1>4 DEF FileInv, Accounted
  <2>2. d = c
    BY <1>2, <2>1, OnlyHolder
  <2> QED BY <1>4, <2>1, <2>2
<1> QED BY <1>5, <1>6, <1>7, <1>8, <1>9, <1>10, <1>11 DEF FileInv, Types

LEMMA FillTempStep ==
  ASSUME FileInv, NEW c \in Callers, FillTemp(c)
  PROVE  FileInv'
<1>1. pc[c] = "fill" /\ UNCHANGED <<disk, ledger, seen>>
  BY DEF FillTemp
<1>2. CASE Return(c) /\ Abandon(c) /\ UNCHANGED data
  BY <1>1, <1>2, AbandonMove DEF Writing
<1>3. CASE /\ data' = [data EXCEPT ![proc[c].ino] = proc[c].new]
           /\ Goto(c, "rename")
           /\ UNCHANGED <<proc, queue, outside, temps, leaked>>
  <2>1. proc[c] \in Calls /\ Local(proc[c], pc[c]) /\ Writer(c)
    BY DEF FileInv, Types, CallsType
  <2>2. proc[c].new \in Texts /\ proc[c].new \in Content /\ proc[c].ino \in temps \ leaked /\ proc[c].ino \in Inodes
    BY <1>1, <2>1, SmallFacts DEF Local, Choosing, Writing, Writer
  <2>3. pc' = [pc EXCEPT ![c] = "rename"] /\ pc'[c] = "rename"
    BY <1>3 DEF Goto, FileInv, Types, CallsType
  <2>4. FilesType'
    BY <1>1, <1>3, <2>2 DEF FileInv, Types, FilesType
  <2>5. SharedType'
    BY <1>1, <1>3 DEF FileInv, Types, SharedType
  <2>6. CallsType'
    <3>1. Local(proc[c], "rename")
      BY <1>1, <2>1 DEF Local, Opening, Writing, Choosing
    <3> QED BY <1>3, <2>3, <3>1 DEF FileInv, Types, CallsType, Labels, Mutating
  <2>7. Serialized'
    BY <1>1, <1>3, <2>3, SlotKept DEF Labels, Mutating
  <2>8. Linked'
    BY <1>1, <1>3, <2>2 DEF FileInv, Types, FilesType, Linked
  <2>9. ASSUME NEW d \in Callers, d # c PROVE Reader(d)' /\ Writer(d)'
    <3>1. pc'[d] = pc[d] /\ proc'[d] = proc[d]
      BY <1>3, <2>3, <2>9 DEF FileInv, Types, CallsType
    <3>2. Reader(d) /\ (pc[d] \in Opening => proc[d].ino \in Inodes)
      BY DEF FileInv, Types, CallsType, Local
    <3>3. pc[d] \in Opening => proc[d].ino \notin temps' /\ data'[proc[d].ino] = data[proc[d].ino]
      BY <1>3, <2>2, <3>2 DEF Reader, FileInv, Types, FilesType
    <3> QED BY <1>1, <1>3, <2>9, <3>1, <3>3, OtherReaders DEF Mutating
  <2>10. Reader(c)'
    BY <2>3 DEF Reader, Opening
  <2>11. Writer(c)'
    <3>1. At(Path(c))' = At(Path(c)) /\ Path(c)' = Path(c)
      <4>1. Path(c) \in Paths
        BY <1>1, <2>1 DEF Local, Path
      <4> QED BY <1>1, <1>3, <2>2, <4>1 DEF At, Path, FileInv, Types, FilesType, Linked
    <3>2. data'[proc[c].ino] = proc[c].new
      BY <1>3, <2>2 DEF FileInv, Types, FilesType
    <3> QED BY <1>1, <1>3, <2>1, <2>2, <2>3, <3>1, <3>2 DEF Writer, Writing
  <2>12. Accounted'
    <3> SUFFICES ASSUME NEW j \in temps \ leaked
                 PROVE  \E d \in Callers : pc'[d] \in Writing /\ proc[d].ino = j
      BY <1>3 DEF Accounted
    <3>1. PICK d \in Callers : pc[d] \in Writing /\ proc[d].ino = j
      BY DEF FileInv, Accounted
    <3>2. pc'[d] \in Writing
      BY <2>3, <3>1 DEF FileInv, Types, CallsType, Writing
    <3> QED BY <3>1, <3>2
  <2> QED BY <2>4, <2>5, <2>6, <2>7, <2>8, <2>9, <2>10, <2>11, <2>12 DEF FileInv, Types
<1> QED BY <1>2, <1>3 DEF FillTemp

LEMMA RenameStep ==
  ASSUME FileInv, NEW c \in Callers, Rename(c)
  PROVE  FileInv'
<1>1. pc[c] = "rename" /\ UNCHANGED <<data, ledger, seen>>
  BY DEF Rename
<1>2. CASE Return(c) /\ Abandon(c) /\ UNCHANGED disk
  BY <1>1, <1>2, AbandonMove DEF Writing
<1>3. CASE /\ disk' = [disk EXCEPT ![Path(c)] = proc[c].ino]
           /\ temps' = temps \ {proc[c].ino}
           /\ Goto(c, "recordwrite")
           /\ UNCHANGED <<proc, queue, outside, leaked>>
  <2>1. proc[c] \in Calls /\ Local(proc[c], pc[c]) /\ Writer(c) /\ Path(c) \in Paths
    BY <1>1 DEF FileInv, Types, CallsType, Local, Path
  <2>2. /\ proc[c].new \in Texts /\ data[proc[c].ino] = proc[c].new
        /\ proc[c].ino \in temps \ leaked /\ proc[c].ino \in Inodes
        /\ \A q \in Paths : disk[q] # proc[c].ino
    BY <1>1, <2>1 DEF Local, Choosing, Writing, Writer, FileInv, Linked
  <2>3. pc' = [pc EXCEPT ![c] = "recordwrite"] /\ pc'[c] = "recordwrite"
    BY <1>3 DEF Goto, FileInv, Types, CallsType
  <2>4. FilesType'
    BY <1>1, <1>3, <2>2 DEF FileInv, Types, FilesType
  <2>5. SharedType'
    BY <1>1, <1>3 DEF FileInv, Types, SharedType
  <2>6. CallsType'
    <3>1. Local(proc[c], "recordwrite")
      BY <1>1, <2>1 DEF Local, Opening, Writing, Choosing
    <3> QED BY <1>3, <2>3, <3>1 DEF FileInv, Types, CallsType, Labels, Mutating
  <2>7. Serialized'
    BY <1>1, <1>3, <2>3, SlotKept DEF Labels, Mutating
  <2>8. \A q \in Paths : disk'[q] = IF q = Path(c) THEN proc[c].ino ELSE disk[q]
    BY <1>3 DEF FileInv, Types, FilesType
  <2>9. Linked'
    BY <1>1, <1>3, <2>2, <2>8 DEF FileInv, Linked
  <2>10. ASSUME NEW d \in Callers, d # c PROVE Reader(d)' /\ Writer(d)'
    <3>1. pc'[d] = pc[d] /\ proc'[d] = proc[d]
      BY <1>3, <2>3, <2>10 DEF FileInv, Types, CallsType
    <3>2. Reader(d)
      BY DEF FileInv
    <3>3. pc[d] \in Opening =>
            /\ proc[d].ino \notin temps'
            /\ \A q \in Paths : disk'[q] = proc[d].ino => disk[q] = proc[d].ino
      BY <1>3, <2>2, <2>8, <3>2 DEF Reader
    <3> QED BY <1>1, <1>3, <2>10, <3>1, <3>3, OtherReaders DEF Mutating
  <2>11. Reader(c)' /\ Writer(c)'
    BY <2>3 DEF Reader, Writer, Opening, Writing
  <2>12. Accounted'
    <3> SUFFICES ASSUME NEW j \in (temps \ {proc[c].ino}) \ leaked PROVE FALSE
      BY <1>3 DEF Accounted
    <3>1. PICK d \in Callers : pc[d] \in Writing /\ proc[d].ino = j
      BY DEF FileInv, Accounted
    <3> QED BY <1>1, <3>1, OnlyHolder DEF Mutating
  <2> QED BY <2>4, <2>5, <2>6, <2>7, <2>9, <2>10, <2>11, <2>12 DEF FileInv, Types
<1> QED BY <1>2, <1>3 DEF Rename, Fails

(* The end of a read and of a mutation: the ledger learns a content.       *)
LEMMA ReportMove ==
  ASSUME FileInv, NEW c \in Callers, NEW content \in Content \cup {NULL}, Report(c, content),
         pc[c] \in {"record", "recordwrite"}
  PROVE  FileInv'
<1> DEFINE Told(d) == [proc[d] EXCEPT !.late = @ \/ (Same(c, d) /\ pc[d] \in {"temp", "fill", "rename"})]
<1>1. /\ pc' = [pc EXCEPT ![c] = "idle"] /\ Release(c) /\ outside' = outside \ {c}
      /\ proc' = [[d \in Callers |-> Told(d)] EXCEPT ![c] = Idle]
      /\ ledger' = [ledger EXCEPT ![proc[c].ses][Path(c)] = content]
      /\ seen' = [seen EXCEPT ![proc[c].ses][Path(c)] = content]
      /\ UNCHANGED <<disk, data, temps, leaked>>
  BY DEF Report, ReturnFrom, Goto, RecordIn, files
<1>2. pc'[c] = "idle" /\ pc[c] \notin Writing
  BY <1>1 DEF FileInv, Types, CallsType, Writing
<1>3. proc[c].ses \in Sessions /\ Path(c) \in Paths
  BY DEF FileInv, Types, CallsType, Local, Path
<1>4. ASSUME NEW d \in Callers, d # c
      PROVE  /\ pc'[d] = pc[d] /\ (d \in outside' <=> d \in outside) /\ proc'[d] = Told(d)
             /\ proc'[d] \in Calls
             /\ proc'[d].ses = proc[d].ses /\ proc'[d].path = proc[d].path
             /\ proc'[d].ino = proc[d].ino /\ proc'[d].got = proc[d].got /\ proc'[d].new = proc[d].new
             /\ proc'[d].late <=> (proc[d].late \/ (Same(c, d) /\ pc[d] \in {"temp", "fill", "rename"}))
  <2>1. proc[d] \in Calls
    BY DEF FileInv, Types, CallsType
  <2>2. pc'[d] = pc[d] /\ (d \in outside' <=> d \in outside) /\ proc'[d] = Told(d)
    BY <1>1, <1>4 DEF FileInv, Types, CallsType
  <2>3. ASSUME NEW b \in BOOLEAN PROVE [proc[d] EXCEPT !.late = b] \in Calls
    BY <2>1 DEF Calls
  <2>4. (proc[d].late \/ (Same(c, d) /\ pc[d] \in {"temp", "fill", "rename"})) \in BOOLEAN
    OBVIOUS
  <2>5. Told(d) \in Calls
    BY <2>3, <2>4
  <2>6. /\ Told(d).ses = proc[d].ses /\ Told(d).path = proc[d].path /\ Told(d).ino = proc[d].ino
        /\ Told(d).got = proc[d].got /\ Told(d).new = proc[d].new
        /\ Told(d).late <=> (proc[d].late \/ (Same(c, d) /\ pc[d] \in {"temp", "fill", "rename"}))
    BY <2>1 DEF Calls
  <2> HIDE DEF Told
  <2> QED BY <2>2, <2>5, <2>6
<1>5. FilesType'
  BY <1>1 DEF FileInv, Types, FilesType
<1>6. SharedType'
  <2>1. ledger' \in [Sessions -> [Paths -> Content \cup {NULL}]]
    BY <1>1, <1>3 DEF FileInv, Types, SharedType
  <2>2. queue' \in Callers \cup {NULL}
    BY <1>1, SlotReturned
  <2> QED BY <1>1, <2>1, <2>2 DEF FileInv, Types, SharedType
<1>7. CallsType'
  <2>1. pc' \in [Callers -> Labels]
    BY <1>1, IdleCall DEF FileInv, Types, CallsType
  <2>2. ASSUME NEW d \in Callers PROVE proc'[d] \in Calls /\ Local(proc'[d], pc'[d])
    <3>1. CASE d = c
      <4>1. proc'[c] = Idle
        BY <1>1
      <4> QED BY <1>2, <3>1, <4>1, IdleCall
    <3>2. CASE d # c
      <4>1. Local(proc[d], pc[d])
        BY DEF FileInv, Types, CallsType
      <4> QED BY <1>4, <3>2, <4>1 DEF Local
    <3> QED BY <3>1, <3>2
  <2>3. proc' = [d \in Callers |-> proc'[d]]
    BY <1>1
  <2> QED BY <2>1, <2>2, <2>3 DEF CallsType
<1>8. Serialized'
  BY <1>1, SlotReturned
<1>9. Linked'
  BY <1>1 DEF FileInv, Linked
<1>10. ASSUME NEW d \in Callers PROVE Reader(d)' /\ Writer(d)'
  <2>1. CASE d = c
    BY <1>2, <2>1, IdleSound
  <2>2. CASE d # c
    <3>1. Reader(d) /\ Writer(d)
      BY DEF FileInv
    <3>2. Path(d)' = Path(d) /\ At(Path(d))' = At(Path(d))
      BY <1>1, <1>4, <2>2 DEF Path, At
    <3>3. Reader(d)'
      BY <1>1, <1>4, <2>2, <3>1, <3>2 DEF Reader
    <3>4. pc[d] \in {"temp", "fill", "rename"} /\ ~Same(c, d)
            => seen'[proc[d].ses][Path(d)] = seen[proc[d].ses][Path(d)]
      <4>1. pc[d] \in {"temp", "fill", "rename"} => proc[d].ses \in Sessions /\ Path(d) \in Paths
        BY DEF FileInv, Types, CallsType, Local, Path
      <4>2. seen \in [Sessions -> [Paths -> Content \cup {NULL}]]
        BY DEF FileInv, Types, SharedType
      <4> QED BY <1>1, <1>3, <4>1, <4>2 DEF Same, Path
    <3>5. Writer(d)'
      BY <1>1, <1>4, <2>2, <3>1, <3>2, <3>4 DEF Writer
    <3> QED BY <3>3, <3>5
  <2> QED BY <2>1, <2>2
<1>11. Accounted'
  <2> SUFFICES ASSUME NEW j \in temps \ leaked
               PROVE  \E d \in Callers : pc'[d] \in Writing /\ proc'[d].ino = j
    BY <1>1 DEF Accounted
  <2>1. PICK d \in Callers : pc[d] \in Writing /\ proc[d].ino = j
    BY DEF FileInv, Accounted
  <2> QED BY <1>2, <1>4, <2>1
<1> QED BY <1>5, <1>6, <1>7, <1>8, <1>9, <1>10, <1>11 DEF FileInv, Types

LEMMA ReportStep ==
  ASSUME FileInv, NEW c \in Callers, RecordRead(c) \/ RecordWrite(c)
  PROVE  FileInv'
<1>1. proc[c].got \in Content \cup {NULL} /\ proc[c].new \in Content \cup {NULL}
  BY DEF FileInv, Types, CallsType, Calls
<1> QED BY <1>1, ReportMove DEF RecordRead, RecordWrite

-----------------------------------------------------------------------------
(* The environment.                                                        *)

LEMMA BashStep ==
  ASSUME FileInv, NEW c \in Callers, Bash(c)
  PROVE  FileInv'
<1>1. PICK p \in Paths :
        /\ \/ /\ disk[p] # NULL
              /\ \E text \in Texts : data' = [data EXCEPT ![disk[p]] = text]
              /\ UNCHANGED disk
           \/ \E i \in Inodes \ Used, text \in Texts :
                disk' = [disk EXCEPT ![p] = i] /\ data' = [data EXCEPT ![i] = text]
           \/ disk' = [disk EXCEPT ![p] = NULL] /\ UNCHANGED data
        /\ outside' = outside \cup Relying(p)
  BY DEF Bash
<1>2. UNCHANGED <<temps, queue, ledger, pc, proc, seen, leaked>>
  BY DEF Bash
<1>3. disk \in [Paths -> Inodes \cup {NULL}] /\ data \in [Inodes -> Content] /\ temps \subseteq Inodes
  BY DEF FileInv, Types, FilesType
<1>4. \A i \in Inodes \ Used :
        /\ i \notin temps /\ \A q \in Paths : disk[q] # i
        /\ \A d \in Callers : pc[d] \in Opening => proc[d].ino # i
  BY DEF Used, Open, Opening
<1>5. /\ \A q \in Paths : q # p => disk'[q] = disk[q]
      /\ disk'[p] \in {disk[p], NULL} \cup (Inodes \ Used)
      /\ disk' \in [Paths -> Inodes \cup {NULL}]
  BY <1>1, <1>3
<1>6. /\ data' \in [Inodes -> Content]
      /\ \A i \in Inodes : data'[i] # data[i] => i = disk[p] \/ i \in Inodes \ Used
      /\ \A i \in Inodes : data'[i] # data[i] => data'[i] \in Texts
      /\ disk'[p] \in Inodes \ Used => data'[disk'[p]] \in Texts
  BY <1>1, <1>3, <1>4, SmallFacts DEF Used
<1>7. FilesType'
  BY <1>2, <1>5, <1>6 DEF FileInv, Types, FilesType
<1>8. SharedType' /\ CallsType' /\ Serialized' /\ Accounted'
  BY <1>1, <1>2 DEF FileInv, Types, SharedType, CallsType, Serialized, Accounted, Relying
<1>9. Linked'
  BY <1>2, <1>3, <1>4, <1>5, <1>6 DEF FileInv, Linked
<1>10. ASSUME NEW d \in Callers PROVE Reader(d)' /\ Writer(d)'
  <2>1. Reader(d) /\ Writer(d) /\ (pc[d] \in Opening \cup Writing => proc[d].ino \in Inodes)
          /\ (pc[d] # "idle" => Path(d) \in Paths)
    BY DEF FileInv, Types, CallsType, Local, Path
  <2>2. d \in outside => d \in outside'
    BY <1>1
  <2>3. /\ Path(d) = p /\ pc[d] \in Opening \cup {"verify", "temp", "fill", "rename"} => d \in outside'
        /\ Path(d)' = Path(d)
    BY <1>1, <1>2 DEF Relying, Path, Opening
  <2>4. pc[d] \in Opening => proc[d].ino \in Inodes /\ proc[d].ino \notin Inodes \ Used
    BY <1>4, <2>1
  <2>5. pc[d] \in Opening /\ Path(d) # p => disk[p] # proc[d].ino
    BY <2>1 DEF Reader
  <2>6. pc[d] \in Opening => data'[proc[d].ino] \in Texts
    BY <1>6, <2>1, <2>4 DEF Reader
  <2>7. pc[d] \in Opening /\ Path(d) # p => data'[proc[d].ino] = data[proc[d].ino]
    BY <1>6, <2>4, <2>5
  <2>8. pc[d] \in Opening => \A q \in Paths : disk'[q] = proc[d].ino => q = Path(d)
    BY <1>5, <2>1, <2>4 DEF Reader, FileInv, Types, FilesType
  <2>9. Reader(d)'
    BY <1>2, <2>1, <2>2, <2>3, <2>6, <2>7, <2>8 DEF Reader, Opening
  <2>10. pc[d] \in Writing => data'[proc[d].ino] = data[proc[d].ino]
    BY <1>3, <1>6, <2>1, <1>4 DEF Writer, FileInv, Linked, Used
  <2>11. pc[d] # "idle" /\ Path(d) # p => disk'[Path(d)] = disk[Path(d)] /\ At(Path(d))' = At(Path(d))
    BY <1>3, <1>4, <1>5, <1>6, <2>1, <2>3 DEF At, FileInv, Linked
  <2>12. Writer(d)'
    BY <1>2, <2>1, <2>2, <2>3, <2>10, <2>11 DEF Writer, Opening, Writing
  <2> QED BY <2>9, <2>12
<1> QED BY <1>7, <1>8, <1>9, <1>10 DEF FileInv, Types

LEMMA CrashStep == FileInv /\ Crash => FileInv'
<1> SUFFICES ASSUME FileInv, Crash PROVE FileInv'
  OBVIOUS
<1>1. pc' = [c \in Callers |-> "idle"] /\ proc' = [c \in Callers |-> Idle] /\ leaked' = temps
        /\ UNCHANGED <<disk, data, temps>> /\ queue' = NULL
  BY DEF Crash, files
<1>2. FilesType' /\ Linked'
  BY <1>1 DEF FileInv, Types, FilesType, Linked
<1>3. SharedType'
  BY DEF Crash, SharedType
<1>4. CallsType'
  BY <1>1, IdleCall DEF CallsType
<1>5. Serialized'
  BY <1>1 DEF Serialized, Mutating
<1>6. \A c \in Callers : Reader(c)' /\ Writer(c)'
  BY <1>1, IdleSound
<1>7. Accounted'
  BY <1>1 DEF Accounted
<1> QED BY <1>2, <1>3, <1>4, <1>5, <1>6, <1>7 DEF FileInv, Types

LEMMA FileStutter == FileInv /\ UNCHANGED vars => FileInv'
<1> SUFFICES ASSUME FileInv, UNCHANGED vars PROVE FileInv'
  OBVIOUS
<1> USE DEF vars, files, history
<1>1. FilesType' /\ SharedType' /\ CallsType' /\ Serialized' /\ Linked' /\ Accounted'
  BY DEF FileInv, Types, FilesType, SharedType, CallsType, Serialized, Linked, Accounted
<1>2. \A c \in Callers : Reader(c)' /\ Writer(c)'
  BY DEF FileInv, Reader, Writer, Path, At
<1> QED BY <1>1, <1>2 DEF FileInv, Types

LEMMA FileNext == FileInv /\ [Next]_vars => FileInv'
<1> SUFFICES ASSUME FileInv, [Next]_vars PROVE FileInv'
  OBVIOUS
<1>1. CASE UNCHANGED vars
  BY <1>1, FileStutter
<1>2. CASE Crash
  BY <1>2, CrashStep
<1>3. ASSUME NEW c \in Callers, Call(c) PROVE FileInv'
  BY <1>3, CallStep
<1>4. ASSUME NEW c \in Callers, Bash(c) PROVE FileInv'
  BY <1>4, BashStep
<1>5. ASSUME NEW c \in Callers, Step(c) PROVE FileInv'
  BY <1>5, OpenReadStep, ReadStep, CheckReadStep, ReportStep, AcquireStep, GiveUpStep,
     InspectStep, VerifyStep, CreateTempStep, FillTempStep, RenameStep DEF Step
<1> QED BY <1>1, <1>2, <1>3, <1>4, <1>5 DEF Next

LEMMA FileInvAlways == Spec => []FileInv
<1> QED BY FileInit, FileNext, PTL DEF Spec

-----------------------------------------------------------------------------
(* The theorems.                                                           *)

(* Every variable of the file tools keeps its type.                        *)
THEOREM TypeCorrect == Spec => []TypeOK
<1>1. FileInv => TypeOK
  BY InvImplies
<1> QED BY <1>1, FileInvAlways, PTL

(* MutationQueue.Do: the slot is held by exactly the call that mutates.    *)
THEOREM MutationsSerialized == Spec => []Serialized
<1>1. FileInv => Serialized
  BY InvImplies
<1> QED BY <1>1, FileInvAlways, PTL

(* read and edit never work on half of one write and half of another, and  *)
(* no path ever leads to a file that atomicReplaceFile is still writing.   *)
THEOREM TextsAreWhole == Spec => [](ReadsAreWhole /\ NoPartialFile)
<1>1. FileInv => ReadsAreWhole /\ NoPartialFile
  BY InvImplies
<1> QED BY <1>1, FileInvAlways, PTL

(* Whenever the slot is free, the only temporary files are those that a    *)
(* crash or a failed removal has left.                                     *)
THEOREM TemporariesCleared == Spec => []TempsCleared
<1>1. FileInv => TempsCleared
  BY InvImplies
<1> QED BY <1>1, FileInvAlways, PTL

(* The rename of a write or an edit takes away what the call has verified, *)
(* and that is what its session has last read or written there.            *)
THEOREM UpdatesKept == Spec => NoLostUpdate
<1> DEFINE Kept(c) == Replaces(c) /\ c \notin outside =>
                        /\ At(Path(c)) = proc[c].got
                        /\ proc[c].late \/ proc[c].got \in {NULL, seen[proc[c].ses][Path(c)]}
<1>1. FileInv => \A c \in Callers : Kept(c)
  BY DEF FileInv, Writer, Replaces
<1>2. FileInv /\ [Next]_vars => [\A c \in Callers : Kept(c)]_vars
  BY <1>1
<1> HIDE DEF Kept
<1>3. Spec => [][\A c \in Callers : Kept(c)]_vars
  BY <1>2, FileInvAlways, PTL DEF Spec
<1> QED BY <1>3 DEF NoLostUpdate, Kept
=============================================================================
