---- MODULE ShellCommand ----
(***************************************************************************)
(* shellexec.Executor: one command at a time, its process group, the pipes  *)
(* of its output, the goroutine in Cmd.Wait and the caller, which waits for *)
(* it, for the end of its context and for the timer, and stops the group in  *)
(* two steps.  Captures are those of Capture; bash answers from them.        *)
(***************************************************************************)
EXTENDS Capture

CONSTANTS
  Descendants,  \* processes a command may leave behind
  Outputs,      \* what commands write: a text per stream
  Policy,       \* the output policy of executor and tool
  Grants,       \* what the session's budget may grant an answer
  NoteBytes,    \* the length of the line that tells of a timeout
  Faults        \* which of "start" and "signal" may fail

Processes == {"shell"} \cup Descendants
Streams == {"stdout", "stderr"}

\* NewWriter refuses a negative limit.  Any bytes may be written, in any order.
ASSUME ShellCommandAssumption ==
  /\ Policy.maxBytes \in Nat /\ Policy.headFraction \in Int
  /\ \A o \in Outputs, s \in Streams :
       /\ o[s] \in Seq([is : Classes, at : Nat])
       /\ \A i \in DOMAIN o[s] : o[s][i].at = i

VARIABLES
  pc,       \* where the caller is
  merged,   \* whether both streams are one
  output,   \* the text of each stream
  written,  \* how much of it processes have written
  copied,   \* how much of it the copying goroutines have read
  capture,  \* the writers
  open,     \* the processes that hold the write end of each pipe
  alive,    \* the processes of the group
  born,     \* those that have been started
  signals,  \* the last signal each has pending
  exit,     \* how the shell ended
  wait,     \* where Cmd.Wait is
  late,     \* whether it gave up on the pipes
  call,     \* what the caller knows: timedOut, killed and stopErr
  result,   \* what Run returned
  answer    \* what bash answered

callerVars == <<pc, call, result>>
groupVars == <<alive, born, signals, exit>>
pipeVars == <<written, copied, capture, open>>
shellVars == <<callerVars, groupVars, pipeVars, merged, output, wait, late, answer>>

NoResult == [err |-> "none"]
NoCall == [timedOut |-> FALSE, killed |-> FALSE, stopErr |-> FALSE]

ShellInit ==
  /\ pc = "idle" /\ merged = FALSE
  /\ output = [s \in Streams |-> <<>>]
  /\ written = [s \in Streams |-> 0] /\ copied = [s \in Streams |-> 0]
  /\ capture = [s \in Streams |-> NewWriter(Policy)]
  /\ open = [s \in Streams |-> {}]
  /\ alive = {} /\ born = {} /\ signals = [p \in Processes |-> "none"]
  /\ exit = "none" /\ wait = "none" /\ late = FALSE
  /\ call = NoCall /\ result = NoResult /\ answer = NoResult

Used == IF merged THEN {"stdout"} ELSE Streams

----
(* The caller: Run and RunMerged. *)

\* A context that is over, or a shell that does not start.
Refused ==
  /\ pc = "idle" /\ "start" \in Faults
  /\ pc' = "returned" /\ result' = [err |-> "start"]
  /\ UNCHANGED <<call, groupVars, pipeVars, merged, output, wait, late, answer>>

\* Merged streams are one descriptor: one pipe, one copy, one order.
Start ==
  /\ pc = "idle"
  /\ pc' = "waiting"
  /\ merged' \in BOOLEAN
  /\ output' \in Outputs
  /\ alive' = {"shell"} /\ born' = {"shell"}
  /\ open' = [s \in Streams |-> IF merged' /\ s = "stderr" THEN {} ELSE {"shell"}]
  /\ wait' = "process"
  /\ UNCHANGED <<call, result, written, copied, capture, signals, exit, late, answer>>

\* The group has a process, or a leader that was not waited for.
GroupExists == alive # {} \/ wait = "process"

Signal(signal) ==
  signals' = [p \in Processes |-> IF p \in alive THEN signal ELSE signals[p]]

Completes ==
  /\ pc = "waiting" /\ wait = "delivered"
  /\ pc' = "capturing"
  /\ UNCHANGED <<call, result, groupVars, pipeVars, merged, output, wait, late, answer>>

\* The context ends or the timer fires; pollWait looks again at the command.
Expires(why) ==
  /\ pc = "waiting"
  /\ IF wait = "delivered"
     THEN pc' = "capturing" /\ UNCHANGED call
     ELSE pc' = "stopping" /\ call' = [call EXCEPT !.timedOut = (why = "timeout")]
  /\ UNCHANGED <<result, groupVars, pipeVars, merged, output, wait, late, answer>>

\* stopProcess: a signal to the group, which may be gone by now, and the grace.
Terminate ==
  /\ pc = "stopping"
  /\ pc' = "grace"
  /\ call' = [call EXCEPT !.killed = GroupExists]
  /\ Signal("term")
  /\ UNCHANGED <<result, alive, born, exit, pipeVars, merged, output, wait, late, answer>>

Kill ==
  /\ pc = "grace"
  /\ pc' = "backstop"
  /\ call' = [call EXCEPT !.killed = @ \/ GroupExists]
  /\ Signal("kill")
  /\ UNCHANGED <<result, alive, born, exit, pipeVars, merged, output, wait, late, answer>>

Stopped ==
  /\ pc \in {"grace", "backstop"} /\ wait = "delivered"
  /\ pc' = "capturing"
  /\ UNCHANGED <<call, result, groupVars, pipeVars, merged, output, wait, late, answer>>

GivesUp ==
  /\ pc = "backstop" /\ wait # "delivered"
  /\ pc' = "capturing"
  /\ call' = [call EXCEPT !.stopErr = TRUE]
  /\ UNCHANGED <<result, groupVars, pipeVars, merged, output, wait, late, answer>>

\* captureResult and classifyExit.  A merged command has no standard error.  What
\* is read after the backstop, while the pipes may still be copied, is left out:
\* a race whose outcome every caller drops with the error.
CaptureResult ==
  /\ pc = "capturing"
  /\ pc' = "finishing"
  /\ result' = IF call.stopErr
               THEN [err |-> "none", timedOut |-> call.timedOut, killed |-> call.killed]
               ELSE [err |-> "none", timedOut |-> call.timedOut, killed |-> call.killed,
                     exit |-> exit, copied |-> copied, stdout |-> Captured(capture["stdout"]),
                     stderr |-> Captured(IF merged THEN NewWriter(Policy) ELSE capture["stderr"])]
  /\ UNCHANGED <<call, groupVars, pipeVars, merged, output, wait, late, answer>>

\* (a bug) The group is closed only after a timeout or an interruption.
FinishCommand_Bug ==
  /\ pc = "finishing"
  /\ pc' = "returned"
  /\ \/ /\ call.stopErr
        /\ result' = [result EXCEPT !.err = "backstop"]
        /\ UNCHANGED signals
     \/ /\ ~call.stopErr /\ call.killed
        /\ Signal("kill")
        /\ UNCHANGED result
     \/ /\ ~call.stopErr /\ ~call.killed
        /\ UNCHANGED <<result, signals>>
     \/ /\ ~call.stopErr /\ "signal" \in Faults /\ alive # {}
        /\ result' = [result EXCEPT !.err = "cleanup"]
        /\ UNCHANGED signals
  /\ UNCHANGED <<call, alive, born, exit, pipeVars, merged, output, wait, late, answer>>

\* finishCommand: an error of the stop, or the group closed by force, which a
\* group that is gone already is, too.
FinishCommand ==
  /\ pc = "finishing"
  /\ pc' = "returned"
  /\ \/ /\ call.stopErr
        /\ result' = [result EXCEPT !.err = "backstop"]
        /\ UNCHANGED signals
     \/ /\ ~call.stopErr
        /\ Signal("kill")
        /\ UNCHANGED result
     \/ /\ ~call.stopErr /\ "signal" \in Faults /\ alive # {}
        /\ result' = [result EXCEPT !.err = "cleanup"]
        /\ UNCHANGED signals
  /\ UNCHANGED <<call, alive, born, exit, pipeVars, merged, output, wait, late, answer>>

\* bash: an error, or the two captures within what the budget granted.
Note == [i \in 1..NoteBytes |-> IF i = NoteBytes THEN Byte("LF") ELSE Byte("plain")]
Noted(stderr) == [stderr EXCEPT !.text = IF result.timedOut THEN Note \o @ ELSE @]
Answer(grant) ==
  /\ pc = "returned" /\ ~merged
  /\ pc' = "answered"
  /\ IF result.err # "none" THEN UNCHANGED answer
     ELSE answer' = limitBashResult(result.stdout, Noted(result.stderr), grant, Policy)
                      @@ [err |-> "none", grant |-> grant]
  /\ UNCHANGED <<call, result, groupVars, pipeVars, merged, output, wait, late>>

----
(* The processes, with everything the pipes of os/exec do with their output. *)

Writes(p, s) ==
  /\ p \in alive \cap open[s] /\ wait # "delivered" /\ signals[p] # "kill"
  /\ written[s] < Len(output[s])
  /\ written' = [written EXCEPT ![s] = @ + 1]
  /\ UNCHANGED <<callerVars, groupVars, copied, capture, open, merged, output, wait, late, answer>>

\* A descendant has the descriptors it did not redirect.
Forks(p, q, streams) ==
  /\ p \in alive /\ signals[p] # "kill" /\ q \notin born
  /\ streams \subseteq {s \in Streams : p \in open[s]}
  /\ born' = born \cup {q} /\ alive' = alive \cup {q}
  /\ open' = [s \in Streams |-> IF s \in streams THEN open[s] \cup {q} ELSE open[s]]
  /\ UNCHANGED <<callerVars, signals, exit, written, copied, capture, merged, output, wait, late, answer>>

\* By itself, or by a signal: of one that is pending, or of its own.
Exits(p, how) ==
  /\ p \in alive
  /\ how = "code" => signals[p] # "kill"
  /\ alive' = alive \ {p}
  /\ exit' = IF p = "shell" THEN how ELSE exit
  /\ open' = [s \in Streams |-> open[s] \ {p}]
  /\ UNCHANGED <<callerVars, born, signals, written, copied, capture, merged, output, wait, late, answer>>

\* A copying goroutine reads what the pipe holds.
Copies(s) ==
  /\ wait \in {"process", "copying"} /\ copied[s] < written[s]
  /\ copied' = [copied EXCEPT ![s] = written[s]]
  /\ capture' = [capture EXCEPT ![s] = Write(@, SubSeq(output[s], copied[s] + 1, written[s]))]
  /\ UNCHANGED <<callerVars, groupVars, written, open, merged, output, wait, late, answer>>

Reaps ==
  /\ wait = "process" /\ "shell" \notin alive
  /\ wait' = "copying"
  /\ UNCHANGED <<callerVars, groupVars, pipeVars, merged, output, late, answer>>

\* Every pipe is at its end, or WaitDelay is over and closes them.
Delivers ==
  /\ wait = "copying"
  /\ \/ /\ \A s \in Used : open[s] = {} /\ copied[s] = written[s]
        /\ UNCHANGED late
     \/ late' = TRUE
  /\ wait' = "delivered"
  /\ UNCHANGED <<callerVars, groupVars, pipeVars, merged, output, answer>>

Step ==
  \/ Refused \/ Start \/ Completes \/ Terminate \/ Kill \/ Stopped \/ GivesUp
  \/ CaptureResult \/ FinishCommand \/ Reaps \/ Delivers
  \/ \E why \in {"context", "timeout"} : Expires(why)
  \/ \E grant \in Grants : Answer(grant)
  \/ \E p \in Processes, s \in Streams : Writes(p, s)
  \/ \E p, q \in Processes, streams \in SUBSET Streams : Forks(p, q, streams)
  \/ \E p \in Processes, how \in {"code", "signal"} : Exits(p, how)
  \/ \E s \in Streams : Copies(s)

----
(* Properties. *)

(* A command that returns without an error leaves no process of its group    *)
(* that has not been killed, whatever was forked meanwhile (finishCommand),   *)
(* and its result is what happened: one that does not say "killed" was not    *)
(* signalled while it could still write, and unless Cmd.Wait gave up on the   *)
(* pipes it has all that was written (waitForCommand, stopProcess).           *)
ResultIsFinal ==
  /\ pc \in {"returned", "answered"} /\ result.err = "none"
       => \A p \in alive : signals[p] = "kill"
  /\ pc = "finishing" =>
       /\ ~call.stopErr => wait = "delivered" /\ result.exit # "none"
       /\ ~result.killed => \A p \in Processes : signals[p] = "none"
       /\ ~call.stopErr /\ ~late => \A s \in Used : result.copied[s] = written[s]

\* The offsets of the source that a text shows.
Kept(text) == {text[i].at : i \in DOMAIN text} \ {0}
Ascending(text) ==
  \A i, j \in DOMAIN text : i < j /\ text[i].at # 0 /\ text[j].at # 0 => text[i].at < text[j].at

\* A byte of a character that began before it; a stray one is no part of any.
SplitsCharacter(source, cut) == source[cut].is \in {"lead", "cont"} /\ Continues(source[cut + 1])

\* A text that shows part of a source: in order, cut between characters and
\* line ends only, with a report that tells whether something is missing.
Shows(shown, source) ==
  LET kept == Kept(shown.text)
  IN  /\ Ascending(shown.text)
      /\ \A i \in 1..(Len(source) - 1) :
           (i \in kept) # (i + 1 \in kept) => ~SplitsCharacter(source, i) /\ ~SplitsCRLF(source, i)
      /\ shown.report.truncated <=> kept # DOMAIN source
      /\ shown.report.originalBytes >= Len(source)

\* What was copied of a stream.
Source(s) == SubSeq(output[s], 1, result.copied[s])

(* Captures show the two ends of the very bytes that were copied: Writer      *)
(* forgets the middle of the stream without splitting a character or a line   *)
(* end, losing the report of what is missing or exceeding the limit.          *)
CapturesAreWhole ==
  pc = "finishing" /\ ~call.stopErr =>
    \A s \in Used :
      /\ Shows(result[s], Source(s))
      /\ Policy.maxBytes > 0 => Cardinality(Kept(result[s].text)) <= Policy.maxBytes

(* Answers do, too, although bash cuts the captures again, markers included,  *)
(* until both fit the grant (limitBashResult).                                *)
AnswersAreWhole ==
  pc = "answered" /\ answer.err = "none" /\ result.err = "none" =>
    /\ \A s \in Used : answer[s].text # <<>> => Shows(answer[s], Source(s))
    /\ Len(answer.stdout.text) + Len(answer.stderr.text) <= answer.grant
====
