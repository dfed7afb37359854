---- MODULE OutputLimit ----
(***************************************************************************)
(* Package outputlimit: how a text is cut to limits on its bytes, its      *)
(* lines and the bytes of a line.  A text is a sequence of bytes, each a    *)
(* record of its class (what it is) and of its offset in the source (at);   *)
(* what the code adds has offset 0.  The classes are a "plain" byte, the     *)
(* "CR" and "LF" of line ends, and the "lead" and "cont" bytes of characters *)
(* encoded in several.  The code looks at classes only, the properties at    *)
(* offsets: they say which part of the source was kept.  A                  *)
(* marker takes two bytes, the first of which stands for what it says.      *)
(***************************************************************************)
EXTENDS Positions

Classes == {"plain", "CR", "LF", "lead", "cont"}
Byte(class) == [is |-> class, at |-> 0]
Break == <<Byte("LF")>>

Report(reason, originalBytes, originalLines, keptBytes, keptLines) ==
  [truncated |-> reason # "", reason |-> reason,
   originalBytes |-> originalBytes, originalLines |-> originalLines,
   keptBytes |-> keptBytes, keptLines |-> keptLines]

\* What a marker says of the report it is written from.
Marker(report) == <<[is |-> "open", at |-> 0, says |-> report], Byte("close")>>

EndsWith(text, class) == text # <<>> /\ Last(text).is = class

----
(* Cutting points. *)

Continues(byte) == byte.is = "cont"
SplitsCRLF(text, cut) ==
  0 < cut /\ cut < Len(text) /\ text[cut].is = "CR" /\ text[cut + 1].is = "LF"

\* The length of the longest prefix within limit that splits neither a
\* character nor a line end.
inwardHead(text, limit) ==
  IF limit <= 0 THEN 0
  ELSE IF limit >= Len(text) THEN Len(text)
  ELSE LET end == Max({0} \cup {e \in 1..limit : ~Continues(text[e + 1])})
       IN  IF SplitsCRLF(text, end) THEN end - 1 ELSE end

\* Where the longest such suffix starts.
inwardTail(text, limit) ==
  IF limit <= 0 THEN Len(text)
  ELSE IF limit >= Len(text) THEN 0
  ELSE LET from  == Len(text) - limit
           start == Min({Len(text)} \cup {e \in from..(Len(text) - 1) : ~Continues(text[e + 1])})
       IN  IF SplitsCRLF(text, start) THEN start + 1 ELSE start

\* A limit divided between head and tail by the percentage of the head.
limitSplit(limit, fraction) ==
  LET share == Max({0, Min({100, fraction})})
  IN  IF limit <= 0 THEN <<0, 0>>
      ELSE <<(limit * share) \div 100, limit - (limit * share) \div 100>>

----
(* Policy.Apply. *)

\* The lines of a text, each a body and its terminator.
splitLines(text) ==
  LET last == {i \in DOMAIN text : text[i].is = "LF" \/ i = Len(text)}
      ends == Ordered(Len(text), last)
      Line(k) ==
        LET first == IF k = 1 THEN 1 ELSE ends[k - 1] + 1
            term  == IF text[ends[k]].is # "LF" THEN 0
                     ELSE IF ends[k] > first /\ text[ends[k] - 1].is = "CR" THEN 2 ELSE 1
        IN  [body |-> SubSeq(text, first, ends[k] - term),
             term |-> SubSeq(text, ends[k] - term + 1, ends[k])]
  IN  [k \in DOMAIN ends |-> Line(k)]

\* A line whose body is over the limit keeps its two ends, and remembers the
\* marker that goes between them.
prepareCompleteLine(line, p) ==
  IF p.maxLineBytes <= 0 \/ Len(line.body) <= p.maxLineBytes
  THEN [source |-> line.body \o line.term, marker |-> <<>>, at |-> 0]
  ELSE LET split == limitSplit(p.maxLineBytes, p.headFraction)
           head  == inwardHead(line.body, split[1])
           tail  == Max({head, inwardTail(line.body, split[2])})
           kept  == SubSeq(line.body, 1, head) \o SubSeq(line.body, tail + 1, Len(line.body))
       IN  [source |-> kept \o line.term, at |-> head,
            marker |-> Marker(Report("line_length", Len(line.body), 1, Len(kept), 1))]

\* A selection is an edge [line, from, upto] of a prepared line.
Bytes(selections) == FoldLeft(LAMBDA n, s : n + s.upto - s.from, 0, selections)
Lines(selections) == {selections[i].line : i \in DOMAIN selections}

\* One more line, whole or the part of it that there is room for.
Selecting(acc, p, id, new, size, edge) ==
  LET kept == edge[2] - edge[1]
      full == \/ p.maxLines > 0 /\ acc.lines = 0 /\ new
              \/ p.maxBytes > 0 /\ acc.room = 0 /\ size > 0
              \/ kept = 0 /\ size > 0
  IN  IF acc.done \/ full THEN [acc EXCEPT !.done = TRUE]
      ELSE [room     |-> acc.room - kept,
            lines    |-> IF new THEN acc.lines - 1 ELSE acc.lines,
            selected |-> Append(acc.selected, [line |-> id, from |-> edge[1], upto |-> edge[2]]),
            done     |-> kept # size]

\* The lines in the given order, each whole or the edge Edge gives of it, until
\* the room for bytes or for lines ends; lines the other side has take no room.
selectWithin(lines, order, room, p, taken, Edge(_, _)) ==
  LET Part(source, limit) == IF p.maxBytes > 0 /\ Len(source) > limit THEN Edge(source, limit) ELSE <<0, Len(source)>>
      Take(acc, id) == Selecting(acc, p, id, id \notin taken, Len(lines[id].source), Part(lines[id].source, acc.room))
      start == [room |-> room, lines |-> p.maxLines - Cardinality(taken), selected |-> <<>>,
                done |-> p.maxLines > 0 /\ p.maxLines < Cardinality(taken)]
  IN  FoldLeft(Take, start, order).selected

selectPrefixWithin(lines, room, p, taken) ==
  selectWithin(lines, [i \in DOMAIN lines |-> i], room, p, taken,
               LAMBDA source, limit : <<0, inwardHead(source, limit)>>)
selectSuffixWithin(lines, room, p, taken) ==
  Reverse(selectWithin(lines, Reverse([i \in DOMAIN lines |-> i]), room, p, taken,
                       LAMBDA source, limit : <<inwardTail(source, limit), Len(source)>>))

\* A side with what the other leaves.
PrefixBeside(lines, p, tail) == selectPrefixWithin(lines, p.maxBytes - Bytes(tail), p, Lines(tail))
SuffixBeside(lines, p, head) == selectSuffixWithin(lines, p.maxBytes - Bytes(head), p, Lines(head))

\* First the tail within its share, then the head beside it, then the tail
\* again beside the head.
selectOuterEdges(lines, p) ==
  LET bytes == limitSplit(p.maxBytes, p.headFraction)[2]
      share == limitSplit(p.maxLines, p.headFraction)[2]
      first == IF p.maxLines > 0 /\ share = 0 THEN <<>>
               ELSE selectSuffixWithin(lines, bytes, [p EXCEPT !.maxLines = share], {})
      head  == PrefixBeside(lines, p, first)
  IN  [head |-> head, tail |-> SuffixBeside(lines, p, head)]

\* A selection with the marker of its line, when its cut is inside.
renderRange(line, from, upto) ==
  LET whole  == from = 0 /\ upto = Len(line.source)
      marked == whole \/ (from < line.at /\ line.at < upto)
  IN  IF marked THEN SubSeq(line.source, from + 1, line.at) \o line.marker \o SubSeq(line.source, line.at + 1, upto)
      ELSE SubSeq(line.source, from + 1, upto)
renderSelections(lines, selections) ==
  FlattenSeq([i \in DOMAIN selections |->
                renderRange(lines[selections[i].line], selections[i].from, selections[i].upto)])

\* A head on lines of its own, the marker, and the tail or the line end of the
\* input.
Framed(head, marker, tail, input) ==
  head \o (IF head # <<>> /\ ~EndsWith(head, "LF") THEN Break ELSE <<>>) \o marker
       \o (IF tail # <<>> THEN Break \o tail
           ELSE IF ~EndsWith(input, "LF") THEN <<>>
           ELSE IF Len(input) > 1 /\ input[Len(input) - 1].is = "CR" THEN <<Byte("CR")>> \o Break
           ELSE Break)

processedBytes(lines) == FoldLeft(LAMBDA n, line : n + Len(line.source), 0, lines)

truncationReason(p, lines) ==
  IF p.maxBytes > 0 /\ processedBytes(lines) > p.maxBytes THEN "bytes"
  ELSE IF p.maxLines > 0 /\ Len(lines) > p.maxLines THEN "lines"
  ELSE ""

renderCompleteSelection(input, lines) ==
  LET elided == \E i \in DOMAIN lines : lines[i].marker # <<>>
  IN  [report |-> Report(IF elided THEN "line_length" ELSE "", Len(input), Len(lines), processedBytes(lines), Len(lines)),
       text   |-> FlattenSeq([i \in DOMAIN lines |-> renderRange(lines[i], 0, Len(lines[i].source))])]

renderTruncatedSelection(input, lines, reason, edges) ==
  LET report == Report(reason, Len(input), Len(lines), Bytes(edges.head) + Bytes(edges.tail),
                       Cardinality(Lines(edges.head) \cup Lines(edges.tail)))
  IN  [report |-> report,
       text   |-> Framed(renderSelections(lines, edges.head), Marker(report),
                         renderSelections(lines, edges.tail), input)]

renderPrepared(p, input, lines) ==
  IF truncationReason(p, lines) = "" THEN renderCompleteSelection(input, lines)
  ELSE renderTruncatedSelection(input, lines, truncationReason(p, lines), selectOuterEdges(lines, p))

PreparedLines(p, split) == [i \in DOMAIN split |-> prepareCompleteLine(split[i], p)]
Apply(p, input) == renderPrepared(p, input, PreparedLines(p, splitLines(input)))

\* strings.Replace of one marker by another, at its first place.
Remarked(text, old, new) ==
  LET places == {i \in 1..(Len(text) - 1) : SubSeq(text, i, i + 1) = old}
      place  == Min(places)
  IN  IF places = {} THEN text ELSE [text EXCEPT ![place] = new[1], ![place + 1] = new[2]]
====
