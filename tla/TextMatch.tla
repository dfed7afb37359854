---- MODULE TextMatch ----
(***************************************************************************)
(* Package textmatch: how edit finds the text to replace and what it makes  *)
(* of the file.  A text is a sequence of characters, "CR" and "LF" among    *)
(* them; the byte order mark is one character, "BOM", at the start of a     *)
(* file.  A range is half open and counts from 0, as in the code.           *)
(***************************************************************************)
EXTENDS Positions

Blank == {"space", "tab"}

\* The part of a text in a half-open range.
Slice(text, from, upto) == SubSeq(text, from + 1, upto)
Count(text, char) == Cardinality({i \in DOMAIN text : text[i] = char})

TrimRight(text, chars) ==
  Slice(text, 0, Max({0} \cup {i \in DOMAIN text : text[i] \notin chars}))

EndsLine(text, i) == text[i] = "CR" /\ i < Len(text) /\ text[i + 1] = "LF"
CRLFs(text) == Cardinality({i \in DOMAIN text : EndsLine(text, i)})
StartsWithBOM(text) == text # <<>> /\ text[1] = "BOM"

\* A text without byte order mark and with one kind of line end, and what
\* restore needs of it: the end that most lines have, LF in a tie.
normalize(text) ==
  LET dropped == {i \in DOMAIN text : EndsLine(text, i) \/ (i = 1 /\ text[i] = "BOM")}
      kept    == Ordered(Len(text), DOMAIN text \ dropped)
      content == [i \in DOMAIN kept |-> text[kept[i]]]
  IN  [content    |-> content,
       crlf       |-> 2 * CRLFs(text) > Count(text, "LF"),
       hadBOM     |-> StartsWithBOM(text),
       trailingLF |-> content # <<>> /\ Last(content) = "LF"]

restore(content, source) ==
  LET ended == IF ~source.trailingLF THEN TrimRight(content, {"LF"})
               ELSE IF content # <<>> /\ Last(content) = "LF" THEN content
               ELSE Append(content, "LF")
      lines == IF source.crlf
               THEN FlattenSeq([i \in DOMAIN ended |-> IF ended[i] = "LF" THEN <<"CR", "LF">> ELSE <<ended[i]>>])
               ELSE ended
  IN  (IF source.hadBOM THEN <<"BOM">> ELSE <<>>) \o lines

----
(* The tiers of matching. *)

splitLogicalLines(text) ==
  LET ends == Ordered(Len(text), {i \in DOMAIN text : text[i] = "LF" \/ i = Len(text)})
      Line(k) ==
        LET start == IF k = 1 THEN 0 ELSE ends[k - 1]
            end   == IF text[ends[k]] = "LF" THEN ends[k] - 1 ELSE ends[k]
        IN  [text |-> Slice(text, start, end), start |-> start, end |-> end, fullEnd |-> ends[k],
             terminated |-> text[ends[k]] = "LF"]
  IN  [k \in DOMAIN ends |-> Line(k)]

\* (a bug) The search goes on after the first character of a match.
exactMatches_Bug(content, old) ==
  LET ends == Ordered(Len(content), {i \in Len(old)..Len(content) : Slice(content, i - Len(old), i) = old})
  IN  [n \in DOMAIN ends |-> [start |-> ends[n] - Len(old), end |-> ends[n], delta |-> <<>>]]

\* From left to right, each at or after the end of the one before.
exactMatches(content, old) ==
  LET ends  == {i \in Len(old)..Len(content) : Slice(content, i - Len(old), i) = old}
      Next(ms, i) ==
        IF ms # <<>> /\ i - Len(old) < Last(ms).end THEN ms
        ELSE Append(ms, [start |-> i - Len(old), end |-> i, delta |-> <<>>])
  IN  FoldLeft(Next, <<>>, Ordered(Len(content), ends))

exactLineWindow(content, old) ==
  \A i \in DOMAIN old : TrimRight(content[i].text, Blank) = TrimRight(old[i].text, Blank)

\* The indentations that take a window of old lines to one of the content, one
\* for each line that is not blank in both.
Deltas(content, old) ==
  LET Trimmed(line) == TrimRight(line.text, Blank)
      Delta(i) == Slice(Trimmed(content[i]), 0, Len(Trimmed(content[i])) - Len(Trimmed(old[i])))
      solid == {i \in DOMAIN old : Trimmed(content[i]) # <<>> \/ Trimmed(old[i]) # <<>>}
  IN  IF \E i \in solid : ~IsSuffix(Trimmed(old[i]), Trimmed(content[i])) THEN {<<>>}
      ELSE {Delta(i) : i \in solid}
indentedLineWindow(content, old) ==
  \E delta \in Deltas(content, old) :
    Deltas(content, old) = {delta} /\ delta # <<>> /\ ToSet(delta) \subseteq Blank

\* Windows of whole lines, from top to bottom, each starting below the one
\* before.
lineMatches(content, old, allowIndentation) ==
  LET lines  == splitLogicalLines(content)
      wanted == splitLogicalLines(old)
      ended  == Last(old) = "LF"
      Window(k) == SubSeq(lines, k, k + Len(wanted) - 1)
      Fits(k) == /\ ended => Last(Window(k)).terminated
                 /\ IF allowIndentation THEN indentedLineWindow(Window(k), wanted)
                    ELSE exactLineWindow(Window(k), wanted)
      places == Ordered(Len(lines), {k \in 1..(Len(lines) - Len(wanted) + 1) : Fits(k)})
      chosen == FoldLeft(LAMBDA ks, k : IF ks # <<>> /\ k < Last(ks) + Len(wanted) THEN ks ELSE Append(ks, k),
                         <<>>, places)
      Match(k) ==
        [start |-> lines[k].start,
         end   |-> IF ended THEN Last(Window(k)).fullEnd ELSE Last(Window(k)).end,
         delta |-> IF allowIndentation THEN CHOOSE d \in Deltas(Window(k), wanted) : TRUE ELSE <<>>]
  IN  [i \in DOMAIN chosen |-> Match(chosen[i])]

indentReplacement(text, delta) ==
  LET lines == splitLogicalLines(text)
  IN  FlattenSeq([i \in DOMAIN lines |->
        delta \o lines[i].text \o (IF lines[i].terminated THEN <<"LF">> ELSE <<>>)])

\* The matches of the first tier that has one.
FirstTier(tiers) ==
  LET names == <<"exact", "whitespace", "indentation">>
      found == {t \in DOMAIN tiers : tiers[t] # <<>>}
  IN  IF found = {} THEN [tier |-> "none", matches |-> <<>>]
      ELSE [tier |-> names[Min(found)], matches |-> tiers[Min(found)]]
Tiered(content, old) ==
  FirstTier(<<exactMatches(content, old), lineMatches(content, old, FALSE), lineMatches(content, old, TRUE)>>)

\* The content with a text in place of each match.
Splice(content, matches, Replacement(_)) ==
  LET Gap(i) == Slice(content, IF i = 1 THEN 0 ELSE matches[i - 1].end, matches[i].start)
  IN  FlattenSeq([i \in DOMAIN matches |-> Gap(i) \o Replacement(matches[i])])
        \o Slice(content, Last(matches).end, Len(content))

\* The file with the new text in place of the matches found in it.
Edited(source, new, found) ==
  LET spliced == Splice(source.content, found.matches, LAMBDA m : indentReplacement(new, m.delta))
  IN  [outcome |-> "edited", content |-> restore(spliced, source), tier |-> found.tier,
       ranges  |-> [i \in DOMAIN found.matches |->
                      [start |-> found.matches[i].start, end |-> found.matches[i].end]]]

\* Apply: the edited file, or why there is none.
Unedited(file, why) == [outcome |-> why, content |-> file, tier |-> "none", ranges |-> <<>>]
Replaced(file, source, new, found, replaceAll) ==
  IF found.tier = "none" THEN Unedited(file, "no_match")
  ELSE IF Len(found.matches) > 1 /\ ~replaceAll THEN Unedited(file, "ambiguous")
  ELSE Edited(source, new, found)
Normalized(file, source, old, new, replaceAll) ==
  IF old = <<>> THEN Unedited(file, "empty")
  ELSE IF old = new THEN Unedited(file, "no_op")
  ELSE Replaced(file, source, new, Tiered(source.content, old), replaceAll)
ApplyEdit(file, oldText, newText, replaceAll) ==
  IF oldText # <<>> /\ oldText = newText THEN Unedited(file, "no_op")
  ELSE Normalized(file, normalize(file), normalize(oldText).content, normalize(newText).content, replaceAll)
====
