-------------------------------- MODULE Dotenv ---------------------------------
(***************************************************************************)
(* The .env text format: dotenv::parse and dotenv::render as operators.    *)
(*                                                                         *)
(* A text is a sequence of tokens.  A token is one character, or a word    *)
(* the parser never looks into: a valid key, or the name of a group.       *)
(* Strings are sequences of tokens too; the empty one is "no group".       *)
(* Left out: the size limits, the byte-order mark and NUL.                 *)
(***************************************************************************)
EXTENDS Integers, Sequences, FiniteSets, SequencesExt

CONSTANTS
  Keys,         \* words that validate_key_syntax accepts
  MaxEntries    \* MAX_ENTRIES

White == {" ", "\t", "\r", "\n"}
SafeLetters == {"a", "n", "r", "t", "_", "-", ".", "/", ":", "@", "%", "+"} \cup Keys
Decoration == {"=", "-", "*", " "}
Quotes == {"'", "\""}

\* A key is made of letters, digits, underscores and dots.
ASSUME DotenvAssumption ==
  /\ MaxEntries \in Nat \ {0}
  /\ Keys \cap (White \cup Quotes \cup {"=", "#"}) = {}

--------------------------------------------------------------------------------
(* str: trim, strip_prefix, split_once, lines.                                  *)

Smallest(S) == CHOOSE i \in S : \A j \in S : i <= j
Largest(S) == CHOOSE i \in S : \A j \in S : j <= i
Between(s, kept) == IF kept = {} THEN << >> ELSE SubSeq(s, Smallest(kept), Largest(kept))
TrimOf(s, drop) == Between(s, {i \in DOMAIN s : s[i] \notin drop})
Trim(s) == TrimOf(s, White)
TrimStart(s) == Between(s, {i \in DOMAIN s : \E j \in 1..i : s[j] \notin White})

StartsWith(s, chars) == s # << >> /\ s[1] \in chars
EndsWith(s, chars) == s # << >> /\ s[Len(s)] \in chars

Positions(s, token) == {i \in DOMAIN s : s[i] = token}

\* A newline ends a line, with a carriage return before it; the end of the text ends one
\* that has characters.
Chomp(line) == IF EndsWith(line, {"\r"}) THEN Front(line) ELSE line
LineChar(st, c) ==
  IF c = "\n" THEN [lines |-> Append(st.lines, Chomp(st.current)), current |-> << >>]
  ELSE [st EXCEPT !.current = Append(@, c)]
LastLine(end) == IF end.current = << >> THEN end.lines ELSE Append(end.lines, end.current)
Lines(text) == LastLine(FoldLeft(LineChar, [lines |-> << >>, current |-> << >>], text))

--------------------------------------------------------------------------------
(* Parsing.  A result is [ok, ...]; the wording of issues is left out.          *)

Failed == [ok |-> FALSE]

\* parse_double_quoted, one character at a time.
Escapable == {"n", "r", "t", "\\", "\""}
Unescape(c) == CASE c = "n" -> "\n" [] c = "r" -> "\r" [] c = "t" -> "\t" [] OTHER -> c
UnescapeChar(st, c) ==
  IF c \in Escapable THEN [st EXCEPT !.escaped = FALSE, !.value = Append(@, Unescape(c))]
  ELSE [st EXCEPT !.ok = FALSE]
InsideQuotes(st, c) ==
  CASE c = "\\" -> [st EXCEPT !.escaped = TRUE]
    [] c = "\"" -> [st EXCEPT !.closed = TRUE]
    [] OTHER -> [st EXCEPT !.value = Append(@, c)]
DoubleQuotedChar(st, c) ==
  IF ~st.ok THEN st
  ELSE IF st.closed THEN IF c \in White THEN st ELSE [st EXCEPT !.ok = FALSE]
  ELSE IF st.escaped THEN UnescapeChar(st, c)
  ELSE InsideQuotes(st, c)

Closed(end) == IF end.ok /\ end.closed THEN [ok |-> TRUE, value |-> end.value] ELSE Failed
ParseDoubleQuoted(s) ==
  Closed(FoldLeft(DoubleQuotedChar,
                  [ok |-> TRUE, escaped |-> FALSE, closed |-> FALSE, value |-> << >>], s))

UpToQuote(s, quotes) ==
  IF quotes # {} /\ Trim(SubSeq(s, Smallest(quotes) + 1, Len(s))) = << >>
  THEN [ok |-> TRUE, value |-> SubSeq(s, 1, Smallest(quotes) - 1)] ELSE Failed
ParseSingleQuoted(s) == UpToQuote(s, Positions(s, "'"))

ParseValue(s) ==
  CASE StartsWith(s, {"\""}) -> ParseDoubleQuoted(Tail(s))
    [] StartsWith(s, {"'"}) -> ParseSingleQuoted(Tail(s))
    [] OTHER -> [ok |-> TRUE, value |-> s]

\* split_once('=') after an optional "export ", and validate_key_syntax.
StripExport(s) == IF IsPrefix(<<"export", " ">>, s) THEN SubSeq(s, 3, Len(s)) ELSE s
KeyAndRaw(key, raw) ==
  IF Len(key) = 1 /\ key[1] \in Keys THEN [ok |-> TRUE, key |-> key[1], raw |-> raw] ELSE Failed
SplitAt(s, equals) ==
  IF equals = {} THEN Failed
  ELSE KeyAndRaw(Trim(SubSeq(s, 1, Smallest(equals) - 1)),
                 SubSeq(s, Smallest(equals) + 1, Len(s)))
SplitOnce(s) == SplitAt(s, Positions(s, "="))
Assignment(line) == SplitOnce(StripExport(line))

Valued(a, v) == IF v.ok THEN [ok |-> TRUE, key |-> a.key, value |-> v.value] ELSE Failed
Evaluate(a) == IF a.ok THEN Valued(a, ParseValue(Trim(a.raw))) ELSE Failed
ParseAssignment(line) == Evaluate(Assignment(line))

\* quoted_value_is_closed: a quote that no backslash escapes.
ClosedChar(st, c) ==
  IF st.closed THEN st
  ELSE IF st.escaped THEN [st EXCEPT !.escaped = FALSE]
  ELSE IF st.quote = "\"" /\ c = "\\" THEN [st EXCEPT !.escaped = TRUE]
  ELSE IF c = st.quote THEN [st EXCEPT !.closed = TRUE] ELSE st
QuotedValueIsClosed(s, quote) ==
  FoldLeft(ClosedChar, [quote |-> quote, escaped |-> FALSE, closed |-> FALSE], s).closed

\* Which quote a line leaves open, if any.
Unclosed(raw) ==
  IF StartsWith(raw, Quotes) /\ ~QuotedValueIsClosed(Tail(raw), raw[1]) THEN raw[1] ELSE ""
OpenQuoteOf(a) == IF a.ok THEN Unclosed(TrimStart(a.raw)) ELSE ""
OpenQuote(line) == OpenQuoteOf(Assignment(line))

\* normalize_group_name, parse_group_heading and infer_plain_group; << >> is no group.
NormalizeGroupName(s) == Trim(TrimOf(Trim(s), Decoration))
GroupHeading(comment) ==
  IF StartsWith(comment, {"["}) /\ EndsWith(comment, {"]"}) /\ Len(comment) > 1
  THEN NormalizeGroupName(SubSeq(comment, 2, Len(comment) - 1)) ELSE << >>

\* A comment names a group when it is decorated, or described by further comments
\* before an assignment; rest is what follows, trimmed and without blank lines.
Decorated(comment) ==
  StartsWith(comment, {"=", "-", "*"}) \/ EndsWith(comment, {"=", "-", "*"})
Described(rest, bare) ==
  StartsWith(rest[1], {"#"}) /\ bare # << >> /\ ParseAssignment(bare[1]).ok
Headline(comment, candidate, rest) ==
  IF /\ ~EndsWith(candidate, {".", ":", ";"})
     /\ "=" \notin ToSet(candidate)
     /\ rest # << >>
     /\ Decorated(comment) \/ Described(rest, SelectSeq(rest, LAMBDA l : ~StartsWith(l, {"#"})))
  THEN candidate ELSE << >>
PlainGroup(lines, index, comment) ==
  Headline(comment, NormalizeGroupName(comment),
           SelectSeq([i \in 1..(Len(lines) - index) |-> Trim(lines[index + i])],
                     LAMBDA l : l # << >>))

\* An assignment is complete: it becomes an entry unless its key is a duplicate.
AddEntry(st, a) ==
  IF a.ok /\ \A i \in DOMAIN st.entries : st.entries[i].key # a.key
  THEN [st EXCEPT !.entries = Append(@, [key |-> a.key, value |-> a.value, group |-> st.group]),
                  !.boundary = FALSE]
  ELSE [st EXCEPT !.ok = FALSE]
Finish(st, line) == AddEntry(st, ParseAssignment(line))

\* A comment line starts a group or is ignored.
EnterGroup(st, group) ==
  IF group = << >> THEN st ELSE [st EXCEPT !.group = group, !.boundary = FALSE]
Comment(lines, st, index, comment, heading) ==
  EnterGroup(st, IF heading = << >> /\ st.boundary THEN PlainGroup(lines, index, comment)
                 ELSE heading)
ParseComment(lines, st, index, comment) ==
  Comment(lines, st, index, comment, GroupHeading(comment))

\* An assignment starts; while its quote is open, held is the logical line so far.
Hold(st, start, quote) == IF quote = "" THEN Finish(st, start)
                          ELSE [st EXCEPT !.quote = quote, !.held = start]
Continue(st, line) ==
  IF QuotedValueIsClosed(line, st.quote)
  THEN Finish([st EXCEPT !.quote = ""], st.held \o <<"\n">> \o line)
  ELSE [st EXCEPT !.held = @ \o <<"\n">> \o line]
ParseStart(st, start) ==
  IF Len(st.entries) >= MaxEntries THEN [st EXCEPT !.ok = FALSE, !.stopped = TRUE]
  ELSE Hold(st, start, OpenQuote(start))

\* One physical line: the continuation of an open quote, blank, a comment, or an
\* assignment.
ParseTrimmed(lines, st, index, trimmed) ==
  CASE trimmed = << >> -> [st EXCEPT !.boundary = TRUE]
    [] StartsWith(trimmed, {"#"}) -> ParseComment(lines, st, index, Trim(Tail(trimmed)))
    [] OTHER -> ParseStart(st, TrimStart(lines[index]))
ParseLine(lines, st, index) ==
  CASE st.stopped -> st
    [] ~st.stopped /\ st.quote # "" -> Continue(st, lines[index])
    [] OTHER -> ParseTrimmed(lines, st, index, Trim(lines[index]))

\* parse: [ok, entries].  A quote still open at the end is an issue, and so is a text
\* without assignments.
Result(end) ==
  [ok |-> end.ok /\ end.quote = "" /\ end.entries # << >>, entries |-> end.entries]
Start == [ok |-> TRUE, entries |-> << >>, group |-> << >>, boundary |-> TRUE,
          quote |-> "", held |-> << >>, stopped |-> FALSE]
ParseLines(lines) ==
  LET state[i \in 0..Len(lines)] ==
        IF i = 0 THEN Start ELSE ParseLine(lines, state[i - 1], i)
  IN Result(state[Len(lines)])
Parse(text) == ParseLines(Lines(text))

--------------------------------------------------------------------------------
(* Rendering.                                                                   *)

Escape(c) == CASE c = "\\" -> <<"\\", "\\">>
               [] c = "\"" -> <<"\\", "\"">>
               [] c = "\r" -> <<"\\", "r">>
               [] c = "\t" -> <<"\\", "t">>
               [] OTHER -> <<c>>

RenderValue(v) ==
  IF ToSet(v) \subseteq SafeLetters THEN v
  ELSE <<"\"">> \o FlattenSeq([i \in DOMAIN v |-> Escape(v[i])]) \o <<"\"">>

PositionOrder(entries) == [i \in DOMAIN entries |-> i]

\* Ungrouped entries come first, then the groups by their first position.
FirstOf(entries, group) == Smallest({i \in DOMAIN entries : entries[i].group = group})
GroupRank(entries, i) ==
  IF entries[i].group = << >> THEN 0 ELSE FirstOf(entries, entries[i].group)
Precedes(entries, i, j) ==
  \/ GroupRank(entries, i) < GroupRank(entries, j)
  \/ GroupRank(entries, i) = GroupRank(entries, j) /\ i < j
Place(entries, i) == Cardinality({j \in DOMAIN entries : Precedes(entries, j, i)}) + 1
RenderOrder(entries) ==
  [p \in DOMAIN entries |-> CHOOSE i \in DOMAIN entries : Place(entries, i) = p]

\* entries is in the order of their positions.
Ordered(entries) ==
  LET order == RenderOrder(entries) IN [i \in DOMAIN order |-> entries[order[i]]]

\* A heading is written where the group changes, after a blank line.
GroupBefore(es, i) == IF i = 1 THEN << >> ELSE es[i - 1].group
Heading(es, i) ==
  IF es[i].group = GroupBefore(es, i) THEN << >>
  ELSE (IF i = 1 THEN << >> ELSE <<"\n">>) \o <<"#", " ", "[">> \o es[i].group \o <<"]", "\n">>
RenderEntry(es, i) ==
  Heading(es, i) \o <<es[i].key, "=">> \o RenderValue(es[i].value) \o <<"\n">>
RenderEntries(es) == FlattenSeq([i \in DOMAIN es |-> RenderEntry(es, i)])
Render(entries) == RenderEntries(Ordered(entries))

--------------------------------------------------------------------------------
(* What texts consist of.                                                       *)

\* The tokens that files and escapes add to keys, values and groups.
Marks == {"\\", "\"", "r", "t", "\n", "\r", "\t", "=", "#", " ", "[", "]"}

\* The group names over T that a heading preserves: of one line, and left alone by
\* normalize_group_name.
Kept(T) == {g \in Seq(T \ {"\n"}) : NormalizeGroupName(g) = g}

================================================================================
