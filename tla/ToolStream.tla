----------------------------- MODULE ToolStream -----------------------------
(***************************************************************************)
(* How a Design turn finds the tool calls in what the model streams        *)
(* (ds4_design.c): text is shown as it comes, a suffix that may still      *)
(* become the opening marker is held back, and from the marker on          *)
(* everything goes to a parser of the tool markup.  A model in the cloud   *)
(* mangles the bars of the markup, so any glue, or none, is accepted       *)
(* between the words of a tag, and a marker with a wrong last letter.      *)
(*                                                                         *)
(* A stream is a sequence of symbols: the punctuation, the words of the    *)
(* markup, the attribute name="..." (a member of Names) and prose.  Module *)
(* DesignRun acts on how a stream ends (the kind of an answer).            *)
(***************************************************************************)
EXTENDS Naturals, Sequences, FiniteSets

CONSTANT Names         (* what a name attribute may say                     *)

Glue == {"bar", "colon", "space"}
Marker == {"DSML", "DSMI"}
Start == <<"<", "bar", "DSML", "bar", "tool_calls", ">">>

(* dsml_skip_sep                                                           *)
SkipGlue(s, i) ==
  CHOOSE j \in i .. Len(s) + 1 :
    /\ \A k \in i .. j - 1 : s[k] \in Glue
    /\ j <= Len(s) => s[j] \notin Glue

(* dsml_match_marker and the word after it: where the word was, or 0.      *)
PastWord(s, i, word) ==
  LET m == SkipGlue(s, i)
      w == SkipGlue(s, m + 1)
  IN IF m <= Len(s) /\ s[m] \in Marker /\ w <= Len(s) /\ s[w] = word THEN w ELSE 0

(* dsml_open_tag_is: a tag starts with "<" and ends with its first ">".    *)
OpenTagIs(tag, word) ==
  LET w == IF tag[1] = "<" THEN PastWord(tag, 2, word) ELSE 0
  IN w # 0 /\ tag[w + 1] \in {">", "space"} \cup Names

(* dsml_close_tag_at: the position of the ">" of a close tag, or 0.        *)
CloseTagAt(s, i, word) ==
  LET w == IF i < Len(s) /\ s[i] = "<" /\ s[i + 1] = "/" THEN PastWord(s, i + 2, word) ELSE 0
      e == SkipGlue(s, w + 1)
  IN IF w # 0 /\ e <= Len(s) /\ s[e] = ">" THEN e ELSE 0

First(S) == CHOOSE i \in S : \A j \in S : i <= j
-----------------------------------------------------------------------------
(* The parser.  Its state is one of "search", "structural", "value",       *)
(* "done", "error"; a call is a name and its arguments.                    *)
NoCallYet == [name |-> "none", args |-> <<>>]
NewParser ==
  [state |-> "search", tail |-> <<>>, raw |-> <<>>, pos |-> 1, call |-> NoCallYet,
   param |-> "none", value |-> 0, calls |-> <<>>, suspect |-> FALSE]

(* tool_calls_push: a call without a name is not pushed, and stays.        *)
Pushed(p) ==
  IF p.call.name = "none" THEN p
  ELSE [p EXCEPT !.calls = Append(@, p.call), !.call = NoCallYet]

(* dsml_parse, one turn of its loop: in a value, to the first close tag.   *)
ParseValue(p) ==
  LET ends == {i \in p.value .. Len(p.raw) : CloseTagAt(p.raw, i, "parameter") # 0}
      e == First(ends)
  IN IF ends = {} THEN p
     ELSE [p EXCEPT
             !.call.args = Append(@, [name |-> p.param, value |-> SubSeq(p.raw, p.value, e - 1)]),
             !.pos = CloseTagAt(p.raw, e, "parameter") + 1, !.state = "structural",
             !.param = "none"]

(* An open tag: an invoke drops what was not pushed, a tag needs its name, *)
(* and anything else is an error.                                          *)
ParseTag(p, tag) ==
  LET named == {i \in 1 .. Len(tag) : tag[i] \in Names}
      name == tag[First(named)]
      next == p.pos + Len(tag)
  IN IF OpenTagIs(tag, "invoke") /\ named # {}
     THEN [p EXCEPT !.call = [name |-> name, args |-> <<>>], !.pos = next]
     ELSE IF OpenTagIs(tag, "parameter") /\ named # {}
     THEN [p EXCEPT !.param = name, !.pos = next, !.value = next, !.state = "value"]
     ELSE [p EXCEPT !.state = "error"]

ParseStructure(q) ==
  LET blank == {i \in q.pos .. Len(q.raw) : q.raw[i] # "space"}
      past == [q EXCEPT !.pos = IF blank = {} THEN Len(q.raw) + 1 ELSE First(blank)]
      ends == {i \in past.pos .. Len(past.raw) : past.raw[i] = ">"}
      over == CloseTagAt(past.raw, past.pos, "tool_calls")
      invoked == CloseTagAt(past.raw, past.pos, "invoke")
  IN IF over # 0 THEN [Pushed(past) EXCEPT !.pos = over + 1, !.state = "done"]
     ELSE IF invoked # 0 THEN [Pushed(past) EXCEPT !.pos = invoked + 1]
     ELSE IF ends = {} THEN past
     ELSE ParseTag(past, SubSeq(past.raw, past.pos, First(ends)))

ParseStep(p) ==
  CASE p.state = "value" -> ParseValue(p)
    [] p.state = "structural" -> ParseStructure(p)
    [] OTHER -> p

(* dsml_parse: until it can go no further with what there is.  A symbol    *)
(* completes one tag or value at most, which the first turn consumes.      *)
Parse(p) == ParseStep(ParseStep(p))

(* dsml_feed, one symbol.  In the search every completed tag is looked at: *)
(* the opening marker, mangled or not, starts the structure, and another   *)
(* tag of the markup makes the answer suspect.                             *)
Opened(p) ==
  [p EXCEPT !.state = "structural", !.tail = <<>>, !.raw = Start, !.pos = Len(Start) + 1]

LooksLikeMarkup(tag) ==
  LET m == SkipGlue(tag, IF tag[2] = "/" THEN 3 ELSE 2)
  IN tag[m] \in Marker

Search(p, c) ==
  LET tail == Append(p.tail, c)
      opens == {i \in 1 .. Len(tail) : tail[i] = "<"}
      lt == CHOOSE i \in opens : \A j \in opens : j <= i
      tag == SubSeq(tail, lt, Len(tail))
  IN IF c # ">" \/ opens = {} THEN [p EXCEPT !.tail = tail]
     ELSE IF OpenTagIs(tag, "tool_calls") THEN Opened(p)
     ELSE [p EXCEPT !.tail = tail, !.suspect = @ \/ LooksLikeMarkup(tag)]

Feed(p, c) ==
  CASE p.state = "search" -> Search(p, c)
    [] p.state \in {"structural", "value"} -> Parse([p EXCEPT !.raw = Append(@, c)])
    [] OTHER -> p
-----------------------------------------------------------------------------
(* What is shown.                                                          *)
NewStream == [parser |-> NewParser, hold |-> <<>>, shown |-> <<>>, hidden |-> FALSE]

(* stream_text: the longest suffix that the marker may start with is held. *)
MayOpen(s) == Len(s) <= Len(Start) /\ s = SubSeq(Start, 1, Len(s))
HeldFrom(s) == First({i \in 1 .. Len(s) + 1 : MayOpen(SubSeq(s, i, Len(s)))})

Streamed(st, c) ==
  LET fed == Feed(st.parser, c)
      hold == Append(st.hold, c)
      from == HeldFrom(hold)
  IN IF st.hidden THEN [st EXCEPT !.parser = fed]
     ELSE IF fed.state # "search" THEN [st EXCEPT !.parser = fed, !.hold = <<>>, !.hidden = TRUE]
     ELSE [st EXCEPT !.parser = fed, !.shown = @ \o SubSeq(hold, 1, from - 1),
                     !.hold = SubSeq(hold, from, Len(hold))]

(* stream_finish                                                           *)
FinishedStream(st) ==
  IF st.hidden THEN st ELSE [st EXCEPT !.shown = @ \o st.hold, !.hold = <<>>]

(* A whole answer; nothing is sampled after the calls or an error.         *)
Stream(text) ==
  LET after[i \in 0 .. Len(text)] ==
        IF i = 0 THEN NewStream
        ELSE LET st == after[i - 1]
             IN IF st.parser.state \in {"done", "error"} THEN st ELSE Streamed(st, text[i])
  IN after[Len(text)]

(* run_turn, design_remote_run_turn: a stanza that is not complete and     *)
(* markup that could not be adopted are errors the model is told of.       *)
Kind(st) ==
  CASE st.parser.state = "done" -> "batch"
    [] st.parser.state = "search" /\ ~st.parser.suspect -> "eos"
    [] OTHER -> "malformed"

(* dsml_parameter_close_tail, dsml_update_param_close_prefix: the tail of  *)
(* a value may still become its close tag.                                 *)
CloseWords == {<<>>} \cup {<<m>> : m \in Marker} \cup {<<m, "parameter">> : m \in Marker}
NotGlue(c) == c \notin Glue
MayClose(tail) ==
  \/ tail = <<"<">>
  \/ /\ Len(tail) > 1 /\ tail[1] = "<" /\ tail[2] = "/"
     /\ SelectSeq(SubSeq(tail, 3, Len(tail)), NotGlue) \in CloseWords
ClosePrefix(p) ==
  LET opens == {i \in p.value .. Len(p.raw) : p.raw[i] = "<"}
      lt == CHOOSE i \in opens : \A j \in opens : j <= i
  IN p.state = "value" /\ opens # {} /\ MayClose(SubSeq(p.raw, lt, Len(p.raw)))

(* stream_wants_greedy: the markup is not left to chance, values are.      *)
WantsGreedy(st) ==
  /\ st.parser.state \notin {"done", "error"}
  /\ Len(st.hold) > 1 \/ st.parser.state = "structural" \/ ClosePrefix(st.parser)
-----------------------------------------------------------------------------
(* The markup of a batch, with some glue in the place of its bars.         *)
Open(word, glue) == <<"<">> \o glue \o <<"DSML">> \o glue \o <<word>>
Close(word, glue) == <<"<", "/">> \o glue \o <<"DSML">> \o glue \o <<word, ">">>

RenderedArg(arg, glue) ==
  Open("parameter", glue) \o <<arg.name, ">">> \o arg.value \o Close("parameter", glue)
RenderedCall(call, glue) ==
  LET args[k \in 0 .. Len(call.args)] ==
        IF k = 0 THEN <<>> ELSE args[k - 1] \o RenderedArg(call.args[k], glue)
  IN Open("invoke", glue) \o <<call.name, ">">> \o args[Len(call.args)] \o Close("invoke", glue)
RenderedBatch(calls, glue) ==
  LET body[k \in 0 .. Len(calls)] ==
        IF k = 0 THEN <<>> ELSE body[k - 1] \o RenderedCall(calls[k], glue)
  IN Open("tool_calls", glue) \o <<">">> \o body[Len(calls)] \o Close("tool_calls", glue)
=============================================================================
