---------------------------- MODULE MCDesignRun ----------------------------
(* A run with one page for TLC; short streams of an answer; and every      *)
(* short transcript.                                                       *)
EXTENDS DesignRun, ToolStream, DesignContext
CONSTANTS p, b
-----------------------------------------------------------------------------
(* Short streams, and the streams of small batches of calls.               *)
Symbols == {"<", "/", ">", "bar", "colon", "DSML", "tool_calls", "prose"}
ShortStreams == UNION {[1 .. k -> Symbols] : k \in 0 .. 4}

Prose == {<<>>, <<"prose">>, <<"prose", "<">>, <<"<", "bar">>, <<"<", "prose", ">">>}
Values == Prose \cup {<<"<", "/", "prose", ">">>, <<"<", "/", "bar", "DSML">>}
Args == [name : Names, value : Values]
SmallCalls == [name : Names, args : {<<>>} \cup {<<arg>> : arg \in Args}]
Batches == UNION {[1 .. k -> SmallCalls] : k \in 1 .. 2} \cup
           {<<[name |-> n, args |-> <<first, second>>]>> : n \in Names, first \in Args, second \in Args}
Bars == {<<"bar">>, <<"colon">>, <<>>}

(* Text without a call is shown whole and in order, whatever was held back *)
(* on the way.                                                             *)
ASSUME ProseIsShown ==
  \A text \in ShortStreams \cup Values :
    LET st == FinishedStream(Stream(text))
    IN /\ ~st.hidden => st.shown = text
       /\ Kind(st) = "batch" => st.hidden

(* The calls of a batch come out as they went in, behind any prose and     *)
(* with any glue; a value may hold anything but its own close tag, and an  *)
(* intact marker is never shown.                                           *)
ASSUME BatchesAreRead ==
  \A calls \in Batches, glue \in Bars, before \in Prose :
    LET st == Stream(before \o RenderedBatch(calls, glue))
    IN /\ Kind(st) = "batch" /\ st.parser.calls = calls
       /\ glue = <<"bar">> => st.shown = before

(* An answer that is cut anywhere in a batch executes nothing of it, and   *)
(* from the end of the marker on the model is told.                        *)
ASSUME CutBatchesAreErrors ==
  \A calls \in Batches, cut \in 1 .. 60 :
    LET text == RenderedBatch(calls, <<"bar">>)
    IN cut < Len(text) =>
         Kind(Stream(SubSeq(text, 1, cut))) = IF cut < Len(Start) THEN "eos" ELSE "malformed"

(* While a close tag is being written the sampling is greedy, and so is    *)
(* everything between the values.                                          *)
ASSUME MarkupIsGreedy ==
  \A calls \in Batches, glue \in Bars :
    LET text == RenderedBatch(calls, glue)
        opens == Len(Open("tool_calls", glue)) + 1
    IN \A cut \in opens .. Len(text) - 1 :
         LET st == Stream(SubSeq(text, 1, cut))
             closes == \E k \in 1 .. 8 :
               cut >= k /\ cut - k + Len(Close("parameter", glue)) <= Len(text) /\
               k < Len(Close("parameter", glue)) /\
               SubSeq(text, cut - k + 1, cut - k + Len(Close("parameter", glue))) = Close("parameter", glue)
         IN st.parser.state = "structural" \/ closes => WantsGreedy(st)
-----------------------------------------------------------------------------
(* A context of a few tokens, and every transcript of up to eight tokens.  *)
Tokens == {User, "word"}
Transcripts == UNION {[1 .. k -> Tokens] : k \in 0 .. 8}
Words(n) == [i \in 1 .. n |-> "word"]

(* What a compaction keeps verbatim is bounded, follows the system prompt  *)
(* and begins with the first message of the user within the share.         *)
ASSUME CompactionKeepsTheTail ==
  \A transcript \in Transcripts, sys \in 0 .. 3 :
    sys < Len(transcript) =>
      /\ TailIsBounded(transcript, sys)
      /\ TailBeginsWithUser(transcript, sys)
      /\ \A summary \in 1 .. SummaryMax, jobs \in 0 .. 2 :
           CompactedIsBounded(transcript, Words(sys), Words(summary), Words(jobs))

(* A compaction that may be asked for leaves a transcript that is not      *)
(* compacted again, unless the prompt, the summary, the share and the jobs *)
(* reach the soft limit by themselves.                                     *)
ASSUME CompactionHelps ==
  \A transcript \in Transcripts, sys \in 0 .. 3, summary \in 1 .. SummaryMax, jobs \in 0 .. 2 :
    /\ ~NothingToCompact(transcript, Words(sys))
    /\ ShouldCompact(Len(transcript)) /\ MayAsk(transcript)
    /\ summary <= SummaryLimit(transcript)
    /\ ~ShouldCompact(sys + summary + TailBudget + jobs)
    => ~ShouldCompact(Len(Compacted(transcript, Words(sys), Words(summary), Words(jobs))))
=============================================================================
