---------------------------- MODULE DesignContext ----------------------------
(***************************************************************************)
(* How a local Design process keeps its transcript within the context of   *)
(* the engine (ds4_design.c): when it compacts, what a compaction keeps,   *)
(* and what still fits.  DesignRun has the turns around it, where a        *)
(* compaction succeeds or fails.                                           *)
(*                                                                         *)
(* A transcript is a sequence of tokens, of which only User, the one that  *)
(* begins a message of the user, is told from the others; sys is the       *)
(* length of the system prompt.                                            *)
(***************************************************************************)
EXTENDS Naturals, Sequences

CONSTANTS
  Context,         (* ctx_size                                              *)
  SoftPercent,     (* DESIGN_COMPACT_SOFT_PERCENT                           *)
  MinFree,         (* DESIGN_COMPACT_MIN_FREE_TOKENS                        *)
  TailDivisor,     (* DESIGN_COMPACT_TAIL_DIVISOR                           *)
  TailCap,         (* DESIGN_COMPACT_TAIL_CAP_TOKENS                        *)
  SummaryMax,      (* DESIGN_COMPACT_SUMMARY_MAX_TOKENS                     *)
  MinRoom,         (* the least room for a summary, 256 tokens              *)
  Request,         (* the tokens of the request for a summary               *)
  User

ASSUME ContextAssumption ==
  /\ {Context, SoftPercent, MinFree, TailCap, SummaryMax, MinRoom, Request} \subseteq Nat
  /\ TailDivisor \in Nat \ {0}

Least(a, b) == IF a < b THEN a ELSE b
-----------------------------------------------------------------------------
(* design_should_compact                                                   *)
ShouldCompact(used) ==
  /\ Context > 0 /\ used > 0
  /\ \/ used >= (Context * SoftPercent) \div 100
     \/ Context <= used + Least(MinFree, Context \div 4)

(* design_message_fits_context, design_tool_result_fits_context            *)
Fits(transcript, message, reserve) == Len(transcript) + message + reserve < Context

(* design_compact_tail_start: a share of the context, but not of the       *)
(* system prompt, and from the first message of the user in it.  The       *)
(* number of tokens that are not kept verbatim.                            *)
Budget == Least(Context \div TailDivisor, TailCap)
TailBudget == IF Budget < 1 THEN 1 ELSE Budget

Target(bottom, sys) == IF bottom < sys + TailBudget THEN sys ELSE bottom - TailBudget

UserFrom(transcript, target) ==
  {i \in target .. Len(transcript) - 1 : transcript[i + 1] = User}

TailStart(transcript, sys) ==
  LET target == Target(Len(transcript), sys)
      users == UserFrom(transcript, target)
  IN IF users = {} THEN target ELSE CHOOSE i \in users : \A j \in users : i <= j

KeptTail(transcript, sys) ==
  SubSeq(transcript, TailStart(transcript, sys) + 1, Len(transcript))

(* design_agent_compact: a transcript that is not longer than the system   *)
(* prompt, as it is rendered now, stays; there must be room to ask for a   *)
(* summary, and the summary takes no more than the room there is.          *)
NothingToCompact(transcript, system) == Len(transcript) <= Len(system)
Room(transcript) == Context - (Len(transcript) + Request) - 1
MayAsk(transcript) == Len(transcript) + Request + 1 + MinRoom <= Context
SummaryLimit(transcript) == Least(Room(transcript), SummaryMax)

(* The prompt, the message with the summary, the tail; and after them the  *)
(* report of the shell jobs, if there are any.                             *)
Compacted(transcript, system, summary, jobs) ==
  system \o summary \o KeptTail(transcript, Len(system)) \o jobs
-----------------------------------------------------------------------------
(* What a compaction leaves is bounded, however long the transcript was.   *)
TailIsBounded(transcript, sys) ==
  LET start == TailStart(transcript, sys)
  IN start \in sys .. Len(transcript) /\ Len(transcript) - start <= TailBudget

(* The tail begins with a message of the user if one begins in the share   *)
(* of the context, and no earlier message of the share is lost.            *)
TailBeginsWithUser(transcript, sys) ==
  LET start == TailStart(transcript, sys)
      target == Target(Len(transcript), sys)
  IN IF \E i \in target .. Len(transcript) - 1 : transcript[i + 1] = User
     THEN transcript[start + 1] = User /\ \A i \in target .. start - 1 : transcript[i + 1] # User
     ELSE start = target

(* The transcript after a compaction is as long as its parts, the tail     *)
(* being the only one taken from the old transcript.                       *)
CompactedIsBounded(transcript, system, summary, jobs) ==
  Len(Compacted(transcript, system, summary, jobs))
    <= Len(system) + Len(summary) + TailBudget + Len(jobs)
=============================================================================
