---------------------------- MODULE DesignSession ----------------------------
(***************************************************************************)
(* The named sessions of a local Design process (ds4_design.c): the        *)
(* transcript that lives in the engine, the identity (title and second of  *)
(* birth, hashed) it is saved under, and the files of the cache directory. *)
(*                                                                         *)
(* A conversation is a number: every transcript built from the system      *)
(* prompt starts a new one.  An identity is the number of the conversation *)
(* it was derived for.  Two equal titles of one second share an identity   *)
(* in the code; here they do not.  A conversation that a compaction cut to *)
(* a summary and a tail is the same conversation.                          *)
(***************************************************************************)
EXTENDS Naturals

CONSTANT MaxConversations   (* bound on the transcripts ever begun         *)

ASSUME SessionAssumption == MaxConversations \in Nat \ {0}

VARIABLES
  live,    (* the transcript, the identity it is saved under (0 = none),   *)
           (* how many were begun, and the identities that a /new which    *)
           (* failed half way has given to another transcript              *)
  saved    (* identity -> the conversation its file holds, 0 = no file     *)

sessionVars == <<live, saved>>

Conversations == 1 .. MaxConversations

SessionInit ==
  /\ live = [said |-> 1, id |-> 0, begun |-> 1, botched |-> {}]
  /\ saved = [i \in Conversations |-> 0]

(* run_turn: the first prompt of a session names it.                       *)
Named(s) == [s EXCEPT !.id = IF s.id = 0 THEN s.said ELSE s.id]

(* design_session_save_now: a session without a title gets one, the whole  *)
(* file is written aside and renamed over the one of the identity.  A save *)
(* may fail before it (nothing happens) or after the identity was chosen.  *)
Saves ==
  /\ live' = Named(live)
  /\ saved' = [saved EXCEPT ![live'.id] = live.said]
SaveFails ==
  /\ live' \in {live, Named(live)}
  /\ saved' = saved

(* design_session_switch: exactly one file of this model matches, and its  *)
(* contents have the identity of its name; nothing is saved before it, and *)
(* a load that fails leaves the transcript.                                *)
(* Faulty variant: the identity of the session that is left is kept.       *)
SwitchedKeepingIdentity(i) == [live EXCEPT !.said = saved[i]]
Switched(i) == [live EXCEPT !.said = saved[i], !.id = i]
Switches ==
  /\ \E i \in Conversations : saved[i] # 0 /\ live' \in {live, Switched(i)}
  /\ saved' = saved

(* design_session_delete: the file goes; the live session keeps its name.  *)
Deletes ==
  /\ \E i \in Conversations : saved[i] # 0 /\ saved' = [saved EXCEPT ![i] = 0]
  /\ live' = live

(* design_session_new: the transcript is replaced by the system prompt, by *)
(* its checkpoint or by a cold prefill, and only then the name is dropped: *)
(* a prefill that fails leaves the new transcript under the old name.      *)
Unsaid == [live EXCEPT !.said = live.begun + 1, !.begun = @ + 1]
RenewedSession == [Unsaid EXCEPT !.id = 0]
HalfRenewed == [Unsaid EXCEPT !.botched = @ \cup ({live.id} \ {0})]
Renews(done) ==
  /\ live.begun < MaxConversations
  /\ live' = IF done THEN RenewedSession ELSE HalfRenewed
  /\ saved' = saved

(* A new process starts with the system prompt and no name.                *)
Boots ==
  /\ live.begun < MaxConversations
  /\ live' = RenewedSession
  /\ saved' = saved

(* design_find_session, design_list_sessions: what a listing shows.        *)
Listed == {i \in Conversations : saved[i] # 0}
-----------------------------------------------------------------------------
SessionTypeOK ==
  /\ live \in [said : Conversations, id : 0 .. MaxConversations,
               begun : Conversations, botched : SUBSET Conversations]
  /\ saved \in [Conversations -> 0 .. MaxConversations]

(* "once a session has a title and creation time, resaving it keeps the    *)
(* same file name while the transcript and KV payload evolve": the file of *)
(* a session never holds another conversation, whatever was saved,         *)
(* switched to, deleted and begun between.  The session that a /new left   *)
(* when its prefill failed is the exception.                               *)
OneConversationPerFile ==
  \A i \in Conversations \ live.botched : saved[i] \in {0, i}
=============================================================================
