----------------------------- MODULE TurnInput ------------------------------
(***************************************************************************)
(* What the user is promised about text sent to a running turn             *)
(* (docs/GOALS_AND_STEERING.md): inputs reach the transcript of their own  *)
(* turn, once and in the order of admission; a receipt follows the append; *)
(* a turn is closed only when everything admitted to it was appended,      *)
(* receipted and heard by the model, and takes nothing more after that.    *)
(***************************************************************************)
EXTENDS Naturals, Sequences, SequencesExt

CONSTANTS Ids,   (* inputId of the requests of the user                     *)
          Turns  (* the turns                                               *)

VARIABLES
  admitted,  (* admitted[t]: the ids admitted to turn t                     *)
  appended,  (* appended[t]: the ids in the transcript of turn t            *)
  heard,     (* heard[t]: how many of these the model was given             *)
  receipts,  (* receipts[t]: the ids reported as steering_applied           *)
  sealed     (* the turns that take no further input                        *)

inputVars == <<admitted, appended, heard, receipts, sealed>>

(* The first part of the sequence whole that part does not have yet.       *)
Next1(part, whole) == Append(part, whole[Len(part) + 1])

AdmitOne(t, id) ==
  /\ t \notin sealed
  /\ ~Contains(admitted[t], id)
  /\ admitted' = [admitted EXCEPT ![t] = Append(@, id)]
  /\ UNCHANGED <<appended, heard, receipts, sealed>>

AppendOne(t) ==
  /\ Len(appended[t]) < Len(admitted[t])
  /\ appended' = [appended EXCEPT ![t] = Next1(@, admitted[t])]
  /\ UNCHANGED <<admitted, heard, receipts, sealed>>

HearAll(t) ==
  /\ t \notin sealed
  /\ heard' = [heard EXCEPT ![t] = Len(appended[t])]
  /\ UNCHANGED <<admitted, appended, receipts, sealed>>

ReceiptOne(t) ==
  /\ Len(receipts[t]) < Len(appended[t])
  /\ receipts' = [receipts EXCEPT ![t] = Next1(@, appended[t])]
  /\ UNCHANGED <<admitted, appended, heard, sealed>>

SealTurn(t) ==
  /\ appended[t] = admitted[t] /\ receipts[t] = admitted[t]
  /\ heard[t] = Len(admitted[t])
  /\ sealed' = sealed \cup {t}
  /\ UNCHANGED <<admitted, appended, heard, receipts>>

InputInit ==
  /\ admitted = [t \in Turns |-> << >>]
  /\ appended = [t \in Turns |-> << >>]
  /\ heard = [t \in Turns |-> 0]
  /\ receipts = [t \in Turns |-> << >>]
  /\ sealed = {}

InputNext ==
  \E t \in Turns :
    \/ \E id \in Ids : AdmitOne(t, id)
    \/ AppendOne(t) \/ HearAll(t) \/ ReceiptOne(t) \/ SealTurn(t)

InputSpec == InputInit /\ [][InputNext]_inputVars
=============================================================================
