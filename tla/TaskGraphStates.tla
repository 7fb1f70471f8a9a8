-------------------------- MODULE TaskGraphStates --------------------------
(***************************************************************************)
(* The central state transition authority of DStudio Task Graph V1: the    *)
(* states of a graph and of a node, the moves the host allows, and the     *)
(* states it calls terminal.  Pure definitions, shared by the event store, *)
(* the scheduler and the abstract specifications.                          *)
(***************************************************************************)

GraphStates ==
  { "DRAFT", "VALIDATED", "READY", "RUNNING", "PAUSING", "PAUSED",
    "WAITING_APPROVAL", "NEEDS_INPUT", "SUCCEEDED", "FAILED",
    "CANCELLING", "CANCELLED", "CORRUPT" }

NodeStates ==
  { "DRAFT", "PENDING", "READY", "LEASED", "RUNNING", "WAITING_APPROVAL",
    "PAUSED", "CANCELLING", "INTERRUPTED", "SUCCEEDED", "FAILED",
    "CANCELLED", "BLOCKED", "SKIPPED" }

NodeTerminal(s) == s \in {"SUCCEEDED", "FAILED", "CANCELLED", "SKIPPED"}

GraphTerminal(s) == s \in {"SUCCEEDED", "FAILED", "CANCELLED", "CORRUPT"}

(* Where a node may go from each state; a state without a row is final.    *)
NodeSuccessors(s) ==
  CASE s = "DRAFT"            -> {"PENDING", "CANCELLED"}
    [] s = "PENDING"          -> {"READY", "BLOCKED", "SKIPPED", "CANCELLED"}
    [] s = "READY"            -> {"LEASED", "PAUSED", "CANCELLED", "SKIPPED"}
    [] s = "LEASED"           -> {"RUNNING", "READY", "CANCELLING"}
    [] s = "RUNNING"          -> {"SUCCEEDED", "FAILED", "WAITING_APPROVAL",
                                  "CANCELLING", "INTERRUPTED"}
    [] s = "WAITING_APPROVAL" -> {"READY", "SUCCEEDED", "CANCELLED", "FAILED"}
    [] s = "PAUSED"           -> {"READY", "CANCELLED"}
    [] s = "CANCELLING"       -> {"CANCELLED", "INTERRUPTED"}
    [] s = "INTERRUPTED"      -> {"READY", "WAITING_APPROVAL", "FAILED",
                                  "CANCELLED"}
    [] s = "FAILED"           -> {"PENDING"}
    [] s = "BLOCKED"          -> {"PENDING", "SKIPPED", "CANCELLED"}
    [] OTHER                  -> {}

GraphSuccessors(s) ==
  CASE s = "DRAFT"            -> {"VALIDATED", "CORRUPT", "CANCELLED"}
    [] s = "VALIDATED"        -> {"READY", "WAITING_APPROVAL", "CANCELLED"}
    [] s = "READY"            -> {"RUNNING", "CANCELLED"}
    [] s = "RUNNING"          -> {"PAUSING", "WAITING_APPROVAL", "NEEDS_INPUT",
                                  "SUCCEEDED", "FAILED", "CANCELLING"}
    [] s = "PAUSING"          -> {"PAUSED", "CANCELLING"}
    [] s = "PAUSED"           -> {"RUNNING", "CANCELLING"}
    [] s = "WAITING_APPROVAL" -> {"READY", "RUNNING", "CANCELLING", "FAILED"}
    [] s = "NEEDS_INPUT"      -> {"RUNNING", "CANCELLING", "FAILED"}
    [] s = "CANCELLING"       -> {"CANCELLED"}
    [] OTHER                  -> {}

(* A record that repeats the present state is always legal.                *)
NodeMayGo(from, to)  == to = from \/ to \in NodeSuccessors(from)
GraphMayGo(from, to) == to = from \/ to \in GraphSuccessors(from)
=============================================================================
