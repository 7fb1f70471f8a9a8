--------------------------- MODULE Steering_proofs ---------------------------
(***************************************************************************)
(* The safety of steering as theorems, for any number of turns, Agent      *)
(* processes, inputs and lost exchanges: the seal is the last word, and    *)
(* the host, the wire and the Agent together implement TurnInput.          *)
(*                                                                         *)
(* Types, Control and Link say which turn the host, the Agent and the      *)
(* pulls between them may speak of; Sealing adds what a closed turn may    *)
(* still do, Marks and Acks how far the inputs of a turn have come on      *)
(* either side.                                                            *)
(***************************************************************************)
EXTENDS Steering, SequenceTheorems, WellFoundedInduction, TLAPS

(* What passes on the link, and the variables, by part.                    *)
Replies ==
  {Silence, Refusal, Empty} \cup {TurnIs(t) : t \in Turns}
    \cup {Input(i, id) : i \in Nat, id \in Ids}

InputSet == [id : Ids, state : {"pending", "delivered", "applied"}]
PullSet == [key : Nat, turn : 0 .. MaxTurns, ack : Nat, finish : BOOLEAN]

SteerType == steer \in [key : Nat, turn : 0 .. MaxTurns, open : BOOLEAN, inputs : Seq(InputSet)]
AgentType ==
  agent \in [phase : {"idle", "begin", "loop", "drain", "model", "dead"},
             key : Nat, turn : 0 .. MaxTurns, ack : Nat,
             enabled : BOOLEAN, finishing : BOOLEAN, added : BOOLEAN,
             sigint : BOOLEAN, failed : BOOLEAN, now : 0 .. MaxTurns]
HostType ==
  /\ active \in 0 .. MaxTurns /\ task \in 0 .. MaxTurns
  /\ working \in BOOLEAN /\ interrupt \in BOOLEAN /\ stopping \in BOOLEAN
  /\ stdin \in 0 .. MaxTurns /\ stderr \in {"none", "waiting", "error, waiting"}
HistoryType ==
  /\ admitted \in [Turns -> Seq(Ids)] /\ appended \in [Turns -> Seq(Ids)]
  /\ receipts \in [Turns -> Seq(Ids)] /\ heard \in [Turns -> Nat]
  /\ sealed \subseteq Turns
LinkType == wire \in Seq(PullSet) /\ reply \in Replies
Types == SteerType /\ AgentType /\ HostType /\ HistoryType /\ LinkType
-----------------------------------------------------------------------------
(* The numbers of the model.                                               *)
LEMMA Bounds == MaxTurns \in Nat /\ MaxInputs \in Nat /\ Turns = 1 .. MaxTurns
  BY SteeringAssumption DEF Turns

LEMMA Numbers ==
  ASSUME Types
  PROVE  /\ agent.now \in Nat /\ agent.turn \in Nat /\ agent.ack \in Nat /\ agent.key \in Nat
         /\ agent.now \in 0 .. MaxTurns /\ agent.turn \in 0 .. MaxTurns
         /\ agent.phase \in {"idle", "begin", "loop", "drain", "model", "dead"}
         /\ agent.enabled \in BOOLEAN
         /\ steer.turn \in Nat /\ steer.turn \in 0 .. MaxTurns /\ steer.key \in Nat
         /\ steer.inputs \in Seq(InputSet)
         /\ active \in Nat /\ task \in Nat /\ stdin \in Nat
         /\ MaxTurns \in Nat /\ Turns = 1 .. MaxTurns
         /\ 0 \in 0 .. MaxTurns /\ stdin \in 0 .. MaxTurns
         /\ active # 0 => active \in Turns
         /\ steer.turn # 0 => steer.turn \in Turns
         /\ agent.now # 0 => agent.now \in Turns
         /\ task # 0 => task \in Turns /\ task \in 0 .. MaxTurns
<1>1. /\ agent.now \in 0 .. MaxTurns /\ agent.turn \in 0 .. MaxTurns
      /\ agent.ack \in Nat /\ agent.key \in Nat /\ agent.enabled \in BOOLEAN
      /\ agent.phase \in {"idle", "begin", "loop", "drain", "model", "dead"}
  BY DEF Types, AgentType
<1>2. steer.turn \in 0 .. MaxTurns /\ steer.key \in Nat /\ steer.inputs \in Seq(InputSet)
  BY DEF Types, SteerType
<1>3. active \in 0 .. MaxTurns /\ task \in 0 .. MaxTurns /\ stdin \in 0 .. MaxTurns
  BY DEF Types, HostType
<1>4. QED
  BY <1>1, <1>2, <1>3, Bounds

(* What may be answered.                                                   *)
LEMMA Answers ==
  /\ Silence \in Replies /\ Refusal \in Replies /\ Empty \in Replies
  /\ \A t \in Turns : TurnIs(t) \in Replies
  /\ \A i \in Nat, id \in Ids : Input(i, id) \in Replies
  BY DEF Replies

LEMMA Kinds ==
  ASSUME NEW r \in Replies
  PROVE  /\ r.is \in {"silence", "refusal", "empty", "turn", "input"}
         /\ r.is = "silence" <=> r = Silence
         /\ r.is = "empty" <=> r = Empty
         /\ r.is = "refusal" <=> r = Refusal
         /\ r.is = "turn" => r.turn \in Turns /\ r = TurnIs(r.turn)
         /\ r.is = "input" => r.n \in Nat /\ r.id \in Ids
  BY DEF Replies, Silence, Refusal, Empty, TurnIs, Input

(* The first of a set of numbers.                                          *)
LEMMA NatWellFounded == IsWellFoundedOn({ss \in Nat \X Nat : ss[1] < ss[2]}, Nat)
  BY NatLessThanWellFounded DEF OpToRel

LEMMA FirstIn ==
  ASSUME NEW S \in SUBSET Nat, S # {}
  PROVE  First(S) \in S /\ \A j \in S : First(S) <= j
<1> DEFINE R == {ss \in Nat \X Nat : ss[1] < ss[2]}
<1>1. PICK x \in S : \A y \in S : ~ (<<y, x>> \in R)
  BY NatWellFounded, WFMin, Zenon
<1>2. ASSUME NEW y \in S PROVE x <= y
  <2>1. <<y, x>> \in Nat \X Nat
    OBVIOUS
  <2>2. ~(<<y, x>>[1] < <<y, x>>[2])
    BY <1>1, <2>1
  <2>3. QED
    BY <2>2
<1>3. QED
  BY <1>2 DEF First

(* The first of a sequence, and the rest.                                  *)
LEMMA Served ==
  ASSUME NEW S, NEW s \in Seq(S), s # << >>
  PROVE  /\ Tail(s) \in Seq(S) /\ Len(Tail(s)) = Len(s) - 1
         /\ \A i \in 1 .. Len(s) - 1 : Tail(s)[i] = s[i + 1]
         /\ Head(s) = s[1] /\ Head(s) \in S /\ 1 \in 1 .. Len(s)
  BY HeadTailProperties, LenProperties, EmptySeq

(* An input whose state is changed.                                        *)
LEMMA Marked ==
  ASSUME NEW s \in Seq(InputSet), NEW i \in 1 .. Len(s),
         NEW st \in {"pending", "delivered", "applied"}
  PROVE  /\ [s EXCEPT ![i].state = st] \in Seq(InputSet)
         /\ Len([s EXCEPT ![i].state = st]) = Len(s)
         /\ \A j \in 1 .. Len(s) :
              /\ [s EXCEPT ![i].state = st][j].id = s[j].id
              /\ [s EXCEPT ![i].state = st][j].state = IF j = i THEN st ELSE s[j].state
<1> DEFINE m == [s EXCEPT ![i].state = st]
<1>1. \A j \in 1 .. Len(s) : s[j] \in InputSet
  BY ElementOfSeq
<1>2. \A j \in 1 .. Len(s) : /\ m[j] \in InputSet /\ m[j].id = s[j].id
                             /\ m[j].state = IF j = i THEN st ELSE s[j].state
  BY <1>1, LenProperties DEF InputSet
<1>3. DOMAIN m = 1 .. Len(s) /\ m = [j \in 1 .. Len(s) |-> m[j]]
  BY LenProperties
<1>4. Len(s) \in Nat
  BY LenProperties
<1>5. m \in Seq(InputSet) /\ Len(m) = Len(s)
  <2> HIDE DEF m
  <2>1. m \in [1 .. Len(s) -> InputSet]
    BY <1>2, <1>3
  <2>2. QED
    BY <1>4, <2>1, IsASeq, LenProperties, <1>3
<1>6. QED
  BY <1>2, <1>5
(* What an acknowledgement does to the inputs of the turn.                 *)
LEMMA AckedInputs ==
  ASSUME Types, NEW pull \in PullSet, TurnServed(pull)
  PROVE  /\ Acked(pull.ack) \in Seq(InputSet) /\ Len(Acked(pull.ack)) = Len(steer.inputs)
         /\ \A j \in 1 .. Len(steer.inputs) :
              /\ Acked(pull.ack)[j].id = steer.inputs[j].id
              /\ Acked(pull.ack)[j].state = IF j = pull.ack THEN "applied" ELSE steer.inputs[j].state
<1>1. steer.inputs \in Seq(InputSet) /\ Len(steer.inputs) \in Nat /\ pull.ack \in Nat
  BY Numbers, LenProperties DEF PullSet
<1>2. pull.ack # 0 => pull.ack \in 1 .. Len(steer.inputs)
  BY <1>1 DEF TurnServed, AckKnown
<1>3. CASE pull.ack = 0
  BY <1>1, <1>3 DEF Acked
<1>4. CASE pull.ack # 0
  <2>1. Acked(pull.ack) = [steer.inputs EXCEPT ![pull.ack].state = "applied"]
    BY <1>4 DEF Acked
  <2>2. pull.ack \in 1 .. Len(steer.inputs) /\ "applied" \in {"pending", "delivered", "applied"}
    BY <1>2, <1>4
  <2>3. /\ [steer.inputs EXCEPT ![pull.ack].state = "applied"] \in Seq(InputSet)
        /\ Len([steer.inputs EXCEPT ![pull.ack].state = "applied"]) = Len(steer.inputs)
        /\ \A j \in 1 .. Len(steer.inputs) :
             /\ [steer.inputs EXCEPT ![pull.ack].state = "applied"][j].id = steer.inputs[j].id
             /\ [steer.inputs EXCEPT ![pull.ack].state = "applied"][j].state =
                  IF j = pull.ack THEN "applied" ELSE steer.inputs[j].state
    BY <1>1, <2>2, Marked
  <2>4. QED
    BY <2>1, <2>3
<1>5. QED
  BY <1>3, <1>4

(* The first input that is not applied.                                    *)
LEMMA FirstUnapplied ==
  ASSUME NEW s \in Seq(InputSet), Unapplied(s) # {}
  PROVE  /\ First(Unapplied(s)) \in 1 .. Len(s) /\ s[First(Unapplied(s))].state # "applied"
         /\ \A j \in 1 .. Len(s) : j < First(Unapplied(s)) => s[j].state = "applied"
<1>1. Unapplied(s) \in SUBSET Nat /\ Len(s) \in Nat
  BY LenProperties DEF Unapplied
<1>2. First(Unapplied(s)) \in Unapplied(s) /\ \A j \in Unapplied(s) : First(Unapplied(s)) <= j
  BY <1>1, FirstIn
<1> DEFINE f == First(Unapplied(s))
<1>3. f \in Unapplied(s) /\ \A j \in Unapplied(s) : f <= j
  BY <1>2
<1> HIDE DEF f
<1>4. f \in 1 .. Len(s) /\ s[f].state # "applied"
  BY <1>3 DEF Unapplied
<1>5. ASSUME NEW j \in 1 .. Len(s), j < f PROVE s[j].state = "applied"
  <2>1. j \notin Unapplied(s)
    BY <1>1, <1>3, <1>4, <1>5
  <2>2. QED
    BY <2>1 DEF Unapplied
<1>6. QED
  BY <1>4, <1>5 DEF f

(* The pull that is served, and what comes of it.                          *)
LEMMA HeadOfWire ==
  ASSUME Types, wire # << >>
  PROVE  /\ Head(wire) \in PullSet /\ Head(wire) = wire[1]
         /\ Len(wire) \in Nat /\ Len(wire) > 0
         /\ Tail(wire) \in Seq(PullSet) /\ Len(Tail(wire)) = Len(wire) - 1
         /\ \A i \in 1 .. Len(wire) - 1 : Tail(wire)[i] = wire[i + 1]
  BY Served, LenProperties DEF Types, LinkType

LEMMA Answered ==
  ASSUME Types, wire # << >>, NEW r \in Replies, Answer(r)
  PROVE  LinkType'
  BY HeadOfWire DEF Answer, LinkType, Types

(* A pull that the Agent sends.                                            *)
LEMMA Pulled ==
  ASSUME Types, NEW ack \in Nat, NEW turn \in 0 .. MaxTurns, NEW finish \in BOOLEAN, Pull(turn, ack, finish)
  PROVE  /\ wire' \in Seq(PullSet) /\ Len(wire') = Len(wire) + 1 /\ Len(wire) \in Nat
         /\ \A i \in 1 .. Len(wire) : wire'[i] = wire[i]
         /\ wire'[Len(wire) + 1] = [key |-> agent.key, turn |-> turn, ack |-> ack, finish |-> finish]
<1>1. [key |-> agent.key, turn |-> turn, ack |-> ack, finish |-> finish] \in PullSet
  BY Numbers DEF PullSet
<1>2. wire \in Seq(PullSet) /\ Len(wire) \in Nat
  BY LenProperties DEF Types, LinkType
<1> DEFINE p == [key |-> agent.key, turn |-> turn, ack |-> ack, finish |-> finish]
<1>3. wire' = Append(wire, p)
  BY DEF Pull
<1> HIDE DEF p
<1>4. p \in PullSet
  BY <1>1 DEF p
<1>5. /\ Append(wire, p) \in Seq(PullSet) /\ Len(Append(wire, p)) = Len(wire) + 1
      /\ \A i \in 1 .. Len(wire) : Append(wire, p)[i] = wire[i]
      /\ Append(wire, p)[Len(wire) + 1] = p
  BY <1>2, <1>4, AppendProperties
<1>6. QED
  BY <1>2, <1>3, <1>5 DEF p

(* The receipt that comes with an acknowledgement.                         *)
LEMMA Receipted ==
  ASSUME Types, NEW pull \in PullSet, TurnServed(pull), Receipt(pull.ack)
  PROVE  receipts' \in [Turns -> Seq(Ids)]
<1>1. receipts \in [Turns -> Seq(Ids)] /\ steer.turn \in Turns
  BY Numbers DEF Types, HistoryType, TurnServed, SteerActive
<1>2. CASE receipts' = receipts
  BY <1>1, <1>2
<1>3. CASE receipts' # receipts
  <2>1. /\ pull.ack # 0
        /\ receipts' = [receipts EXCEPT ![steer.turn] = Append(@, steer.inputs[pull.ack].id)]
    BY <1>3 DEF Receipt
  <2>2. pull.ack \in 1 .. Len(steer.inputs) /\ steer.inputs \in Seq(InputSet)
    BY <2>1, Numbers, LenProperties DEF TurnServed, AckKnown, PullSet
  <2>3. steer.inputs[pull.ack].id \in Ids
    <3>1. steer.inputs[pull.ack] \in InputSet
      BY <2>2, ElementOfSeq
    <3>2. QED
      BY <3>1 DEF InputSet
  <2>4. Append(receipts[steer.turn], steer.inputs[pull.ack].id) \in Seq(Ids)
    BY <1>1, <2>3, AppendProperties
  <2>5. QED
    BY <1>1, <2>1, <2>4
<1>4. QED
  BY <1>2, <1>3
-----------------------------------------------------------------------------
(* What a step leaves alone keeps its type.                                *)
LEMMA AgentKept == ASSUME Types, UNCHANGED agent PROVE AgentType'
  BY DEF Types, AgentType

LEMMA HostKept == ASSUME Types, UNCHANGED <<host, stdin, stderr>> PROVE HostType'
<1>1. HostType
  BY DEF Types
<1>2. UNCHANGED <<active, working, interrupt, stopping, task, stdin, stderr>>
  BY DEF host
<1>3. QED
  BY <1>1, <1>2 DEF HostType

LEMMA SteerKept == ASSUME Types, UNCHANGED steer PROVE SteerType'
  BY DEF Types, SteerType

LEMMA HistoryKept ==
  ASSUME Types, UNCHANGED <<admitted, appended, heard>>,
         receipts' \in [Turns -> Seq(Ids)], sealed' \subseteq Turns
  PROVE  HistoryType'
<1>1. HistoryType
  BY DEF Types
<1>2. QED
  BY <1>1 DEF HistoryType

LEMMA LinkKept == ASSUME Types, UNCHANGED <<wire, reply>> PROVE LinkType'
  BY DEF Types, LinkType

LEMMA HistoryTypes ==
  Types => /\ receipts \in [Turns -> Seq(Ids)] /\ sealed \subseteq Turns
           /\ heard \in [Turns -> Nat]
  BY DEF Types, HistoryType

(* Every action keeps the types.                                           *)
LEMMA AdmitTypes ==
  ASSUME Types, NEW t \in Turns, NEW id \in Ids, Admit(t, id)
  PROVE  Types'
<1>1. SteerType'
  <2>1. [id |-> id, state |-> "pending"] \in InputSet
    BY DEF InputSet
  <2>2. Append(steer.inputs, [id |-> id, state |-> "pending"]) \in Seq(InputSet)
    BY <2>1, Numbers, AppendProperties
  <2>3. QED
    BY <2>2 DEF Admit, Types, SteerType
<1>2. HistoryType'
  <2>1. Append(admitted[t], id) \in Seq(Ids)
    BY AppendProperties DEF Types, HistoryType
  <2>2. QED
    BY <2>1 DEF Admit, Types, HistoryType
<1>3. UNCHANGED <<host, process, link>>
  BY DEF Admit
<1>4. AgentType' /\ HostType' /\ LinkType'
  BY <1>3, AgentKept, HostKept, LinkKept DEF process, link
<1>5. QED
  BY <1>1, <1>2, <1>4 DEF Types

LEMMA ServeBeginTypes ==
  ASSUME Types, ServeBegin
  PROVE  Types'
<1>1. SteerType'
  <2>1. << >> \in Seq(InputSet) /\ active \in 0 .. MaxTurns
    BY EmptySeq DEF Types, HostType
  <2>2. QED
    BY <2>1 DEF ServeBegin, Types, SteerType
<1>2. TurnIs(active) \in Replies /\ wire # << >>
  BY Numbers, Answers DEF ServeBegin, BeginServed
<1>3. LinkType'
  BY <1>2, Answered DEF ServeBegin
<1>4. UNCHANGED <<host, process, history>>
  BY DEF ServeBegin
<1>5. AgentType' /\ HostType'
  BY <1>4, AgentKept, HostKept DEF process
<1>6. HistoryType'
  BY <1>4, HistoryTypes, HistoryKept DEF history
<1>7. QED
  BY <1>1, <1>3, <1>5, <1>6 DEF Types

LEMMA ServeInputTypes ==
  ASSUME Types, ServeInput
  PROVE  Types'
<1> DEFINE pull == Head(wire)
           s == Acked(pull.ack)
           i == First(Unapplied(s))
<1>1. wire # << >> /\ TurnServed(pull) /\ pull \in PullSet /\ Unapplied(s) # {}
  BY HeadOfWire DEF ServeInput
<1>2. s \in Seq(InputSet)
  BY <1>1, AckedInputs
<1>3. i \in 1 .. Len(s)
  BY <1>1, <1>2, FirstUnapplied
<1>4. [s EXCEPT ![i].state = "delivered"] \in Seq(InputSet)
  BY <1>2, <1>3, Marked
<1>5. s[i].id \in Ids /\ i \in Nat
  <2>1. s[i] \in InputSet
    BY <1>2, <1>3, ElementOfSeq
  <2>2. QED
    BY <1>3, <2>1 DEF InputSet
<1>6. /\ steer' = [steer EXCEPT !.inputs = s] \/ steer' = [steer EXCEPT !.inputs = [s EXCEPT ![i].state = "delivered"]]
      /\ Answer(Refusal) \/ Answer(Input(i, s[i].id))
      /\ Receipt(pull.ack)
      /\ UNCHANGED <<host, process, admitted, appended, heard, sealed>>
  BY DEF ServeInput
<1> HIDE DEF pull, s, i
<1>7. SteerType'
  BY <1>2, <1>4, <1>6 DEF Types, SteerType
<1>8. LinkType'
  BY <1>1, <1>5, <1>6, Answered, Answers
<1>9. receipts' \in [Turns -> Seq(Ids)]
  BY <1>1, <1>6, Receipted
<1>10. AgentType' /\ HostType'
  BY <1>6, AgentKept, HostKept DEF process
<1>11. HistoryType'
  BY <1>6, <1>9, HistoryTypes, HistoryKept
<1>12. QED
  BY <1>7, <1>8, <1>10, <1>11 DEF Types

LEMMA ServeEmptyTypes ==
  ASSUME Types, ServeEmpty
  PROVE  Types'
<1> DEFINE pull == Head(wire)
           s == Acked(pull.ack)
<1>1. wire # << >> /\ TurnServed(pull) /\ pull \in PullSet
  BY HeadOfWire DEF ServeEmpty
<1>2. s \in Seq(InputSet) /\ steer.turn \in Turns /\ pull.finish \in BOOLEAN
  <2>1. s \in Seq(InputSet)
    BY <1>1, AckedInputs
  <2>2. steer.turn \in Turns
    BY <1>1, Numbers DEF TurnServed, SteerActive
  <2>3. pull.finish \in BOOLEAN
    BY <1>1 DEF PullSet
  <2>4. QED
    BY <2>1, <2>2, <2>3
<1>3. /\ steer' = [steer EXCEPT !.inputs = s, !.open = @ /\ ~pull.finish]
      /\ sealed' = IF pull.finish THEN sealed \cup {steer.turn} ELSE sealed
      /\ Receipt(pull.ack)
      /\ Answer(Empty)
      /\ UNCHANGED <<host, process, admitted, appended, heard>>
  BY DEF ServeEmpty
<1> HIDE DEF pull, s
<1>4. SteerType'
  BY <1>2, <1>3 DEF Types, SteerType
<1>5. LinkType'
  BY <1>1, <1>3, Answered, Answers
<1>6. receipts' \in [Turns -> Seq(Ids)] /\ sealed' \subseteq Turns
  BY <1>1, <1>2, <1>3, Receipted DEF Types, HistoryType
<1>7. AgentType' /\ HostType'
  BY <1>3, AgentKept, HostKept DEF process
<1>8. HistoryType'
  BY <1>3, <1>6, HistoryKept
<1>9. QED
  BY <1>4, <1>5, <1>7, <1>8 DEF Types

LEMMA ServeRefusalTypes ==
  ASSUME Types, ServeRefusal
  PROVE  Types'
<1>1. LinkType'
  BY Answered, Answers DEF ServeRefusal
<1>2. UNCHANGED <<steer, host, process, history>>
  BY DEF ServeRefusal
<1>3. SteerType' /\ AgentType'
  BY <1>2 DEF Types, SteerType, AgentType, process
<1>4. HostType'
  BY <1>2 DEF Types, HostType, host, process
<1>5. HistoryType'
  BY <1>2 DEF Types, HistoryType, history
<1>6. QED
  BY <1>1, <1>3, <1>4, <1>5 DEF Types

LEMMA HostTypes ==
  ASSUME Types, Send \/ Interrupt \/ TurnError \/ Waiting \/ RequestStop
  PROVE  Types'
<1>1. HostType'
  <2>1. CASE Send
    <3>1. task + 1 \in 0 .. MaxTurns
      BY <2>1, Numbers DEF Send
    <3>2. QED
      BY <2>1, <3>1 DEF Types, HostType, Send
  <2>2. CASE Interrupt \/ TurnError \/ Waiting \/ RequestStop
    BY <2>2, Numbers DEF Types, HostType, Interrupt, TurnError, Waiting, RequestStop, process
  <2>3. QED
    BY <2>1, <2>2
<1>2. AgentType'
  BY DEF Types, AgentType, Send, Interrupt, TurnError, Waiting, RequestStop, process
<1>3. QED
  BY <1>1, <1>2 DEF Types, SteerType, HistoryType, LinkType, Send, Interrupt, TurnError,
     Waiting, RequestStop, link, history

LEMMA RestartTypes ==
  ASSUME Types, Restart
  PROVE  Types'
<1>1. steer.key + 1 \in Nat /\ << >> \in Seq(InputSet) /\ 0 \in 0 .. MaxTurns /\ 0 \in Nat
  BY Numbers, EmptySeq
<1>2. SteerType' /\ AgentType'
  BY <1>1 DEF Restart, SteerType, AgentType, FreshAgent
<1>3. QED
  BY <1>1, <1>2 DEF Restart, Types, HostType, HistoryType, LinkType, link, history

LEMMA StartTurnTypes ==
  ASSUME Types, StartTurn
  PROVE  Types'
<1>1. 0 \in 0 .. MaxTurns /\ 0 \in Nat /\ stdin \in 0 .. MaxTurns
  BY Numbers
<1>2. AgentType'
  BY <1>1 DEF StartTurn, Types, AgentType, FreshAgent
<1>3. LinkType'
  BY <1>1, Pulled DEF StartTurn, Types, LinkType
<1>4. QED
  BY <1>1, <1>2, <1>3 DEF StartTurn, Types, SteerType, HostType, HistoryType, host, history
LEMMA BegunTypes ==
  ASSUME Types, Begun
  PROVE  Types'
<1>1. reply.is = "turn" => reply.turn \in 0 .. MaxTurns
  BY Kinds, Numbers DEF Types, LinkType
<1>2. (IF reply.is = "turn" THEN reply.turn ELSE 0) \in 0 .. MaxTurns /\ (reply.is = "turn") \in BOOLEAN
  BY <1>1, Numbers
<1>3. AgentType'
  BY <1>2 DEF Begun, Types, AgentType
<1>4. LinkType'
  BY Answers DEF Begun, Types, LinkType
<1>5. QED
  BY <1>3, <1>4 DEF Begun, Types, SteerType, HostType, HistoryType, host, history

(* What the end of a round leaves.                                         *)
LEMMA AskTypes ==
  ASSUME Types, NEW enabled \in BOOLEAN, AskOrFail(enabled)
  PROVE  AgentType' /\ stderr' \in {"none", "waiting", "error, waiting"} /\ heard' \in [Turns -> Nat]
<1> USE HistoryTypes
<1>1. CASE agent.failed
  <2>1. EndTurn("error, waiting")
    BY <1>1 DEF AskOrFail
  <2>2. AgentType'
    BY <2>1 DEF EndTurn, Types, AgentType
  <2>3. QED
    BY <2>1, <2>2 DEF EndTurn
<1>2. CASE ~agent.failed
  <2>1. agent.now \in Turns => Len(appended[agent.now]) \in Nat
    BY LenProperties DEF Types, HistoryType
  <2>2. AgentType' /\ stderr' = stderr
    <3>1. agent' = [agent EXCEPT !.phase = "model", !.enabled = enabled] /\ stderr' = stderr
      BY <1>2 DEF AskOrFail, AskModel
    <3>2. QED
      BY <3>1 DEF Types, AgentType
  <2>3. heard' \in [Turns -> Nat]
    BY <1>2, <2>1 DEF AskOrFail, AskModel, Types, HistoryType
  <2>4. QED
    BY <2>2, <2>3 DEF Types, HostType
<1>3. QED
  BY <1>1, <1>2

LEMMA EndTypes ==
  ASSUME Types, NEW markers \in {"waiting", "error, waiting"}, EndTurn(markers)
  PROVE  AgentType' /\ stderr' \in {"none", "waiting", "error, waiting"} /\ heard' \in [Turns -> Nat]
  BY DEF EndTurn, Types, AgentType, HistoryType

LEMMA DrainedTypes ==
  ASSUME Types, NEW enabled \in BOOLEAN, Drained(enabled)
  PROVE  AgentType' /\ stderr' \in {"none", "waiting", "error, waiting"} /\ heard' \in [Turns -> Nat]
<1>1. CASE ~agent.finishing
  BY <1>1, AskTypes DEF Drained
<1>2. CASE agent.finishing /\ agent.added
  <2>1. agent' = [agent EXCEPT !.phase = "loop", !.enabled = enabled] /\ UNCHANGED <<stderr, heard>>
    BY <1>2 DEF Drained
  <2>2. AgentType'
    BY <2>1 DEF Types, AgentType
  <2>3. QED
    BY <2>1, <2>2, HistoryTypes DEF Types, HostType
<1>3. CASE agent.finishing /\ ~agent.added
  BY <1>3, EndTypes DEF Drained
<1>4. QED
  BY <1>1, <1>2, <1>3

LEMMA DrainTypes ==
  ASSUME Types, NEW finishing \in BOOLEAN, Drain(finishing)
  PROVE  /\ AgentType' /\ stderr' \in {"none", "waiting", "error, waiting"} /\ heard' \in [Turns -> Nat]
         /\ wire' \in Seq(PullSet)
<1>1. AgentType' /\ stderr' = stderr /\ heard' = heard
  BY DEF Drain, Types, AgentType
<1>2. wire' \in Seq(PullSet)
  BY Numbers, Pulled DEF Drain
<1>3. QED
  BY <1>1, <1>2 DEF Types, HostType, HistoryType

(* The types of a step that leaves the rest alone.                         *)
LEMMA RestTypes ==
  ASSUME Types, UNCHANGED <<steer, host, stdin, admitted, appended, receipts, sealed>>,
         AgentType', stderr' \in {"none", "waiting", "error, waiting"}, heard' \in [Turns -> Nat],
         wire' \in Seq(PullSet), reply' \in Replies
  PROVE  Types'
<1>1. SteerType' /\ HostType'
  BY DEF Types, SteerType, HostType, host
<1>2. HistoryType' /\ LinkType'
  BY DEF Types, HistoryType, LinkType
<1>3. QED
  BY <1>1, <1>2 DEF Types

LEMMA LoopTypes ==
  ASSUME Types, Loop
  PROVE  Types'
<1>1. wire \in Seq(PullSet) /\ reply \in Replies
  BY DEF Types, LinkType
<1>2. /\ AgentType' /\ stderr' \in {"none", "waiting", "error, waiting"} /\ heard' \in [Turns -> Nat]
      /\ wire' \in Seq(PullSet)
  <2>1. CASE EndTurn("waiting") /\ UNCHANGED wire
    BY <1>1, <2>1, EndTypes
  <2>2. CASE Drain(FALSE)
    BY <2>2, DrainTypes
  <2>3. CASE AskOrFail(FALSE) /\ UNCHANGED wire
    BY <1>1, <2>3, AskTypes
  <2>4. QED
    BY <2>1, <2>2, <2>3 DEF Loop
<1>3. QED
  BY <1>1, <1>2, RestTypes DEF Loop

LEMMA ModelTypes ==
  ASSUME Types, Model
  PROVE  Types'
<1>1. wire \in Seq(PullSet) /\ reply \in Replies
  BY DEF Types, LinkType
<1>2. /\ AgentType' /\ stderr' \in {"none", "waiting", "error, waiting"} /\ heard' \in [Turns -> Nat]
      /\ wire' \in Seq(PullSet)
  <2>1. CASE agent' = [agent EXCEPT !.phase = "loop"] /\ UNCHANGED <<stderr, wire, heard>>
    BY <1>1, <2>1 DEF Types, AgentType, HostType, HistoryType
  <2>2. CASE \E markers \in {"waiting", "error, waiting"} : EndTurn(markers) /\ UNCHANGED wire
    BY <1>1, <2>2, EndTypes
  <2>3. CASE Drain(TRUE)
    BY <2>3, DrainTypes
  <2>4. QED
    BY <2>1, <2>2, <2>3 DEF Model
<1>3. QED
  BY <1>1, <1>2, RestTypes DEF Model

LEMMA NoInputTypes ==
  ASSUME Types, NoInput
  PROVE  Types'
<1>1. (reply.is = "empty") \in BOOLEAN
  OBVIOUS
<1>2. AgentType' /\ stderr' \in {"none", "waiting", "error, waiting"} /\ heard' \in [Turns -> Nat]
  BY <1>1, DrainedTypes DEF NoInput
<1>3. wire' \in Seq(PullSet) /\ reply' \in Replies
  BY Answers DEF NoInput, Types, LinkType
<1>4. QED
  BY <1>2, <1>3, RestTypes DEF NoInput

LEMMA GiveUpTypes ==
  ASSUME Types, GiveUp
  PROVE  Types'
<1>1. AgentType' /\ stderr' \in {"none", "waiting", "error, waiting"} /\ heard' \in [Turns -> Nat]
  <2>1. CASE agent.phase = "begin"
    <3>1. agent' = [agent EXCEPT !.phase = "loop"] /\ UNCHANGED <<stderr, heard>>
      BY <2>1 DEF GiveUp
    <3>2. AgentType'
      BY <3>1 DEF Types, AgentType
    <3>3. QED
      BY <3>1, <3>2, HistoryTypes DEF Types, HostType
  <2>2. CASE agent.phase # "begin"
    BY <2>2, DrainedTypes DEF GiveUp
  <2>3. QED
    BY <2>1, <2>2
<1>2. wire' \in Seq(PullSet) /\ reply' \in Replies
  BY Answers DEF GiveUp, Types, LinkType
<1>3. QED
  BY <1>1, <1>2, RestTypes DEF GiveUp

LEMMA AppendInputTypes ==
  ASSUME Types, AppendInput
  PROVE  Types'
<1>1. reply.n \in Nat /\ reply.id \in Ids
  BY Kinds DEF AppendInput, HasInput, Types, LinkType
<1>2. PICK fails \in {agent.failed, agent.failed \/ TranscriptFills} :
        /\ agent' = [agent EXCEPT !.ack = reply.n, !.added = TRUE, !.failed = fails]
        /\ appended' = IF fails THEN appended
                       ELSE [appended EXCEPT ![agent.now] = Append(@, reply.id)]
  BY DEF AppendInput
<1>3. fails \in BOOLEAN
  BY SteeringAssumption DEF Types, AgentType
<1>4. AgentType'
  BY <1>1, <1>2, <1>3 DEF Types, AgentType
<1>5. HistoryType'
  <2>1. agent.now \in Turns => Append(appended[agent.now], reply.id) \in Seq(Ids)
    BY <1>1, AppendProperties DEF Types, HistoryType
  <2>2. appended' \in [Turns -> Seq(Ids)]
    BY <1>2, <2>1 DEF Types, HistoryType
  <2>3. QED
    BY <2>2 DEF AppendInput, Types, HistoryType
<1>6. LinkType'
  BY <1>1, Numbers, Pulled, Answers DEF AppendInput, LinkType
<1>7. QED
  BY <1>4, <1>5, <1>6 DEF AppendInput, Types, SteerType, HostType, host

LEMMA DieTypes ==
  ASSUME Types, Die
  PROVE  Types'
<1>1. AgentType'
  BY DEF Die, Types, AgentType
<1>2. LinkType'
  BY Answers DEF Die, Types, LinkType
<1>3. QED
  BY <1>1, <1>2 DEF Die, Types, SteerType, HostType, HistoryType, host, history

LEMMA TypesNext ==
  ASSUME Types, Next
  PROVE  Types'
  BY AdmitTypes, ServeBeginTypes, ServeInputTypes, ServeEmptyTypes, ServeRefusalTypes, HostTypes,
     RestartTypes, StartTurnTypes, BegunTypes, LoopTypes, ModelTypes, AppendInputTypes,
     NoInputTypes, GiveUpTypes, DieTypes
     DEF Next, Serve, AgentStep

LEMMA TypesInit == Init => Types
<1> SUFFICES ASSUME Init PROVE Types
  OBVIOUS
<1>1. /\ 0 \in 0 .. MaxTurns /\ << >> \in Seq(InputSet) /\ << >> \in Seq(PullSet)
      /\ << >> \in Seq(Ids) /\ 0 \in Nat /\ 1 \in Nat
  BY Bounds, EmptySeq
<1>2. SteerType /\ AgentType
  BY <1>1 DEF Init, SteerType, AgentType, FreshAgent
<1>3. HostType
  BY <1>1 DEF Init, HostType
<1>4. HistoryType
  BY <1>1 DEF Init, HistoryType
<1>5. LinkType
  BY <1>1, Answers DEF Init, LinkType
<1>6. QED
  BY <1>2, <1>3, <1>4, <1>5 DEF Types
-----------------------------------------------------------------------------
(* The Agent is in the middle of a turn; it waits for the answer to the    *)
(* pull that would seal it.                                                *)
InTurn == agent.phase \in {"begin", "loop", "model", "drain"}
Finishing == agent.phase = "drain" /\ agent.finishing /\ ~agent.added

(* Which turn each party is in: the one the Agent serves is the last one   *)
(* the host gave out, and the host gives out none meanwhile.               *)
Control ==
  /\ agent.key = steer.key
  /\ active \in {0, task} /\ (active # 0 => working)
  /\ agent.now <= task
  /\ InTurn => agent.now = task /\ task # 0 /\ stdin = 0 /\ stderr = "none"
  /\ InTurn => working \/ stopping
  /\ stdin # 0 => stdin = task /\ agent.now < task
  /\ stdin # 0 /\ agent.phase = "idle" => stderr = "none"
  /\ stdin # 0 /\ agent.phase = "idle" => working \/ stopping
  /\ stderr # "none" /\ agent.phase # "dead" => working \/ stopping
  /\ steer.turn <= task /\ (active # 0 => steer.turn <= active)
  /\ agent.turn \in {0, agent.now}
  /\ agent.turn # 0 => steer.turn >= agent.turn
  /\ agent.turn = 0 => agent.ack = 0

(* The pull the Agent waits for is the only one of its turn on the wire,   *)
(* and an Agent that gave up on one sends no other in this turn.           *)
Asked == [key |-> agent.key, turn |-> agent.turn, ack |-> agent.ack,
          finish |-> agent.finishing /\ ~agent.added]

Link ==
  /\ agent.phase \notin {"begin", "drain"} => reply = Silence
  /\ agent.phase \in {"loop", "model"} /\ agent.enabled => wire = << >>
  /\ agent.phase = "drain" =>
       /\ agent.enabled /\ reply.is # "turn"
       /\ reply = Silence => Len(wire) = 1 /\ wire[1] = Asked
       /\ reply # Silence => wire = << >>
  /\ agent.phase = "begin" =>
       /\ ~agent.enabled /\ agent.turn = 0 /\ reply.is \notin {"empty", "input"}
       /\ reply = Silence => wire # << >> /\ wire[Len(wire)].turn = 0
       /\ reply # Silence => wire = << >>
       /\ reply.is = "turn" => reply.turn = task /\ steer.turn = task
  /\ InTurn /\ agent.enabled => agent.turn = task
  /\ InTurn /\ agent.turn # 0 => steer.turn = agent.turn

(* A pull that was left on the wire is older than the Agent, or of an      *)
(* earlier turn, or says what the Agent would say again; a sealing one is  *)
(* of a turn that is over or waits for it.                                 *)
OfThisTurn(p) == p.key = agent.key /\ p.turn = agent.now /\ p.turn # 0
Left(p) ==
  /\ p.key <= agent.key
  /\ p.key = agent.key => p.turn <= agent.now
  /\ OfThisTurn(p) => p.turn = agent.turn /\ p.ack = agent.ack
  /\ OfThisTurn(p) /\ p.finish => Finishing \/ ~InTurn
Wire == \A i \in 1 .. Len(wire) : Left(wire[i])
-----------------------------------------------------------------------------
(* The first five things a step of the Agent leaves alone.                 *)
SameTurn ==
  /\ agent'.key = agent.key /\ agent'.now = agent.now
  /\ agent'.turn = agent.turn /\ agent'.ack = agent.ack /\ agent'.failed = agent.failed

LEMMA EndFields ==
  ASSUME Types, NEW markers, EndTurn(markers)
  PROVE  /\ SameTurn /\ agent'.phase = "idle" /\ stderr' = markers /\ heard' = heard
         /\ agent'.enabled = agent.enabled /\ agent'.finishing = agent.finishing
         /\ agent'.added = agent.added /\ agent'.sigint = agent.sigint
  BY DEF EndTurn, SameTurn, Types, AgentType

LEMMA AskFields ==
  ASSUME Types, NEW enabled, AskOrFail(enabled)
  PROVE  /\ SameTurn /\ agent'.phase = IF agent.failed THEN "idle" ELSE "model"
         /\ agent'.finishing = agent.finishing /\ agent'.added = agent.added
         /\ agent'.sigint = agent.sigint
         /\ ~agent.failed => /\ agent'.enabled = enabled /\ stderr' = stderr
                             /\ heard' = [heard EXCEPT ![agent.now] = Len(appended[agent.now])]
         /\ agent.failed => heard' = heard
<1>1. CASE agent.failed
  BY <1>1, EndFields DEF AskOrFail
<1>2. CASE ~agent.failed
  BY <1>2 DEF AskOrFail, AskModel, SameTurn, Types, AgentType
<1>3. QED
  BY <1>1, <1>2

LEMMA DrainedFields ==
  ASSUME Types, NEW enabled, Drained(enabled)
  PROVE  /\ SameTurn
         /\ agent'.finishing = agent.finishing /\ agent'.added = agent.added
         /\ agent'.sigint = agent.sigint
         /\ agent'.phase = IF agent.finishing THEN IF agent.added THEN "loop" ELSE "idle"
                           ELSE IF agent.failed THEN "idle" ELSE "model"
         /\ agent'.phase \in {"loop", "model"} => agent'.enabled = enabled
         /\ IF agent.finishing \/ agent.failed
            THEN heard' = heard
            ELSE heard' = [heard EXCEPT ![agent.now] = Len(appended[agent.now])]
<1>1. CASE ~agent.finishing
  BY <1>1, AskFields DEF Drained, Types, AgentType
<1>2. CASE agent.finishing /\ agent.added
  BY <1>2 DEF Drained, SameTurn, Types, AgentType
<1>3. CASE agent.finishing /\ ~agent.added
  BY <1>3, EndFields DEF Drained
<1>4. QED
  BY <1>1, <1>2, <1>3 DEF Types, AgentType

LEMMA DrainFields ==
  ASSUME Types, NEW finishing, Drain(finishing)
  PROVE  /\ SameTurn /\ agent'.phase = "drain" /\ agent'.finishing = finishing
         /\ agent'.added = FALSE /\ agent'.enabled = agent.enabled /\ agent'.sigint = agent.sigint
         /\ heard' = heard
  BY DEF Drain, SameTurn, Types, AgentType

(* The pull that follows: the only one on the wire, if that was empty.     *)
LEMMA OnlyPull ==
  ASSUME Types, wire = << >>, NEW ack \in Nat, NEW finish \in BOOLEAN, Pull(agent.turn, ack, finish)
  PROVE  /\ Len(wire') = 1 /\ 1 .. Len(wire') = {1}
         /\ wire'[1] = [key |-> agent.key, turn |-> agent.turn, ack |-> ack, finish |-> finish]
<1>1. Len(wire) = 0
  BY EmptySeq
<1>2. /\ Len(wire') = Len(wire) + 1
      /\ wire'[Len(wire) + 1] = [key |-> agent.key, turn |-> agent.turn, ack |-> ack, finish |-> finish]
  BY Numbers, Pulled
<1>3. QED
  BY <1>1, <1>2

LEMMA OnWire ==
  ASSUME Types, NEW i \in 1 .. Len(wire)
  PROVE  /\ wire[i].key \in Nat /\ wire[i].turn \in Nat /\ wire[i].ack \in Nat
         /\ wire[i].finish \in BOOLEAN
<1>1. wire[i] \in PullSet
  BY ElementOfSeq DEF Types, LinkType
<1>2. QED
  BY <1>1, Bounds DEF PullSet
-----------------------------------------------------------------------------
(* The Agent goes on in its turn, or ends it and says so.                  *)
LEMMA ControlKept ==
  ASSUME Types, Control, InTurn, SameTurn, UNCHANGED <<steer, host, stdin>>,
         \/ agent'.phase \in {"begin", "loop", "model", "drain"} /\ stderr' = stderr
         \/ agent'.phase = "idle"
  PROVE  Control'
<1>1. /\ agent.now = task /\ task # 0 /\ stdin = 0 /\ stderr = "none"
      /\ working \/ stopping
  BY DEF Control
<1>2. UNCHANGED <<steer, active, working, stopping, task, stdin>>
  BY DEF host
<1>3. InTurn' => stderr' = "none"
  BY <1>1 DEF InTurn
<1>4. /\ agent'.key = agent.key /\ agent'.now = agent.now
      /\ agent'.turn = agent.turn /\ agent'.ack = agent.ack
  BY DEF SameTurn
<1>5. QED
  BY <1>1, <1>2, <1>3, <1>4 DEF Control

(* Every action keeps the two sides in the same turn.                      *)
LEMMA DrainedControl ==
  ASSUME Types, Control, InTurn, UNCHANGED <<steer, host, stdin>>, NEW enabled, Drained(enabled)
  PROVE  Control'
<1>1. CASE agent.finishing /\ agent.added
  <2>1. agent' = [agent EXCEPT !.phase = "loop", !.enabled = enabled] /\ stderr' = stderr
    BY <1>1 DEF Drained
  <2>2. SameTurn /\ agent'.phase = "loop"
    BY <2>1 DEF SameTurn, Types, AgentType
  <2>3. QED
    BY <2>1, <2>2, ControlKept
<1>2. CASE agent.finishing /\ ~agent.added
  BY <1>2, EndFields, ControlKept DEF Drained
<1>3. CASE ~agent.finishing
  BY <1>3, AskFields, ControlKept DEF Drained
<1>4. QED
  BY <1>1, <1>2, <1>3

LEMMA ControlNext ==
  ASSUME Types, Control, Link, Next
  PROVE  Control'
<1>1. ASSUME NEW t \in Turns, NEW id \in Ids, Admit(t, id)
      PROVE  Control'
  BY <1>1, Numbers DEF Control, InTurn, Admit, Types, SteerType, host, process
<1>2. CASE ServeBegin
  BY <1>2, Numbers DEF Control, InTurn, ServeBegin, BeginServed, Types, SteerType, host, process
<1>3. CASE ServeInput
  BY <1>3, Numbers DEF Control, InTurn, ServeInput, Types, SteerType, host, process
<1>4. CASE ServeEmpty
  BY <1>4, Numbers DEF Control, InTurn, ServeEmpty, Types, SteerType, host, process
<1>5. CASE ServeRefusal
  BY <1>5, Numbers DEF Control, InTurn, ServeRefusal, host, process
<1>6. CASE Send
  BY <1>6, Numbers DEF Control, InTurn, Send
<1>7. CASE Interrupt
  BY <1>7, Numbers DEF Control, InTurn, Interrupt, Types, AgentType
<1>8. CASE TurnError
  BY <1>8, Numbers DEF Control, InTurn, TurnError
<1>9. CASE Waiting
  BY <1>9, Numbers DEF Control, InTurn, Waiting
<1>10. CASE RequestStop
  BY <1>10, Numbers DEF Control, InTurn, RequestStop, process
<1>11. CASE Restart
  BY <1>11, Numbers DEF Control, InTurn, Restart, FreshAgent
<1>12. CASE StartTurn
  BY <1>12, Numbers DEF Control, InTurn, StartTurn, FreshAgent, Types, AgentType, host
<1>13. CASE Begun
  BY <1>13, Numbers DEF Control, InTurn, Begun, Link, Types, AgentType, host
<1>14. CASE Loop
  <2>1. InTurn /\ UNCHANGED <<steer, host, stdin>>
    BY <1>14 DEF Loop, InTurn
  <2>2. CASE EndTurn("waiting")
    BY <2>1, <2>2, EndFields, ControlKept
  <2>3. CASE Drain(FALSE)
    <3>1. stderr' = stderr
      BY <2>3 DEF Drain
    <3>2. QED
      BY <2>1, <2>3, <3>1, DrainFields, ControlKept
  <2>4. CASE AskOrFail(FALSE)
    BY <2>1, <2>4, AskFields, ControlKept
  <2>5. QED
    BY <1>14, <2>2, <2>3, <2>4 DEF Loop
<1>15. CASE Model
  <2>1. InTurn /\ UNCHANGED <<steer, host, stdin>>
    BY <1>15 DEF Model, InTurn
  <2>2. CASE agent' = [agent EXCEPT !.phase = "loop"] /\ UNCHANGED stderr
    <3>1. SameTurn /\ agent'.phase = "loop"
      BY <2>2 DEF SameTurn, Types, AgentType
    <3>2. QED
      BY <2>1, <2>2, <3>1, ControlKept
  <2>3. CASE \E markers \in {"waiting", "error, waiting"} : EndTurn(markers)
    BY <2>1, <2>3, EndFields, ControlKept
  <2>4. CASE Drain(TRUE)
    <3>1. stderr' = stderr
      BY <2>4 DEF Drain
    <3>2. QED
      BY <2>1, <2>4, <3>1, DrainFields, ControlKept
  <2>5. QED
    BY <1>15, <2>2, <2>3, <2>4 DEF Model
<1>16. CASE AppendInput
  <2>1. agent.turn # 0 /\ InTurn
    BY <1>16 DEF AppendInput, HasInput, Link, Control, InTurn
  <2>2. agent'.key = agent.key /\ agent'.now = agent.now /\ agent'.turn = agent.turn /\ agent'.phase = agent.phase
    BY <1>16 DEF AppendInput, Types, AgentType
  <2>3. QED
    BY <1>16, <2>1, <2>2, Numbers DEF Control, InTurn, AppendInput, host
<1>17. CASE NoInput
  <2>1. InTurn /\ UNCHANGED <<steer, host, stdin>> /\ Drained(reply.is = "empty")
    BY <1>17 DEF NoInput, InTurn
  <2>2. QED
    BY <2>1, DrainedControl
<1>18. CASE GiveUp
  <2>1. InTurn /\ UNCHANGED <<steer, host, stdin>>
    BY <1>18 DEF GiveUp, InTurn
  <2>2. CASE agent.phase = "begin"
    <3>1. agent' = [agent EXCEPT !.phase = "loop"] /\ UNCHANGED stderr
      BY <1>18, <2>2 DEF GiveUp
    <3>2. SameTurn /\ agent'.phase = "loop"
      BY <3>1 DEF SameTurn, Types, AgentType
    <3>3. QED
      BY <2>1, <3>1, <3>2, ControlKept
  <2>3. CASE agent.phase # "begin"
    BY <1>18, <2>1, <2>3, DrainedControl DEF GiveUp
  <2>4. QED
    BY <2>2, <2>3
<1>19. CASE Die
  BY <1>19, Numbers DEF Control, InTurn, Die, Types, AgentType, host
<1>20. QED
  BY <1>1, <1>2, <1>3, <1>4, <1>5, <1>6, <1>7, <1>8, <1>9, <1>10, <1>11, <1>12, <1>13, <1>14,
     <1>15, <1>16, <1>17, <1>18, <1>19 DEF Next, Serve, AgentStep

(* A pull that was served is off the wire.                                 *)
LEMMA WireAnswered ==
  ASSUME Types, Wire, wire # << >>, NEW r, Answer(r), UNCHANGED agent
  PROVE  Wire'
<1> SUFFICES ASSUME NEW i \in 1 .. Len(wire') PROVE Left(wire[i])'
  BY DEF Wire
<1>1. wire' = Tail(wire)
  BY DEF Answer
<1>2. wire'[i] = wire[i + 1] /\ i + 1 \in 1 .. Len(wire)
  BY <1>1, HeadOfWire
<1>3. Left(wire[i + 1])
  BY <1>2 DEF Wire
<1>4. QED
  BY <1>2, <1>3 DEF Left, OfThisTurn, Finishing, InTurn

(* The Agent goes on in its turn, with nothing on the wire that it asked;  *)
(* or with a pull that seals nothing.                                      *)
LEMMA WireKept ==
  ASSUME Types, Control, Wire, UNCHANGED wire, SameTurn,
         \A i \in 1 .. Len(wire) : OfThisTurn(wire[i]) /\ wire[i].finish => Finishing' \/ ~InTurn'
  PROVE  Wire'
<1> SUFFICES ASSUME NEW i \in 1 .. Len(wire) PROVE Left(wire[i])'
  BY DEF Wire
<1>1. Left(wire[i])
  BY DEF Wire
<1>2. QED
  BY <1>1 DEF Left, OfThisTurn, SameTurn

LEMMA WireDrained ==
  ASSUME Types, Control, Link, Wire, agent.phase = "drain", UNCHANGED wire, NEW enabled, Drained(enabled)
  PROVE  Wire'
<1>1. SameTurn
  BY DrainedFields
<1>2. ASSUME NEW i \in 1 .. Len(wire), wire[i].finish
      PROVE  ~InTurn'
  <2>1. wire # << >>
    BY <1>2, EmptySeq
  <2>2. Len(wire) = 1 /\ wire[1] = Asked
    BY <2>1 DEF Link
  <2>3. Asked.finish
    BY <1>2, <2>2
  <2>4. Finishing
    BY <2>3 DEF Asked, Finishing
  <2>5. agent'.phase = "idle"
    BY <2>4, DrainedFields DEF Finishing
  <2>6. QED
    BY <2>5 DEF InTurn
<1>3. QED
  BY <1>1, <1>2, WireKept

LEMMA WireNext ==
  ASSUME Types, Control, Link, Wire, Next
  PROVE  Wire'
<1>1. ASSUME NEW t \in Turns, NEW id \in Ids, Admit(t, id)
      PROVE  Wire'
  BY <1>1 DEF Wire, Left, OfThisTurn, Finishing, InTurn, Admit, process, link
<1>2. CASE Serve
  BY <1>2, WireAnswered DEF Serve, ServeBegin, ServeInput, ServeEmpty, ServeRefusal, process
<1>3. CASE Send \/ TurnError \/ Waiting \/ RequestStop
  <2>1. UNCHANGED <<agent, wire>>
    BY <1>3 DEF Send, TurnError, Waiting, RequestStop, process, link
  <2>2. QED
    BY <2>1 DEF Wire, Left, OfThisTurn, Finishing, InTurn
<1>4. CASE Interrupt
  BY <1>4 DEF Wire, Left, OfThisTurn, Finishing, InTurn, Interrupt, link, Types, AgentType
<1>5. CASE Restart
  <2>1. agent'.key = agent.key + 1 /\ wire' = wire
    BY <1>5 DEF Restart, FreshAgent, Control, link
  <2>2. SUFFICES ASSUME NEW i \in 1 .. Len(wire) PROVE Left(wire[i])'
    BY <2>1 DEF Wire
  <2>3. wire[i].key <= agent.key
    BY DEF Wire, Left
  <2>4. wire[i].key \in Nat /\ agent.key \in Nat
    BY OnWire, Numbers
  <2>5. wire[i].key <= agent.key + 1 /\ wire[i].key # agent.key + 1
    BY <2>3, <2>4
  <2>6. QED
    BY <2>1, <2>5 DEF Left, OfThisTurn
<1>6. CASE StartTurn
  <2>1. agent'.key = agent.key /\ agent'.now = stdin /\ agent.now < stdin
    BY <1>6, Numbers DEF StartTurn, FreshAgent, Control
  <2>2. /\ Len(wire') = Len(wire) + 1 /\ Len(wire) \in Nat
        /\ \A i \in 1 .. Len(wire) : wire'[i] = wire[i]
        /\ wire'[Len(wire) + 1] = [key |-> agent.key, turn |-> 0, ack |-> 0, finish |-> FALSE]
    BY <1>6, Numbers, Pulled DEF StartTurn
  <2>3. SUFFICES ASSUME NEW i \in 1 .. Len(wire') PROVE Left(wire[i])'
    BY DEF Wire
  <2>4. CASE i \in 1 .. Len(wire)
    <3>1. wire'[i] = wire[i] /\ Left(wire[i])
      BY <2>2, <2>4 DEF Wire
    <3>2. /\ wire[i].key \in Nat /\ wire[i].turn \in Nat /\ agent.now \in Nat /\ stdin \in Nat
          /\ wire[i].key <= agent.key /\ (wire[i].key = agent.key => wire[i].turn <= agent.now)
      BY <2>4, <3>1, OnWire, Numbers DEF Left
    <3>3. wire[i].key = agent.key => wire[i].turn <= stdin /\ wire[i].turn # stdin
      BY <2>1, <3>2
    <3>4. QED
      BY <2>1, <3>1, <3>2, <3>3 DEF Left, OfThisTurn
  <2>5. CASE i = Len(wire) + 1
    BY <2>1, <2>2, <2>5, Numbers DEF Left, OfThisTurn
  <2>6. QED
    BY <2>2, <2>4, <2>5
<1>7. CASE Begun
  <2>1. agent.turn = 0 /\ wire' = wire /\ agent'.key = agent.key /\ agent'.now = agent.now
    BY <1>7 DEF Begun, Link, Types, AgentType
  <2>2. SUFFICES ASSUME NEW i \in 1 .. Len(wire) PROVE Left(wire[i])'
    BY <2>1 DEF Wire
  <2>3. Left(wire[i])
    BY DEF Wire
  <2>4. QED
    BY <2>1, <2>3 DEF Left, OfThisTurn
<1>8. ASSUME agent.phase \in {"loop", "model"}, SameTurn, UNCHANGED wire
      PROVE  Wire'
  BY <1>8, WireKept DEF Wire, Left, Finishing, InTurn
<1>9. ASSUME agent.phase \in {"loop", "model"}, agent.enabled, NEW finishing \in BOOLEAN, Drain(finishing)
      PROVE  Wire'
  <2>1. SameTurn /\ agent'.phase = "drain" /\ agent'.finishing = finishing /\ agent'.added = FALSE
    BY <1>9, DrainFields
  <2>2. wire = << >>
    BY <1>9 DEF Link
  <2>3. Len(wire') = 1 /\ wire'[1] = [key |-> agent.key, turn |-> agent.turn, ack |-> agent.ack, finish |-> finishing]
    BY <1>9, <2>2, Numbers, OnlyPull DEF Drain
  <2>4. agent.turn <= agent.now
    BY Numbers DEF Control
  <2>5. /\ agent.key \in Nat /\ agent.turn \in Nat /\ agent.now \in Nat
    BY Numbers
  <2>6. Left(wire[1])'
    <3>1. Finishing' <=> finishing
      BY <2>1 DEF Finishing
    <3>2. /\ wire'[1].key = agent.key /\ wire'[1].turn = agent.turn
          /\ wire'[1].ack = agent.ack /\ wire'[1].finish = finishing
      BY <2>3
    <3>3. /\ agent'.key = agent.key /\ agent'.now = agent.now
          /\ agent'.turn = agent.turn /\ agent'.ack = agent.ack
      BY <2>1 DEF SameTurn
    <3>4. QED
      BY <2>4, <2>5, <3>1, <3>2, <3>3 DEF Left, OfThisTurn
  <2>7. QED
    BY <2>3, <2>6 DEF Wire
<1>10. CASE Loop
  <2>1. CASE EndTurn("waiting") /\ UNCHANGED wire
    BY <1>8, <1>10, <2>1, EndFields DEF Loop
  <2>2. CASE agent.enabled /\ Drain(FALSE)
    BY <1>9, <1>10, <2>2 DEF Loop
  <2>3. CASE AskOrFail(FALSE) /\ UNCHANGED wire
    BY <1>8, <1>10, <2>3, AskFields DEF Loop
  <2>4. QED
    BY <1>10, <2>1, <2>2, <2>3 DEF Loop
<1>11. CASE Model
  <2>1. CASE agent' = [agent EXCEPT !.phase = "loop"] /\ UNCHANGED <<stderr, wire, heard>>
    BY <1>8, <1>11, <2>1 DEF Model, SameTurn, Types, AgentType
  <2>2. CASE \E markers \in {"waiting", "error, waiting"} : EndTurn(markers) /\ UNCHANGED wire
    BY <1>8, <1>11, <2>2, EndFields DEF Model
  <2>3. CASE agent.enabled /\ Drain(TRUE)
    BY <1>9, <1>11, <2>3 DEF Model
  <2>4. QED
    BY <1>11, <2>1, <2>2, <2>3 DEF Model
<1>12. CASE AppendInput
  <2>1. reply.n \in Nat /\ reply # Silence /\ agent.phase = "drain"
    BY <1>12, Kinds DEF AppendInput, HasInput, Types, LinkType
  <2>2. wire = << >>
    BY <2>1 DEF Link
  <2>3. Len(wire') = 1 /\ wire'[1] = [key |-> agent.key, turn |-> agent.turn, ack |-> reply.n, finish |-> FALSE]
    BY <1>12, <2>1, <2>2, OnlyPull DEF AppendInput
  <2>4. agent'.key = agent.key /\ agent'.now = agent.now /\ agent'.turn = agent.turn /\ agent'.ack = reply.n
    BY <1>12 DEF AppendInput, Types, AgentType
  <2>5. agent.turn <= agent.now
    BY Numbers DEF Control
  <2>6. QED
    BY <2>3, <2>4, <2>5, Numbers DEF Wire, Left, OfThisTurn
<1>13. CASE NoInput
  BY <1>13, WireDrained DEF NoInput
<1>14. CASE GiveUp
  <2>1. CASE agent.phase = "begin"
    <3>1. agent.turn = 0 /\ SameTurn /\ UNCHANGED wire
      BY <1>14, <2>1 DEF GiveUp, Link, SameTurn, Types, AgentType
    <3>2. \A i \in 1 .. Len(wire) : ~OfThisTurn(wire[i])
      BY <3>1 DEF Wire, Left, OfThisTurn
    <3>3. QED
      BY <3>1, <3>2, WireKept
  <2>2. CASE agent.phase = "drain"
    BY <1>14, <2>2, WireDrained DEF GiveUp
  <2>3. QED
    BY <1>14, <2>1, <2>2 DEF GiveUp
<1>15. CASE Die
  <2>1. SameTurn /\ UNCHANGED wire /\ ~InTurn'
    BY <1>15 DEF Die, SameTurn, InTurn, Types, AgentType
  <2>2. QED
    BY <2>1, WireKept
<1>16. QED
  BY <1>1, <1>2, <1>3, <1>4, <1>5, <1>6, <1>7, <1>10, <1>11, <1>12, <1>13, <1>14, <1>15
     DEF Next, AgentStep

(* What an answer leaves: the Agent gets it if it waits for it.            *)
LEMMA LinkAnswered ==
  ASSUME Types, Control, Link, wire # << >>, NEW r \in Replies, r # Silence, Answer(r), UNCHANGED <<agent, task>>,
         InTurn /\ agent.turn # 0 => steer'.turn = steer.turn,
         Len(wire) = 1 /\ wire[1].turn # 0 => r.is # "turn",
         Len(wire) = 1 /\ wire[1].turn = 0 => r.is \notin {"empty", "input"},
         r.is = "turn" /\ agent.phase = "begin" => r.turn = task /\ steer'.turn = task
  PROVE  Link'
<1>1. /\ wire' = Tail(wire) /\ Len(wire') = Len(wire) - 1 /\ Len(wire) \in Nat /\ Len(wire) > 0
      /\ \A i \in 1 .. Len(wire) - 1 : wire'[i] = wire[i + 1]
      /\ wire' \in Seq(PullSet)
  BY HeadOfWire DEF Answer
<1>2. Len(wire) = 1 => wire' = << >>
  BY <1>1, EmptySeq
<1>3. ASSUME Len(wire) > 1 PROVE wire' # << >> /\ wire'[Len(wire')] = wire[Len(wire)]
  <2>1. Len(wire) - 1 \in 1 .. Len(wire) - 1 /\ (Len(wire) - 1) + 1 = Len(wire)
    BY <1>1, <1>3
  <2>2. wire' # << >>
    <3>1. Len(wire') # 0 /\ Len(<< >>) = 0
      BY <1>1, <1>3, EmptySeq
    <3>2. QED
      BY <3>1
  <2>3. QED
    BY <1>1, <2>1, <2>2
<1>4. reply' = IF Len(wire) = 1 /\ Waits THEN r ELSE reply
  BY DEF Answer
<1>5. CASE agent.phase \notin {"begin", "drain"}
  BY <1>4, <1>5 DEF Link, Waits, InTurn
<1>6. CASE agent.phase = "drain"
  <2>1. reply = Silence /\ Len(wire) = 1 /\ wire[1] = Asked /\ agent.enabled
    BY <1>6 DEF Link
  <2>2. wire[1].turn # 0
    BY <1>6, <2>1 DEF Asked, Link, InTurn, Control
  <2>3. reply' = r /\ wire' = << >> /\ r.is # "turn"
    BY <1>2, <1>4, <1>6, <2>1, <2>2 DEF Waits
  <2>4. steer'.turn = steer.turn \/ agent.turn = 0
    BY <1>6 DEF InTurn
  <2>5. QED
    BY <1>6, <2>3, <2>4, Kinds DEF Link, InTurn
<1>7. CASE agent.phase = "begin"
  <2>1. reply = Silence /\ agent.turn = 0 /\ ~agent.enabled /\ wire[Len(wire)].turn = 0
    BY <1>7 DEF Link
  <2>2. CASE Len(wire) = 1
    BY <1>2, <1>4, <1>7, <2>1, <2>2, Kinds DEF Link, InTurn, Waits
  <2>3. CASE Len(wire) > 1
    <3>1. reply' = Silence /\ wire' # << >> /\ wire'[Len(wire')].turn = 0
      BY <1>3, <1>4, <2>1, <2>3
    <3>2. Silence.is = "silence"
      BY DEF Silence
    <3>3. QED
      BY <1>7, <2>1, <3>1, <3>2 DEF Link, InTurn
  <2>4. QED
    BY <1>1, <2>2, <2>3
<1>8. QED
  BY <1>5, <1>6, <1>7

LEMMA LinkNext ==
  ASSUME Types, Control, Link, Next
  PROVE  Link'
<1>1. ASSUME NEW t \in Turns, NEW id \in Ids, Admit(t, id)
      PROVE  Link'
  BY <1>1 DEF Link, Asked, InTurn, Admit, host, process, link, Types, SteerType
<1>2. CASE ServeBegin
  <2>1. /\ active # 0 /\ active = task /\ task \in Turns /\ wire # << >> /\ Head(wire).turn = 0
        /\ steer'.turn = active /\ Answer(TurnIs(active)) /\ UNCHANGED <<agent, task>>
    BY <1>2, Numbers DEF ServeBegin, BeginServed, Control, Types, SteerType, host, process
  <2>2. TurnIs(task).is = "turn" /\ TurnIs(task).turn = task /\ TurnIs(task) \in Replies
    BY <2>1, Answers DEF TurnIs
  <2>3. InTurn /\ agent.turn # 0 => steer'.turn = steer.turn
    BY <2>1 DEF Link, Control
  <2>4. TurnIs(task) # Silence
    BY <2>2 DEF Silence
  <2>5. QED
    BY <2>1, <2>2, <2>3, <2>4, HeadOfWire, LinkAnswered
<1>3. CASE ServeInput
  <2>1. wire # << >> /\ TurnServed(Head(wire)) /\ steer'.turn = steer.turn /\ UNCHANGED <<agent, task>>
    BY <1>3 DEF ServeInput, Types, SteerType, host, process
  <2>2. PICK r \in Replies : Answer(r) /\ r.is \in {"refusal", "input"}
    <3> DEFINE s == Acked(Head(wire).ack)
               i == First(Unapplied(s))
    <3>1. s \in Seq(InputSet) /\ Unapplied(s) # {}
      BY <1>3, <2>1, HeadOfWire, AckedInputs DEF ServeInput
    <3>2. i \in 1 .. Len(s)
      BY <3>1, FirstUnapplied
    <3>3. s[i].id \in Ids /\ i \in Nat
      <4>1. s[i] \in InputSet
        BY <3>1, <3>2, ElementOfSeq
      <4>2. QED
        BY <3>2, <4>1 DEF InputSet
    <3>4. Answer(Refusal) \/ Answer(Input(i, s[i].id))
      BY <1>3 DEF ServeInput
    <3> HIDE DEF s, i
    <3>5. QED
      BY <3>3, <3>4, Answers DEF Refusal, Input
  <2>3. Head(wire).turn # 0 /\ Head(wire) = wire[1]
    BY <2>1, HeadOfWire DEF TurnServed
  <2>4. r # Silence
    BY <2>2 DEF Silence
  <2>5. QED
    BY <2>1, <2>2, <2>3, <2>4, LinkAnswered
<1>4. CASE ServeEmpty
  <2>1. /\ wire # << >> /\ TurnServed(Head(wire)) /\ steer'.turn = steer.turn
        /\ UNCHANGED <<agent, task>> /\ Answer(Empty)
    BY <1>4 DEF ServeEmpty, Types, SteerType, host, process
  <2>2. Empty \in Replies /\ Empty.is = "empty" /\ Empty # Silence
    BY Answers DEF Empty, Silence
  <2>3. Head(wire).turn # 0 /\ Head(wire) = wire[1]
    BY <2>1, HeadOfWire DEF TurnServed
  <2>4. QED
    BY <2>1, <2>2, <2>3, LinkAnswered
<1>5. CASE ServeRefusal
  <2>1. wire # << >> /\ steer'.turn = steer.turn /\ UNCHANGED <<agent, task>> /\ Answer(Refusal)
    BY <1>5 DEF ServeRefusal, host, process
  <2>2. Refusal \in Replies /\ Refusal.is = "refusal" /\ Refusal # Silence
    BY Answers DEF Refusal, Silence
  <2>3. QED
    BY <2>1, <2>2, LinkAnswered
<1>6. CASE Send
  <2>1. ~InTurn
    BY <1>6 DEF Send, Control
  <2>2. QED
    BY <1>6, <2>1 DEF Send, Link, InTurn, link
<1>7. CASE TurnError \/ Waiting \/ RequestStop
  BY <1>7 DEF Link, Asked, InTurn, TurnError, Waiting, RequestStop, process, link
<1>8. CASE Interrupt
  BY <1>8 DEF Link, Asked, InTurn, Interrupt, link, Types, AgentType
<1>9. CASE Restart
  <2>1. agent'.phase = "idle" /\ reply' = reply /\ agent.phase = "dead"
    BY <1>9 DEF Restart, FreshAgent, link
  <2>2. QED
    BY <2>1 DEF Link, InTurn
<1>10. CASE StartTurn
  <2>1. agent'.phase = "begin" /\ ~agent'.enabled /\ agent'.turn = 0 /\ reply' = Silence
    BY <1>10 DEF StartTurn, FreshAgent, Link
  <2>2. /\ Len(wire') = Len(wire) + 1 /\ Len(wire) \in Nat
        /\ wire'[Len(wire) + 1] = [key |-> agent.key, turn |-> 0, ack |-> 0, finish |-> FALSE]
    BY <1>10, Numbers, Pulled DEF StartTurn
  <2>3. wire' # << >> /\ wire'[Len(wire')].turn = 0
    BY <2>2, EmptySeq
  <2>4. Silence.is = "silence"
    BY DEF Silence
  <2>5. QED
    BY <2>1, <2>3, <2>4 DEF Link, InTurn
<1>11. CASE Begun
  <2>1. /\ agent'.phase = "loop" /\ wire' = << >> /\ reply' = Silence /\ steer'.turn = steer.turn /\ task' = task
        /\ agent'.enabled = (reply.is = "turn") /\ agent'.turn = IF reply.is = "turn" THEN reply.turn ELSE 0
    BY <1>11 DEF Begun, Link, Types, AgentType, host
  <2>2. reply.is = "turn" => reply.turn = task /\ steer.turn = task
    BY <1>11 DEF Begun, Link
  <2>3. QED
    BY <2>1, <2>2 DEF Link, InTurn
<1>12. ASSUME agent.phase \in {"loop", "model"}, SameTurn, UNCHANGED <<wire, reply, steer, task>>,
              agent'.phase \in {"loop", "model", "idle"}, agent'.phase # "idle" => agent'.enabled \in {FALSE, agent.enabled}
      PROVE  Link'
  BY <1>12 DEF Link, InTurn, SameTurn
<1>13. ASSUME agent.phase \in {"loop", "model"}, agent.enabled, NEW finishing \in BOOLEAN, Drain(finishing),
              UNCHANGED <<reply, steer, task>>
      PROVE  Link'
  <2>1. SameTurn /\ agent'.phase = "drain" /\ agent'.finishing = finishing /\ agent'.added = FALSE /\ agent'.enabled
    BY <1>13, DrainFields
  <2>2. wire = << >> /\ reply' = Silence
    BY <1>13 DEF Link
  <2>3. Len(wire') = 1 /\ wire'[1] = [key |-> agent.key, turn |-> agent.turn, ack |-> agent.ack, finish |-> finishing]
    BY <1>13, <2>2, Numbers, OnlyPull DEF Drain
  <2>4. Asked' = [key |-> agent.key, turn |-> agent.turn, ack |-> agent.ack, finish |-> finishing]
    BY <2>1 DEF Asked, SameTurn
  <2>5. Silence.is = "silence"
    BY DEF Silence
  <2>6. QED
    BY <1>13, <2>1, <2>2, <2>3, <2>4, <2>5 DEF Link, InTurn, SameTurn
<1>14. CASE Loop
  <2>1. CASE EndTurn("waiting") /\ UNCHANGED wire
    BY <1>12, <1>14, <2>1, EndFields DEF Loop, host
  <2>2. CASE agent.enabled /\ Drain(FALSE)
    BY <1>13, <1>14, <2>2 DEF Loop, host
  <2>3. CASE ~agent.enabled /\ AskOrFail(FALSE) /\ UNCHANGED wire
    BY <1>12, <1>14, <2>3, AskFields DEF Loop, host
  <2>4. QED
    BY <1>14, <2>1, <2>2, <2>3 DEF Loop
<1>15. CASE Model
  <2>1. CASE agent' = [agent EXCEPT !.phase = "loop"] /\ UNCHANGED <<stderr, wire, heard>>
    BY <1>12, <1>15, <2>1 DEF Model, SameTurn, Types, AgentType, host
  <2>2. CASE \E markers \in {"waiting", "error, waiting"} : EndTurn(markers) /\ UNCHANGED wire
    BY <1>12, <1>15, <2>2, EndFields DEF Model, host
  <2>3. CASE agent.enabled /\ Drain(TRUE)
    BY <1>13, <1>15, <2>3 DEF Model, host
  <2>4. QED
    BY <1>15, <2>1, <2>2, <2>3 DEF Model
<1>16. CASE AppendInput
  <2>1. reply.n \in Nat /\ reply # Silence /\ agent.phase = "drain" /\ agent.enabled
    BY <1>16, Kinds DEF AppendInput, HasInput, Types, LinkType, Link
  <2>2. wire = << >>
    BY <2>1 DEF Link
  <2>3. Len(wire') = 1 /\ wire'[1] = [key |-> agent.key, turn |-> agent.turn, ack |-> reply.n, finish |-> FALSE]
    BY <1>16, <2>1, <2>2, OnlyPull DEF AppendInput
  <2>4. /\ agent'.key = agent.key /\ agent'.phase = "drain" /\ agent'.turn = agent.turn /\ agent'.ack = reply.n
        /\ agent'.added = TRUE /\ agent'.enabled = agent.enabled
    BY <1>16, <2>1 DEF AppendInput, Types, AgentType
  <2>5. Asked' = [key |-> agent.key, turn |-> agent.turn, ack |-> reply.n, finish |-> FALSE]
    BY <2>4 DEF Asked
  <2>6. Silence.is = "silence" /\ reply' = Silence /\ UNCHANGED <<steer, task>>
    BY <1>16 DEF Silence, AppendInput, host
  <2>7. QED
    BY <2>1, <2>3, <2>4, <2>5, <2>6 DEF Link, InTurn
<1>17. CASE NoInput
  <2>1. agent.phase = "drain" /\ reply # Silence /\ UNCHANGED <<steer, task, wire>> /\ reply' = Silence
    BY <1>17 DEF NoInput, host
  <2>2. wire = << >> /\ agent.enabled
    BY <2>1 DEF Link
  <2>3. SameTurn /\ agent'.phase \in {"idle", "loop", "model"}
    BY <1>17, DrainedFields DEF NoInput
  <2>4. QED
    BY <2>1, <2>2, <2>3 DEF Link, InTurn, SameTurn
<1>18. CASE GiveUp
  <2>1. UNCHANGED <<steer, task, wire>> /\ reply' = Silence
    BY <1>18 DEF GiveUp, host
  <2>2. CASE agent.phase = "begin"
    <3>1. SameTurn /\ agent'.phase = "loop" /\ ~agent'.enabled
      BY <1>18, <2>2 DEF GiveUp, SameTurn, Link, Types, AgentType
    <3>2. QED
      BY <2>1, <2>2, <3>1 DEF Link, InTurn, SameTurn
  <2>3. CASE agent.phase = "drain"
    <3>1. SameTurn /\ agent'.phase \in {"idle", "loop", "model"} /\ (agent'.phase # "idle" => ~agent'.enabled)
      BY <1>18, <2>3, DrainedFields DEF GiveUp
    <3>2. QED
      BY <2>1, <2>3, <3>1 DEF Link, InTurn, SameTurn
  <2>4. QED
    BY <1>18, <2>2, <2>3 DEF GiveUp
<1>19. CASE Die
  BY <1>19 DEF Die, Link, InTurn, Types, AgentType
<1>20. QED
  BY <1>1, <1>2, <1>3, <1>4, <1>5, <1>6, <1>7, <1>8, <1>9, <1>10, <1>11, <1>14, <1>15, <1>16,
     <1>17, <1>18, <1>19 DEF Next, Serve, AgentStep
-----------------------------------------------------------------------------
(* A turn that was closed: the Agent is not in it, or holds the answer to  *)
(* the pull that closed it; and it is not opened again.                    *)
Sealing ==
  /\ \A t \in sealed : t <= task
  /\ (active # 0 \/ stdin # 0 \/ agent.now = task) /\ steer.turn # task => task \notin sealed
  /\ stdin # 0 => task \notin sealed
  /\ agent.now \in sealed => (Finishing /\ reply = Empty) \/ ~InTurn
  /\ steer.open => steer.turn \notin sealed

(* A pull that is served for a turn comes from the Agent that is in it, or *)
(* was the last to be in it, and acknowledges all it has appended.         *)
LEMMA CurrentPull ==
  ASSUME Types, Control, Wire, wire # << >>, TurnServed(Head(wire))
  PROVE  /\ OfThisTurn(Head(wire)) /\ Left(Head(wire)) /\ Head(wire).ack = agent.ack
         /\ agent.now = task /\ steer.turn = task /\ active = task /\ task # 0 /\ agent.turn = task
         /\ stdin = 0 /\ task \in Turns
<1>1. Head(wire) = wire[1] /\ 1 \in 1 .. Len(wire)
  BY HeadOfWire
<1>2. Left(Head(wire))
  BY <1>1 DEF Wire
<1>3. /\ Head(wire).key = agent.key /\ Head(wire).turn = steer.turn /\ Head(wire).turn # 0
      /\ active = steer.turn
  BY DEF TurnServed, SteerActive, Control
<1>4. active = task /\ Head(wire).turn <= agent.now /\ agent.now <= task
  BY <1>2, <1>3 DEF Control, Left
<1>5. agent.now = task
  BY <1>3, <1>4, Numbers
<1>6. OfThisTurn(Head(wire))
  BY <1>3, <1>4, <1>5 DEF OfThisTurn
<1>7. QED
  BY <1>2, <1>3, <1>4, <1>5, <1>6, Numbers DEF Left, Control

(* No action opens a closed turn again or asks the model in it.            *)
LEMMA SealingNext ==
  ASSUME Types, Control, Link, Wire, Sealing, Next
  PROVE  Sealing'
<1>1. ASSUME NEW t \in Turns, NEW id \in Ids, Admit(t, id)
      PROVE  Sealing'
  BY <1>1 DEF Sealing, Finishing, InTurn, Admit, host, process, link, Types, SteerType
<1>2. ASSUME wire # << >> PROVE agent.now \in sealed => ~InTurn
  <2>1. reply # Empty \/ ~Finishing
    BY <1>2, Kinds DEF Link, Finishing, Empty, Silence
  <2>2. QED
    BY <2>1 DEF Sealing
<1>3. CASE ServeBegin
  <2>1. /\ wire # << >> /\ UNCHANGED <<agent, host, stdin, sealed>> /\ active = task /\ active # 0
        /\ steer' = steer \/ steer.turn # task
        /\ steer'.turn = task
    BY <1>3, Numbers DEF ServeBegin, BeginServed, Control, Types, SteerType, process, history
  <2>2. task \notin sealed \/ steer' = steer
    BY <2>1 DEF Sealing
  <2>3. steer'.open => steer'.turn \notin sealed
    BY <2>1, <2>2 DEF Sealing
  <2>4. QED
    BY <1>2, <2>1, <2>3 DEF Sealing, InTurn, host
<1>4. CASE ServeInput
  <2>1. /\ wire # << >> /\ UNCHANGED <<agent, host, stdin, sealed>>
        /\ steer'.turn = steer.turn /\ steer'.open = steer.open
    BY <1>4 DEF ServeInput, Types, SteerType, process
  <2>2. QED
    BY <1>2, <2>1 DEF Sealing, InTurn, host
<1>5. CASE ServeEmpty
  <2>1. /\ wire # << >> /\ TurnServed(Head(wire)) /\ UNCHANGED <<agent, host, stdin>>
        /\ steer'.turn = steer.turn /\ steer'.open = (steer.open /\ ~Head(wire).finish)
        /\ sealed' = IF Head(wire).finish THEN sealed \cup {steer.turn} ELSE sealed
        /\ Answer(Empty)
    BY <1>5 DEF ServeEmpty, Types, SteerType, process
  <2>2. CASE ~Head(wire).finish
    BY <1>2, <2>1, <2>2 DEF Sealing, InTurn, host
  <2>3. CASE Head(wire).finish
    <3>1. /\ OfThisTurn(Head(wire)) /\ Left(Head(wire)) /\ agent.now = task /\ steer.turn = task
          /\ stdin = 0 /\ task \in Turns
      BY <2>1, CurrentPull
    <3>2. Finishing \/ ~InTurn
      BY <2>3, <3>1 DEF Left
    <3>3. ASSUME Finishing PROVE reply' = Empty
      <4>1. reply = Silence /\ Len(wire) = 1
        BY <2>1, <3>3 DEF Link, Finishing
      <4>2. QED
        BY <2>1, <3>3, <4>1 DEF Answer, Waits, Finishing
    <3>4. Finishing' = Finishing /\ InTurn' = InTurn
      BY <2>1 DEF Finishing, InTurn
    <3>5. ~steer'.open
      BY <2>1, <2>3, Zenon
    <3>6. sealed' = sealed \cup {task} /\ steer'.turn = task /\ task' = task /\ stdin' = 0 /\ task <= task
      BY <2>1, <2>3, <3>1, Numbers DEF host
    <3>7. (Finishing /\ reply = Empty)' \/ ~InTurn'
      BY <3>2, <3>3, <3>4
    <3>8. QED
      BY <3>5, <3>6, <3>7 DEF Sealing
  <2>4. QED
    BY <2>2, <2>3
<1>6. CASE ServeRefusal
  <2>1. wire # << >> /\ UNCHANGED <<steer, agent, host, stdin, sealed>>
    BY <1>6 DEF ServeRefusal, process, history
  <2>2. QED
    BY <1>2, <2>1 DEF Sealing, InTurn, host
<1>7. CASE Send
  BY <1>7, Numbers DEF Sealing, Send, Finishing, InTurn, Control, link, history, Types, HistoryType
<1>8. CASE TurnError \/ Waiting \/ RequestStop
  BY <1>8, Numbers DEF Sealing, Finishing, InTurn, Control, TurnError, Waiting, RequestStop, process, link, history
<1>9. CASE Interrupt
  BY <1>9, Numbers DEF Sealing, Finishing, InTurn, Control, Interrupt, link, history, Types, AgentType
<1>10. CASE Restart
  BY <1>10, Numbers DEF Sealing, Finishing, InTurn, Control, Restart, FreshAgent, link, history, Types, HistoryType
<1>11. CASE StartTurn
  BY <1>11, Numbers DEF Sealing, Finishing, InTurn, Control, StartTurn, FreshAgent, host, history
<1>12. ASSUME UNCHANGED <<steer, host, stdin, sealed>>, agent'.now = agent.now, InTurn,
              Finishing /\ reply = Empty => ~InTurn'
       PROVE  Sealing'
  BY <1>12 DEF Sealing, host
<1>13. CASE Begun
  <2>1. ~Finishing /\ InTurn /\ UNCHANGED <<steer, host, stdin, sealed>> /\ agent'.now = agent.now
    BY <1>13 DEF Begun, Finishing, InTurn, history, Types, AgentType
  <2>2. QED
    BY <1>12, <2>1
<1>14. CASE Loop \/ Model
  <2>1. ~Finishing /\ InTurn /\ UNCHANGED <<steer, host, stdin, sealed>>
    BY <1>14 DEF Loop, Model, Finishing, InTurn
  <2>2. agent'.now = agent.now
    BY <1>14, EndFields, DrainFields, AskFields DEF Loop, Model, SameTurn, Types, AgentType
  <2>3. QED
    BY <1>12, <2>1, <2>2
<1>15. CASE AppendInput
  <2>1. InTurn /\ reply # Empty /\ UNCHANGED <<steer, host, stdin, sealed>> /\ agent'.now = agent.now
    BY <1>15 DEF AppendInput, HasInput, InTurn, Empty, Types, AgentType
  <2>2. QED
    BY <1>12, <2>1
<1>16. ASSUME agent.phase = "drain", NEW enabled, Drained(enabled)
       PROVE  agent'.now = agent.now /\ (Finishing => ~InTurn')
  BY <1>16, DrainedFields DEF SameTurn, Finishing, InTurn
<1>17. CASE NoInput
  <2>1. InTurn /\ UNCHANGED <<steer, host, stdin, sealed>> /\ agent.phase = "drain"
    BY <1>17 DEF NoInput, InTurn
  <2>2. QED
    BY <1>12, <1>16, <1>17, <2>1 DEF NoInput
<1>18. CASE GiveUp
  <2>1. InTurn /\ UNCHANGED <<steer, host, stdin, sealed>>
    BY <1>18 DEF GiveUp, InTurn
  <2>2. agent.phase = "begin" => agent'.now = agent.now /\ ~Finishing
    BY <1>18 DEF GiveUp, Finishing, Types, AgentType
  <2>3. agent.phase = "drain" => agent'.now = agent.now /\ (Finishing => ~InTurn')
    BY <1>16, <1>18 DEF GiveUp
  <2>4. QED
    BY <1>12, <1>18, <2>1, <2>2, <2>3 DEF GiveUp
<1>19. CASE Die
  <2>1. ~InTurn' /\ UNCHANGED <<steer, host, stdin, sealed>> /\ agent'.now = agent.now
    BY <1>19 DEF Die, InTurn, history, Types, AgentType
  <2>2. QED
    BY <2>1 DEF Sealing, host
<1>20. QED
  BY <1>1, <1>3, <1>4, <1>5, <1>6, <1>7, <1>8, <1>9, <1>10, <1>11, <1>13, <1>14, <1>15, <1>17,
     <1>18, <1>19 DEF Next, Serve, AgentStep
-----------------------------------------------------------------------------
(* The inductive invariant of the link between host and Agent.             *)
SealInv == Types /\ Control /\ Link /\ Wire /\ Sealing

LEMMA SealInvInit == Init => SealInv
<1> SUFFICES ASSUME Init PROVE SealInv
  OBVIOUS
<1>1. Types
  BY TypesInit
<1>2. agent.phase = "idle" /\ agent.now = 0 /\ agent.turn = 0 /\ agent.ack = 0 /\ agent.key = steer.key
  BY DEF Init, FreshAgent
<1>3. Control
  BY <1>2, Numbers DEF Init, Control, InTurn
<1>4. Link
  BY <1>2 DEF Init, Link, InTurn
<1>5. Wire
  <2>1. 1 .. Len(wire) = {}
    BY DEF Init
  <2>2. QED
    BY <2>1 DEF Wire
<1>6. Sealing
  BY <1>2 DEF Init, Sealing
<1>7. QED
  BY <1>1, <1>3, <1>4, <1>5, <1>6 DEF SealInv

LEMMA SealInvNext == SealInv /\ [Next]_vars => SealInv'
<1>1. ASSUME SealInv, Next PROVE SealInv'
  BY <1>1, TypesNext, ControlNext, LinkNext, WireNext, SealingNext DEF SealInv
<1>2. ASSUME SealInv, UNCHANGED vars PROVE SealInv'
  <2>1. Types'
    <3>1. SteerType' /\ AgentType' /\ LinkType'
      BY <1>2 DEF SealInv, vars, process, link, Types, SteerType, AgentType, LinkType
    <3>2. HostType'
      BY <1>2 DEF SealInv, vars, host, process, Types, HostType
    <3>3. HistoryType'
      BY <1>2 DEF SealInv, vars, history, Types, HistoryType
    <3>4. QED
      BY <3>1, <3>2, <3>3 DEF Types
  <2>2. Control' /\ Link' /\ Wire'
    BY <1>2 DEF SealInv, vars, host, process, link, Control, Link, Wire, Left, OfThisTurn, Asked,
            Finishing, InTurn
  <2>3. Sealing'
    BY <1>2 DEF SealInv, vars, host, process, link, history, Sealing, Finishing, InTurn
  <2>4. QED
    BY <2>1, <2>2, <2>3 DEF SealInv
<1>3. QED
  BY <1>1, <1>2

(* No turn is open on one side and closed on the other: the turn, pulls,   *)
(* answers and seals that host and Agent speak of agree, in every state.   *)
THEOREM SealInvAlways == Spec => []SealInv
<1>1. QED
  BY SealInvInit, SealInvNext, PTL DEF Spec

(* The seal is the last word: a turn whose admission was closed asks the   *)
(* model nothing more, whoever gave up on whose answer.                    *)
THEOREM SealIsLastAlways == Spec => []SealIsLast
<1>1. SealInv => SealIsLast
  BY Numbers DEF SealInv, Sealing, SealIsLast, InTurn, Finishing
<1>2. QED
  BY <1>1, SealInvAlways, PTL
-----------------------------------------------------------------------------
(* A turn that nobody has served has no inputs.                            *)
Untouched(t) == admitted[t] = << >> /\ appended[t] = << >> /\ receipts[t] = << >>

Fresh ==
  /\ \A t \in Turns : t > task => Untouched(t)
  /\ (active # 0 \/ stdin # 0 \/ agent.now = task) /\ steer.turn # task /\ task # 0 => Untouched(task)
  /\ stdin # 0 => appended[task] = << >> /\ receipts[task] = << >>

(* The inputs of the turn that is open are those that were admitted: the   *)
(* ones with a receipt are applied, the next one may have been handed out, *)
(* and the others wait.                                                    *)
Count == Len(receipts[steer.turn])

Marks ==
  steer.turn # 0 =>
    /\ Len(admitted[steer.turn]) = Len(steer.inputs) /\ Count <= Len(steer.inputs)
    /\ \A i \in 1 .. Len(steer.inputs) :
         /\ admitted[steer.turn][i] = steer.inputs[i].id
         /\ i <= Count => /\ steer.inputs[i].state = "applied"
                          /\ receipts[steer.turn][i] = steer.inputs[i].id
         /\ i = Count + 1 => steer.inputs[i].state # "applied"
         /\ i > Count + 1 => steer.inputs[i].state = "pending"

(* The Agent is at most one input ahead of the receipts, by one that was   *)
(* handed out, and by none when it may ask for the seal.                   *)
Settled ==
  \/ agent.phase \in {"loop", "model"} /\ agent.enabled
  \/ Finishing \/ reply = Empty

Acks ==
  steer.turn # 0 /\ agent.now = steer.turn =>
    /\ agent.ack = Count
       \/ /\ agent.ack = Count + 1 /\ agent.ack <= Len(steer.inputs)
          /\ steer.inputs[agent.ack].state = "delivered"
    /\ Settled => agent.ack = Count
    /\ reply.is = "input" =>
         /\ agent.ack = Count /\ reply.n = Count + 1 /\ reply.n <= Len(steer.inputs)
         /\ reply.id = steer.inputs[reply.n].id /\ steer.inputs[reply.n].state = "delivered"
    /\ \A i \in 1 .. Len(wire) : OfThisTurn(wire[i]) /\ wire[i].finish => agent.ack = Count

(* What the Agent has appended is what it acknowledges, and what it asked  *)
(* the model with.                                                         *)
Appends ==
  /\ ~agent.failed
  /\ steer.turn # 0 /\ agent.now = steer.turn =>
       /\ Len(appended[agent.now]) = agent.ack
       /\ \A i \in 1 .. agent.ack : appended[agent.now][i] = steer.inputs[i].id
  /\ agent.phase = "model" \/ Finishing => heard[agent.now] = Len(appended[agent.now])
  /\ \A i \in 1 .. Len(wire) :
       OfThisTurn(wire[i]) /\ wire[i].finish => heard[agent.now] = Len(appended[agent.now])
  /\ agent.now # 0 => BoundaryInputIsHeard

Contents == Fresh /\ Marks /\ Acks /\ Appends /\ ReceiptAfterAppend
-----------------------------------------------------------------------------
(* The sequences of the history.                                           *)
LEMMA Histories ==
  ASSUME Types, NEW t \in Turns
  PROVE  /\ admitted[t] \in Seq(Ids) /\ appended[t] \in Seq(Ids) /\ receipts[t] \in Seq(Ids)
         /\ Len(admitted[t]) \in Nat /\ Len(appended[t]) \in Nat /\ Len(receipts[t]) \in Nat
         /\ Len(steer.inputs) \in Nat /\ heard[t] \in Nat
         /\ \A i \in 1 .. Len(steer.inputs) :
              /\ steer.inputs[i].id \in Ids
              /\ steer.inputs[i].state \in {"pending", "delivered", "applied"}
<1>1. admitted[t] \in Seq(Ids) /\ appended[t] \in Seq(Ids) /\ receipts[t] \in Seq(Ids) /\ heard[t] \in Nat
  BY DEF Types, HistoryType
<1>2. \A i \in 1 .. Len(steer.inputs) : steer.inputs[i] \in InputSet
  BY Numbers, ElementOfSeq
<1>3. QED
  BY <1>1, <1>2, Numbers, LenProperties DEF InputSet

(* How far a served pull brings the inputs of its turn: to what it         *)
(* acknowledges.                                                           *)
LEMMA AckedMarks ==
  ASSUME SealInv, Marks, Acks, wire # << >>, TurnServed(Head(wire)), Receipt(Head(wire).ack)
  PROVE  /\ agent.ack <= Len(steer.inputs) /\ Len(receipts'[task]) = agent.ack
         /\ Len(Acked(Head(wire).ack)) = Len(steer.inputs)
         /\ \A i \in 1 .. Len(steer.inputs) :
              /\ Acked(Head(wire).ack)[i].id = steer.inputs[i].id
              /\ i <= agent.ack => /\ Acked(Head(wire).ack)[i].state = "applied"
                                   /\ receipts'[task][i] = steer.inputs[i].id
              /\ i = agent.ack + 1 => Acked(Head(wire).ack)[i].state \in {"pending", "delivered"}
              /\ i > agent.ack + 1 => Acked(Head(wire).ack)[i].state = "pending"
         /\ \/ receipts' = receipts /\ agent.ack = Count
            \/ /\ agent.ack = Count + 1
               /\ receipts' = [receipts EXCEPT ![task] = Append(@, steer.inputs[agent.ack].id)]
<1> DEFINE n == agent.ack
           s == Acked(Head(wire).ack)
<1>1. /\ Head(wire).ack = n /\ agent.now = task /\ steer.turn = task /\ task # 0 /\ task \in Turns
      /\ Types
  BY CurrentPull DEF SealInv
<1>2. n \in Nat /\ Len(steer.inputs) \in Nat /\ Count \in Nat /\ receipts[task] \in Seq(Ids)
      /\ receipts \in [Turns -> Seq(Ids)]
  BY <1>1, Histories, Numbers DEF Count, Types, HistoryType
<1>3. /\ Len(s) = Len(steer.inputs)
      /\ \A i \in 1 .. Len(steer.inputs) :
           /\ s[i].id = steer.inputs[i].id
           /\ s[i].state = IF i = n THEN "applied" ELSE steer.inputs[i].state
  BY <1>1, HeadOfWire, AckedInputs
<1> HIDE DEF s
<1>4. \A i \in 1 .. Len(steer.inputs) :
        steer.inputs[i].state \in {"pending", "delivered", "applied"} /\ steer.inputs[i].id \in Ids
  BY <1>1, Histories
<1>5. /\ Count = Len(receipts[task]) /\ Count <= Len(steer.inputs)
      /\ \A i \in 1 .. Len(steer.inputs) :
           /\ i <= Count => steer.inputs[i].state = "applied" /\ receipts[task][i] = steer.inputs[i].id
           /\ i = Count + 1 => steer.inputs[i].state # "applied"
           /\ i > Count + 1 => steer.inputs[i].state = "pending"
  BY <1>1 DEF Marks, Count
<1>6. CASE n = Count
  <2>1. receipts' = receipts
    <3>1. n # 0 => steer.inputs[n].state = "applied"
      BY <1>2, <1>5, <1>6
    <3>2. QED
      BY <1>1, <3>1 DEF Receipt
  <2>2. \A i \in 1 .. Len(steer.inputs) :
          /\ i <= n => s[i].state = "applied" /\ receipts'[task][i] = steer.inputs[i].id
          /\ i = n + 1 => s[i].state \in {"pending", "delivered"}
          /\ i > n + 1 => s[i].state = "pending"
    <3>1. TAKE i \in 1 .. Len(steer.inputs)
    <3>2. i \in Nat
      OBVIOUS
    <3>3. s[i].state = steer.inputs[i].state
      <4>1. CASE i = n
        BY <1>2, <1>3, <1>5, <1>6, <3>2, <4>1
      <4>2. CASE i # n
        BY <1>3, <4>2
      <4>3. QED
        BY <4>1, <4>2
    <3>4. CASE i <= n
      BY <1>2, <1>5, <1>6, <2>1, <3>2, <3>3, <3>4
    <3>5. CASE i > n
      BY <1>2, <1>4, <1>5, <1>6, <3>2, <3>3, <3>5
    <3>6. QED
      BY <1>2, <3>2, <3>4, <3>5
  <2>3. QED
    BY <1>2, <1>3, <1>5, <1>6, <2>1, <2>2 DEF s
<1>7. CASE n # Count
  <2>1. n = Count + 1 /\ n \in 1 .. Len(steer.inputs) /\ steer.inputs[n].state = "delivered"
    BY <1>1, <1>2, <1>7 DEF Acks
  <2>2. receipts' = [receipts EXCEPT ![task] = Append(@, steer.inputs[n].id)]
    <3>1. ~(n = 0 \/ steer.inputs[n].state = "applied")
      BY <1>2, <2>1
    <3>2. QED
      BY <1>1, <3>1 DEF Receipt
  <2>3. receipts'[task] = Append(receipts[task], steer.inputs[n].id) /\ steer.inputs[n].id \in Ids
    BY <1>1, <1>2, <1>4, <2>1, <2>2
  <2>4. /\ Len(receipts'[task]) = Count + 1 /\ receipts'[task][Count + 1] = steer.inputs[n].id
        /\ \A i \in 1 .. Count : receipts'[task][i] = receipts[task][i]
    BY <1>1, <1>2, <2>3, AppendProperties DEF Count
  <2>5. \A i \in 1 .. Len(steer.inputs) :
          /\ i <= n => s[i].state = "applied" /\ receipts'[task][i] = steer.inputs[i].id
          /\ i = n + 1 => s[i].state \in {"pending", "delivered"}
          /\ i > n + 1 => s[i].state = "pending"
    <3>1. TAKE i \in 1 .. Len(steer.inputs)
    <3>2. i \in Nat
      OBVIOUS
    <3>3. CASE i = n
      BY <1>2, <1>3, <2>1, <2>4, <3>3
    <3>4. CASE i < n
      BY <1>2, <1>3, <1>5, <2>1, <2>4, <3>2, <3>4
    <3>5. CASE i > n
      BY <1>2, <1>3, <1>5, <2>1, <3>2, <3>5
    <3>6. QED
      BY <1>2, <3>2, <3>3, <3>4, <3>5
  <2>6. QED
    BY <1>2, <1>3, <2>1, <2>2, <2>4, <2>5 DEF s
<1>8. QED
  BY <1>6, <1>7
-----------------------------------------------------------------------------
(* A step of the host that gives out a turn, or gives one up.              *)
LEMMA HostContents ==
  ASSUME SealInv, Contents, Send \/ Interrupt \/ TurnError \/ Waiting \/ RequestStop
  PROVE  Contents'
<1>1. UNCHANGED <<steer, link, history>> /\ (UNCHANGED agent \/ Interrupt)
  BY DEF Send, Interrupt, TurnError, Waiting, RequestStop, process
<1>2. Types /\ Control
  BY DEF SealInv
<1>3. /\ agent'.phase = agent.phase /\ agent'.key = agent.key /\ agent'.now = agent.now
      /\ agent'.turn = agent.turn /\ agent'.ack = agent.ack /\ agent'.failed = agent.failed
      /\ agent'.enabled = agent.enabled /\ agent'.finishing = agent.finishing
      /\ agent'.added = agent.added /\ (~agent'.sigint => ~agent.sigint)
  BY <1>1, <1>2 DEF Interrupt, Types, AgentType
<1>4. Fresh'
  <2>1. CASE Send
    <3>1. /\ task' = task + 1 /\ stdin' = task + 1 /\ task + 1 \in Turns
      BY <2>1, <1>2, Numbers DEF Send
    <3>2. Untouched(task + 1)
      BY <3>1, <1>2, Numbers DEF Contents, Fresh
    <3>3. \A t \in Turns : t > task + 1 => Untouched(t)
      BY <1>2, Numbers DEF Contents, Fresh
    <3>4. QED
      BY <1>1, <3>1, <3>2, <3>3 DEF Fresh, Untouched, history
  <2>2. CASE Interrupt \/ TurnError \/ Waiting \/ RequestStop
    <3>1. /\ task' = task /\ stdin' = stdin /\ (active' # 0 => active # 0)
      BY <2>2 DEF Interrupt, TurnError, Waiting, RequestStop, process
    <3>2. QED
      BY <1>1, <1>3, <3>1 DEF Contents, Fresh, Untouched, history
  <2>3. QED
    BY <2>1, <2>2
<1>5. Marks' /\ ReceiptAfterAppend'
  BY <1>1 DEF Contents, Marks, Count, ReceiptAfterAppend, history
<1>6. Acks'
  BY <1>1, <1>3 DEF Contents, Acks, Settled, Finishing, Count, OfThisTurn, link, history
<1>7. Appends'
  BY <1>1, <1>3 DEF Contents, Appends, Finishing, OfThisTurn, BoundaryInputIsHeard, link, history
<1>8. QED
  BY <1>4, <1>5, <1>6, <1>7 DEF Contents

(* A step of the Agent within a turn that appends nothing.                 *)
LEMMA KeptContents ==
  ASSUME SealInv, Contents, UNCHANGED <<steer, host, stdin, admitted, appended, receipts>>,
         agent'.now = agent.now, agent'.ack = agent.ack, agent'.failed = agent.failed,
         reply' = Silence \/ reply' = reply,
         steer.turn # 0 /\ agent.now = steer.turn /\ Settled' => agent.ack = Count,
         \A i \in 1 .. Len(wire') :
           \/ i \in 1 .. Len(wire) /\ wire'[i] = wire[i] /\ agent'.key = agent.key
           \/ OfThisTurn(wire[i])' /\ wire'[i].finish =>
                /\ steer.turn # 0 /\ agent.now = steer.turn => agent.ack = Count
                /\ heard'[agent.now] = Len(appended[agent.now]),
         heard' = heard \/ (agent.now \in Turns /\ heard' = [heard EXCEPT ![agent.now] = Len(appended[agent.now])]),
         agent'.phase = "model" \/ Finishing' => heard'[agent.now] = Len(appended[agent.now]),
         agent.now # 0 => BoundaryInputIsHeard'
  PROVE  Contents'
<1>1. Fresh' /\ Marks' /\ ReceiptAfterAppend'
  BY DEF Contents, Fresh, Untouched, Marks, Count, ReceiptAfterAppend, host
<1>2. Count' = Count
  BY DEF Count
<1>3. Silence.is # "input"
  BY DEF Silence
<1>4. ASSUME NEW i \in 1 .. Len(wire'), OfThisTurn(wire[i])', wire'[i].finish
      PROVE  /\ steer.turn # 0 /\ agent.now = steer.turn => agent.ack = Count
             /\ heard'[agent.now] = Len(appended[agent.now])
  <2>1. CASE i \in 1 .. Len(wire) /\ wire'[i] = wire[i] /\ agent'.key = agent.key
    <3>1. OfThisTurn(wire[i])
      BY <1>4, <2>1 DEF OfThisTurn
    <3>2. QED
      BY <1>4, <2>1, <3>1 DEF Contents, Acks, Appends, Types, HistoryType, SealInv
  <2>2. QED
    BY <1>4, <2>1
<1>5. Acks'
  BY <1>2, <1>3, <1>4 DEF Contents, Acks
<1>6. Appends'
  BY <1>4 DEF Contents, Appends
<1>7. QED
  BY <1>1, <1>5, <1>6 DEF Contents
(* What the lemmas below ask of the state: an Agent that is in a turn, or  *)
(* waits, and the turn it is in.                                           *)
LEMMA TurnNow ==
  ASSUME SealInv
  PROVE  /\ InTurn => agent.now = task /\ agent.now \in Turns /\ agent.now # 0
         /\ InTurn /\ agent.enabled => steer.turn = agent.now /\ agent.turn = agent.now
         /\ wire # << >> => reply = Silence
         /\ agent.turn = 0 => agent.ack = 0
         /\ wire = << >> => 1 .. Len(wire) = {}
<1>1. Types /\ Control /\ Link
  BY DEF SealInv
<1>2. InTurn => agent.now = task /\ agent.now \in Turns /\ agent.now # 0
  BY <1>1, Numbers DEF Control
<1>3. InTurn /\ agent.enabled => steer.turn = agent.now /\ agent.turn = agent.now
  BY <1>1, <1>2 DEF Link
<1>4. wire # << >> => reply = Silence
  BY <1>1 DEF Link
<1>5. wire = << >> => 1 .. Len(wire) = {}
  <2>1. Len(<< >>) = 0
    BY EmptySeq
  <2>2. QED
    BY <2>1
<1>6. QED
  BY <1>1, <1>2, <1>3, <1>4, <1>5 DEF Control

LEMMA BegunContents ==
  ASSUME SealInv, Contents, Begun
  PROVE  Contents'
<1>1. Types /\ Link /\ Control
  BY DEF SealInv
<1>2. /\ UNCHANGED <<steer, host, stdin, stderr, wire, history>> /\ reply' = Silence
      /\ agent'.phase = "loop" /\ agent'.now = agent.now /\ agent'.ack = agent.ack
      /\ agent'.failed = agent.failed /\ agent'.key = agent.key
  BY <1>1 DEF Begun, Types, AgentType
<1>3. InTurn /\ agent.turn = 0 /\ wire = << >> /\ agent.now \in Turns /\ agent.ack = 0 /\ 1 .. Len(wire) = {}
  BY <1>1, TurnNow DEF Begun, InTurn, Link
<1>4. steer.turn # 0 /\ agent.now = steer.turn => agent.ack = Count
  BY <1>1, <1>3, Histories DEF Contents, Acks, Count
<1>5. ~Finishing' /\ agent'.phase # "model" /\ BoundaryInputIsHeard'
  BY <1>2 DEF Finishing, BoundaryInputIsHeard
<1>6. QED
  BY <1>2, <1>3, <1>4, <1>5, KeptContents DEF history

(* The next pull of a drain.                                               *)
LEMMA DrainContents ==
  ASSUME SealInv, Contents, UNCHANGED <<steer, host, stdin, reply, admitted, appended, receipts>>,
         agent.phase \in {"loop", "model"}, agent.enabled, NEW f \in BOOLEAN, Drain(f),
         f => agent.phase = "model"
  PROVE  Contents'
<1>1. Types /\ Link
  BY DEF SealInv
<1>2. /\ SameTurn /\ agent'.phase = "drain" /\ agent'.finishing = f
      /\ agent'.added = FALSE /\ heard' = heard
  BY DrainFields, <1>1
<1>3. wire = << >> /\ reply = Silence /\ agent.now \in Turns
  BY <1>1, TurnNow DEF Link, InTurn
<1>4. /\ 1 .. Len(wire') = {1}
      /\ wire'[1] = [key |-> agent.key, turn |-> agent.turn, ack |-> agent.ack, finish |-> f]
  BY <1>1, <1>3, Numbers, OnlyPull DEF Drain
<1>5. wire'[1].finish = f
  BY <1>4
<1>6. steer.turn # 0 /\ agent.now = steer.turn => agent.ack = Count
  BY DEF Contents, Acks, Settled
<1>7. f => heard[agent.now] = Len(appended[agent.now])
  BY DEF Contents, Appends
<1>8. Finishing' = f
  BY <1>2 DEF Finishing
<1>9. BoundaryInputIsHeard'
  BY <1>2 DEF BoundaryInputIsHeard
<1>10. QED
  BY <1>2, <1>3, <1>4, <1>5, <1>6, <1>7, <1>8, <1>9, KeptContents DEF SameTurn

(* The model is asked.                                                     *)
LEMMA AskContents ==
  ASSUME SealInv, Contents, UNCHANGED <<steer, host, stdin, wire, admitted, appended, receipts>>,
         reply' = Silence,
         NEW e \in BOOLEAN, AskOrFail(e), InTurn, ~Finishing,
         e => (steer.turn # 0 /\ agent.now = steer.turn => agent.ack = Count)
  PROVE  Contents'
<1>1. Types
  BY DEF SealInv
<1>2. ~agent.failed /\ agent.now \in Turns
  BY TurnNow DEF Contents, Appends
<1>3. /\ SameTurn /\ agent'.phase = "model" /\ agent'.enabled = e
      /\ heard' = [heard EXCEPT ![agent.now] = Len(appended[agent.now])]
  BY <1>1, <1>2, AskFields
<1>4. heard'[agent.now] = Len(appended[agent.now])
  BY <1>1, <1>2, <1>3 DEF Types, HistoryType
<1>5. Settled' => e
  BY <1>3 DEF Settled, Finishing, Silence, Empty
<1>6. BoundaryInputIsHeard'
  BY <1>3 DEF BoundaryInputIsHeard
<1>7. QED
  BY <1>2, <1>3, <1>4, <1>5, <1>6, KeptContents DEF SameTurn

(* The turn ends.                                                          *)
LEMMA EndContents ==
  ASSUME SealInv, Contents, UNCHANGED <<steer, host, stdin, wire, admitted, appended, receipts>>,
         reply' = Silence, NEW markers, EndTurn(markers),
         agent.phase = "model" \/ Finishing \/ agent.sigint
  PROVE  Contents'
<1>1. Types
  BY DEF SealInv
<1>2. /\ SameTurn /\ agent'.phase = "idle" /\ heard' = heard /\ agent'.sigint = agent.sigint
  BY <1>1, EndFields
<1>3. ~Settled'
  BY <1>2 DEF Settled, Finishing, Silence, Empty
<1>4. ~Finishing'
  BY <1>2 DEF Finishing
<1>5. agent.now # 0 => BoundaryInputIsHeard'
  BY <1>2 DEF BoundaryInputIsHeard, SameTurn, Contents, Appends
<1>6. QED
  BY <1>2, <1>3, <1>4, <1>5, KeptContents DEF SameTurn

LEMMA LoopContents ==
  ASSUME SealInv, Contents, Loop
  PROVE  Contents'
<1>1. UNCHANGED <<steer, host, stdin, reply, admitted, appended, receipts>> /\ agent.phase = "loop"
  BY DEF Loop
<1>2. reply = Silence /\ InTurn /\ ~Finishing
  BY <1>1 DEF SealInv, Link, InTurn, Finishing
<1>3. CASE agent.sigint /\ EndTurn("waiting") /\ UNCHANGED wire
  BY <1>1, <1>2, <1>3, EndContents
<1>4. CASE agent.enabled /\ Drain(FALSE)
  BY <1>1, <1>4, DrainContents
<1>5. CASE ~agent.enabled /\ AskOrFail(FALSE) /\ UNCHANGED wire
  BY <1>1, <1>2, <1>5, AskContents
<1>6. QED
  BY <1>3, <1>4, <1>5 DEF Loop

LEMMA ModelContents ==
  ASSUME SealInv, Contents, Model
  PROVE  Contents'
<1>1. UNCHANGED <<steer, host, stdin, reply, admitted, appended, receipts>> /\ agent.phase = "model"
  BY DEF Model
<1>2. reply = Silence /\ InTurn /\ ~Finishing /\ Types
  BY <1>1 DEF SealInv, Link, InTurn, Finishing
<1>3. CASE agent' = [agent EXCEPT !.phase = "loop"] /\ UNCHANGED <<stderr, wire, heard>>
  <2>1. /\ SameTurn /\ agent'.phase = "loop" /\ agent'.enabled = agent.enabled
    BY <1>2, <1>3 DEF SameTurn, Types, AgentType
  <2>2. Settled' => agent.enabled
    BY <1>1, <1>2, <2>1 DEF Settled, Finishing, Silence, Empty
  <2>3. steer.turn # 0 /\ agent.now = steer.turn /\ agent.enabled => agent.ack = Count
    BY <1>1 DEF Contents, Acks, Settled
  <2>4. ~Finishing' /\ BoundaryInputIsHeard'
    BY <2>1 DEF Finishing, BoundaryInputIsHeard
  <2>5. QED
    BY <1>1, <1>2, <1>3, <2>1, <2>2, <2>3, <2>4, KeptContents DEF SameTurn
<1>4. CASE \E markers \in {"waiting", "error, waiting"} : EndTurn(markers) /\ UNCHANGED wire
  BY <1>1, <1>2, <1>4, EndContents
<1>5. CASE agent.enabled /\ Drain(TRUE)
  BY <1>1, <1>5, DrainContents
<1>6. QED
  BY <1>3, <1>4, <1>5 DEF Model

(* A drain that is over, with an answer or without one.                    *)
LEMMA DrainedContents ==
  ASSUME SealInv, Contents, UNCHANGED <<steer, host, stdin, wire, admitted, appended, receipts>>,
         reply' = Silence, agent.phase = "drain", NEW e \in BOOLEAN, Drained(e),
         e => reply = Empty
  PROVE  Contents'
<1>1. Types /\ InTurn
  BY DEF SealInv, InTurn
<1>2. e => (steer.turn # 0 /\ agent.now = steer.turn => agent.ack = Count)
  BY DEF Contents, Acks, Settled
<1>3. CASE ~agent.finishing
  <2>1. AskOrFail(e) /\ ~Finishing
    BY <1>3 DEF Drained, Finishing
  <2>2. QED
    BY <1>1, <1>2, <2>1, AskContents
<1>4. CASE agent.finishing /\ ~agent.added
  <2>1. EndTurn("waiting") /\ Finishing
    BY <1>4 DEF Drained, Finishing
  <2>2. QED
    BY <2>1, EndContents
<1>5. CASE agent.finishing /\ agent.added
  <2>1. SameTurn /\ agent'.phase = "loop" /\ agent'.enabled = e /\ heard' = heard
    BY <1>1, <1>5, DrainedFields
  <2>2. Settled' => e
    BY <2>1 DEF Settled, Finishing, Silence, Empty
  <2>3. ~Finishing' /\ BoundaryInputIsHeard'
    BY <2>1 DEF Finishing, BoundaryInputIsHeard
  <2>4. QED
    BY <1>2, <2>1, <2>2, <2>3, KeptContents DEF SameTurn
<1>6. QED
  BY <1>1, <1>3, <1>4, <1>5 DEF Types, AgentType

LEMMA NoInputContents ==
  ASSUME SealInv, Contents, NoInput
  PROVE  Contents'
<1>1. UNCHANGED <<steer, host, stdin, wire, admitted, appended, receipts>>
  BY DEF NoInput
<1>2. reply' = Silence /\ agent.phase = "drain" /\ Drained(reply.is = "empty")
  BY DEF NoInput
<1>3. (reply.is = "empty") \in BOOLEAN /\ (reply.is = "empty" => reply = Empty)
  BY Kinds DEF SealInv, Types, LinkType
<1>4. QED
  BY <1>1, <1>2, <1>3, DrainedContents

LEMMA GiveUpContents ==
  ASSUME SealInv, Contents, GiveUp
  PROVE  Contents'
<1>1. UNCHANGED <<steer, host, stdin, wire, admitted, appended, receipts>> /\ reply' = Silence
  BY DEF GiveUp
<1>2. CASE agent.phase = "begin"
  <2>1. Types /\ ~agent.enabled
    BY <1>2 DEF SealInv, Link
  <2>2. SameTurn /\ agent'.phase = "loop" /\ agent'.enabled = agent.enabled /\ heard' = heard
    BY <1>2, <2>1 DEF GiveUp, SameTurn, Types, AgentType
  <2>3. ~Settled' /\ ~Finishing' /\ BoundaryInputIsHeard'
    BY <1>1, <2>1, <2>2 DEF Settled, Finishing, Silence, Empty, BoundaryInputIsHeard
  <2>4. QED
    BY <1>1, <2>2, <2>3, KeptContents DEF SameTurn
<1>3. CASE agent.phase # "begin"
  <2>1. agent.phase = "drain" /\ Drained(FALSE)
    BY <1>3 DEF GiveUp
  <2>2. QED
    BY <1>1, <2>1, DrainedContents
<1>4. QED
  BY <1>2, <1>3

LEMMA DieContents ==
  ASSUME SealInv, Contents, Die
  PROVE  Contents'
<1>1. UNCHANGED <<steer, host, stdin, wire, history>> /\ reply' = Silence
  BY DEF Die
<1>2. SameTurn /\ agent'.phase = "dead"
  BY DEF Die, SameTurn, SealInv, Types, AgentType
<1>3. ~Settled' /\ ~Finishing' /\ BoundaryInputIsHeard'
  BY <1>1, <1>2 DEF Settled, Finishing, Silence, Empty, BoundaryInputIsHeard
<1>4. QED
  BY <1>1, <1>2, <1>3, KeptContents DEF SameTurn, history
-----------------------------------------------------------------------------
(* A process that takes the place of a dead one, and the start of a turn.  *)
LEMMA RestartContents ==
  ASSUME SealInv, Contents, Restart
  PROVE  Contents'
<1>1. Types /\ Control /\ Wire
  BY DEF SealInv
<1>2. /\ UNCHANGED <<task, link, history>> /\ stdin' = 0 /\ active' = 0 /\ steer'.turn = 0
      /\ agent'.phase = "idle" /\ agent'.now = 0 /\ agent'.key = steer.key + 1 /\ ~agent'.failed
  BY <1>1 DEF Restart, FreshAgent
<1>3. Fresh'
  BY <1>2 DEF Contents, Fresh, Untouched, history
<1>4. Marks' /\ ReceiptAfterAppend'
  BY <1>2 DEF Contents, Marks, ReceiptAfterAppend, history
<1>5. Acks'
  BY <1>2 DEF Acks
<1>6. Appends'
  <2>1. ~(agent'.phase = "model") /\ ~Finishing'
    BY <1>2 DEF Finishing
  <2>2. ASSUME NEW i \in 1 .. Len(wire) PROVE wire[i].key # agent'.key
    <3>1. wire[i].key \in Nat /\ agent.key \in Nat
      BY <1>1, OnWire, Numbers
    <3>2. Left(wire[i]) /\ agent.key = steer.key
      BY <1>1 DEF Wire, Control
    <3>3. QED
      BY <1>2, <3>1, <3>2 DEF Left
  <2>3. QED
    BY <1>2, <2>1, <2>2 DEF Appends, OfThisTurn, link
<1>7. QED
  BY <1>3, <1>4, <1>5, <1>6 DEF Contents

LEMMA StartTurnContents ==
  ASSUME SealInv, Contents, StartTurn
  PROVE  Contents'
<1>1. Types /\ Control /\ Wire /\ Link
  BY DEF SealInv
<1>2. /\ UNCHANGED <<steer, host, stderr, reply, history>> /\ stdin' = 0
      /\ agent'.phase = "begin" /\ agent'.now = task /\ agent'.ack = 0 /\ agent'.failed = agent.failed
      /\ agent'.key = agent.key /\ task # 0 /\ task \in Turns /\ agent.now < task
      /\ agent.phase = "idle" /\ stdin # 0
  BY <1>1, Numbers DEF StartTurn, FreshAgent, Types, AgentType, Control
<1>3. appended[task] = << >> /\ receipts[task] = << >>
  BY <1>2 DEF Contents, Fresh
<1>4. Len(appended[task]) = 0 /\ Len(receipts[task]) = 0
  BY <1>3, EmptySeq
<1>5. ~Settled' /\ ~Finishing' /\ BoundaryInputIsHeard' /\ reply' = Silence /\ reply'.is # "input"
  BY <1>1, <1>2 DEF Settled, Finishing, Silence, Empty, BoundaryInputIsHeard, Link
<1>6. \A i \in 1 .. Len(wire') : ~OfThisTurn(wire[i])'
  <2>1. /\ Len(wire') = Len(wire) + 1 /\ Len(wire) \in Nat
        /\ \A i \in 1 .. Len(wire) : wire'[i] = wire[i]
        /\ wire'[Len(wire) + 1] = [key |-> agent.key, turn |-> 0, ack |-> 0, finish |-> FALSE]
    BY <1>1, Numbers, Pulled DEF StartTurn
  <2>2. wire'[Len(wire) + 1].turn = 0
    BY <2>1
  <2>3. ASSUME NEW i \in 1 .. Len(wire)
        PROVE  ~(wire[i].key = agent.key /\ wire[i].turn = task)
    BY <1>1, <1>2, OnWire, Numbers DEF Wire, Left
  <2>4. QED
    BY <1>2, <2>1, <2>2, <2>3 DEF OfThisTurn
<1>7. Fresh'
  BY <1>2 DEF Contents, Fresh, Untouched, host, history
<1>8. Marks' /\ ReceiptAfterAppend'
  BY <1>2 DEF Contents, Marks, Count, ReceiptAfterAppend, history
<1>9. Acks'
  BY <1>2, <1>4, <1>5, <1>6 DEF Acks, Count, history
<1>10. Appends'
  <2>1. \A i \in 1 .. 0 : appended[task][i] = steer.inputs[i].id
    OBVIOUS
  <2>2. QED
    BY <1>2, <1>4, <1>5, <1>6, <2>1 DEF Contents, Appends, history
<1>11. QED
  BY <1>7, <1>8, <1>9, <1>10 DEF Contents

(* The host opens the turn that runs, or says again which one it is.       *)
LEMMA ServeBeginContents ==
  ASSUME SealInv, Contents, ServeBegin
  PROVE  Contents'
<1>1. Types /\ Control /\ Wire /\ Link
  BY DEF SealInv
<1>2. /\ wire # << >> /\ UNCHANGED <<agent, task, active, stdin, history>> /\ wire' = Tail(wire)
      /\ reply' = TurnIs(active) \/ reply' = reply
      /\ active = task /\ active # 0 /\ reply = Silence
  BY <1>1, TurnNow DEF ServeBegin, BeginServed, Answer, process, host, Control
<1>3. Finishing' = Finishing /\ reply'.is # "input" /\ reply' # Empty
  BY <1>2 DEF Finishing, TurnIs, Silence, Empty
<1>4. \A i \in 1 .. Len(wire') : i + 1 \in 1 .. Len(wire) /\ wire'[i] = wire[i + 1]
  BY <1>1, <1>2, HeadOfWire
<1>5. CASE steer.turn = active
  <2>1. steer' = steer
    BY <1>5 DEF ServeBegin
  <2>2. Fresh' /\ Marks' /\ ReceiptAfterAppend'
    BY <1>2, <2>1 DEF Contents, Fresh, Untouched, Marks, Count, ReceiptAfterAppend, history
  <2>3. Acks'
    BY <1>2, <1>3, <1>4, <2>1 DEF Contents, Acks, Settled, Count, OfThisTurn, history
  <2>4. Appends'
    BY <1>2, <1>3, <1>4, <2>1 DEF Contents, Appends, OfThisTurn, BoundaryInputIsHeard, history
  <2>5. QED
    BY <2>2, <2>3, <2>4 DEF Contents
<1>6. CASE steer.turn # active
  <2>1. steer'.turn = task /\ steer'.inputs = << >>
    BY <1>1, <1>2, <1>6 DEF ServeBegin, Types, SteerType
  <2>2. Untouched(task)
    BY <1>2, <1>6 DEF Contents, Fresh
  <2>3. Len(admitted[task]) = 0 /\ Len(receipts[task]) = 0 /\ Len(appended[task]) = 0 /\ Len(<< >>) = 0
    BY <2>2, EmptySeq DEF Untouched
  <2>4. agent.now = task => agent.ack = 0
    BY <1>1, <1>2, <1>6, Numbers DEF Control
  <2>5. Fresh'
    BY <1>2, <2>1 DEF Contents, Fresh, Untouched, history
  <2>6. Marks'
    <3>1. Count' = 0 /\ Len(steer'.inputs) = 0
      BY <1>2, <2>1, <2>3 DEF Count, history
    <3>2. 1 .. Len(steer'.inputs) = {}
      BY <3>1
    <3>3. QED
      BY <1>2, <2>1, <2>3, <3>1, <3>2 DEF Marks, history
  <2>7. Acks'
    <3>1. Count' = 0
      BY <1>2, <2>1, <2>3 DEF Count, history
    <3>2. QED
      BY <1>2, <1>3, <2>1, <2>4, <3>1 DEF Acks
  <2>8. Appends'
    <3>1. agent.now = task => \A i \in 1 .. agent.ack : appended[agent.now][i] = steer'.inputs[i].id
      BY <2>4
    <3>2. QED
      BY <1>2, <1>3, <1>4, <2>1, <2>3, <2>4, <3>1 DEF Contents, Appends, OfThisTurn, BoundaryInputIsHeard, history
  <2>9. ReceiptAfterAppend'
    BY <1>2 DEF Contents, ReceiptAfterAppend, history
  <2>10. QED
    BY <2>5, <2>6, <2>7, <2>8, <2>9 DEF Contents
<1>7. QED
  BY <1>5, <1>6

LEMMA ServeRefusalContents ==
  ASSUME SealInv, Contents, ServeRefusal
  PROVE  Contents'
<1>1. Types
  BY DEF SealInv
<1>2. /\ wire # << >> /\ UNCHANGED <<steer, agent, task, active, stdin, history>> /\ wire' = Tail(wire)
      /\ (reply' = Refusal \/ reply' = reply) /\ reply = Silence
  BY <1>1, TurnNow DEF ServeRefusal, Answer, process, host
<1>3. Finishing' = Finishing /\ reply'.is # "input" /\ reply' # Empty
  BY <1>2 DEF Finishing, Refusal, Silence, Empty
<1>4. \A i \in 1 .. Len(wire') : i + 1 \in 1 .. Len(wire) /\ wire'[i] = wire[i + 1]
  BY <1>1, <1>2, HeadOfWire
<1>5. Fresh' /\ Marks' /\ ReceiptAfterAppend'
  BY <1>2 DEF Contents, Fresh, Untouched, Marks, Count, ReceiptAfterAppend, history
<1>6. Acks'
  BY <1>2, <1>3, <1>4 DEF Contents, Acks, Settled, Count, OfThisTurn, history
<1>7. Appends'
  BY <1>2, <1>3, <1>4 DEF Contents, Appends, OfThisTurn, BoundaryInputIsHeard, history
<1>8. QED
  BY <1>5, <1>6, <1>7 DEF Contents
-----------------------------------------------------------------------------
(* An input is admitted behind the others of its turn.                     *)
LEMMA AdmitContents ==
  ASSUME SealInv, Contents, NEW t \in Turns, NEW id \in Ids, Admit(t, id)
  PROVE  Contents'
<1> DEFINE n == Len(steer.inputs)
           e == [id |-> id, state |-> "pending"]
<1>1. Types /\ Control
  BY DEF SealInv
<1>2. /\ UNCHANGED <<host, process, link, appended, heard, receipts, sealed>>
      /\ steer.turn = t /\ active = t /\ t = task /\ t # 0
      /\ steer'.turn = t /\ steer'.inputs = Append(steer.inputs, e)
      /\ admitted' = [admitted EXCEPT ![t] = Append(@, id)]
  BY <1>1, Numbers DEF Admit, SteerActive, Control, Types, SteerType
<1>3. /\ n \in Nat /\ Len(steer'.inputs) = n + 1 /\ steer'.inputs[n + 1] = e
      /\ \A i \in 1 .. n : steer'.inputs[i] = steer.inputs[i]
  <2>1. steer.inputs \in Seq(InputSet) /\ n \in Nat /\ e \in InputSet
    BY <1>1, Numbers, Histories DEF InputSet
  <2> HIDE DEF e
  <2>2. /\ Len(Append(steer.inputs, e)) = n + 1 /\ Append(steer.inputs, e)[n + 1] = e
        /\ \A i \in 1 .. n : Append(steer.inputs, e)[i] = steer.inputs[i]
    BY <2>1, AppendProperties
  <2>3. QED
    BY <1>2, <2>1, <2>2
<1>4. /\ Len(admitted[t]) \in Nat /\ Len(admitted'[t]) = Len(admitted[t]) + 1
      /\ admitted'[t][Len(admitted[t]) + 1] = id
      /\ \A i \in 1 .. Len(admitted[t]) : admitted'[t][i] = admitted[t][i]
  <2>1. admitted[t] \in Seq(Ids) /\ Len(admitted[t]) \in Nat /\ admitted'[t] = Append(admitted[t], id)
    BY <1>1, <1>2, Histories DEF Types, HistoryType
  <2>2. QED
    BY <2>1, AppendProperties
<1>5. steer'.inputs[n + 1].id = id /\ steer'.inputs[n + 1].state = "pending"
  BY <1>3
<1>6. Count' = Count /\ Count \in Nat
  BY <1>1, <1>2, Histories DEF Count
<1> HIDE DEF e
<1>7. Fresh'
  <2>1. \A u \in Turns : u > task => admitted'[u] = admitted[u]
    BY <1>1, <1>2, Numbers DEF Types, HistoryType
  <2>2. QED
    BY <1>2, <2>1 DEF Contents, Fresh, Untouched, host, process
<1>8. Marks'
  <2>1. /\ Len(admitted[t]) = n /\ Count <= n
        /\ \A i \in 1 .. n :
             /\ admitted[t][i] = steer.inputs[i].id
             /\ i <= Count => steer.inputs[i].state = "applied" /\ receipts[t][i] = steer.inputs[i].id
             /\ i = Count + 1 => steer.inputs[i].state # "applied"
             /\ i > Count + 1 => steer.inputs[i].state = "pending"
    BY <1>2 DEF Contents, Marks
  <2>2. \A i \in 1 .. n + 1 :
             /\ admitted'[t][i] = steer'.inputs[i].id
             /\ i <= Count => steer'.inputs[i].state = "applied" /\ receipts[t][i] = steer'.inputs[i].id
             /\ i = Count + 1 => steer'.inputs[i].state # "applied"
             /\ i > Count + 1 => steer'.inputs[i].state = "pending"
    <3>1. TAKE i \in 1 .. n + 1
    <3>2. i \in Nat
      OBVIOUS
    <3>3. CASE i = n + 1
      BY <1>3, <1>4, <1>5, <1>6, <2>1, <3>3
    <3>4. CASE i # n + 1
      <4>1. i \in 1 .. n
        BY <1>3, <3>2, <3>4
      <4>2. QED
        BY <1>3, <1>4, <2>1, <4>1
    <3>5. QED
      BY <3>3, <3>4
  <2>3. QED
    BY <1>2, <1>3, <1>4, <1>6, <2>1, <2>2 DEF Marks
<1>9. Acks'
  <2>1. UNCHANGED <<agent, wire, reply>>
    BY <1>2 DEF process, link
  <2>2. ASSUME NEW i \in Nat, i <= n, i # 0 PROVE i <= n + 1 /\ steer'.inputs[i] = steer.inputs[i]
    BY <1>3, <2>2
  <2>3. agent.ack \in Nat /\ agent.ack <= n + 1 => Len(steer'.inputs) >= agent.ack
    BY <1>3
  <2>4. ASSUME agent.now = t PROVE
          /\ agent.ack = Count
             \/ /\ agent.ack = Count + 1 /\ agent.ack <= n + 1
                /\ steer'.inputs[agent.ack].state = "delivered"
          /\ Settled => agent.ack = Count
          /\ reply.is = "input" =>
               /\ agent.ack = Count /\ reply.n = Count + 1 /\ reply.n <= n + 1
               /\ reply.id = steer'.inputs[reply.n].id /\ steer'.inputs[reply.n].state = "delivered"
          /\ \A i \in 1 .. Len(wire) : OfThisTurn(wire[i]) /\ wire[i].finish => agent.ack = Count
    <3>1. Count + 1 \in Nat /\ Count + 1 # 0
      BY <1>6
    <3>2. QED
      BY <1>2, <2>2, <2>4, <3>1 DEF Contents, Acks
  <2>5. Settled' = Settled /\ \A i \in 1 .. Len(wire) : OfThisTurn(wire[i])' = OfThisTurn(wire[i])
    BY <2>1 DEF Settled, Finishing, OfThisTurn
  <2>6. QED
    BY <1>2, <1>3, <1>6, <2>1, <2>4, <2>5 DEF Acks
<1>10. Appends'
  <2>1. UNCHANGED <<agent, wire, reply>>
    BY <1>2 DEF process, link
  <2>2. agent.now = t => agent.ack <= n
    <3>1. agent.ack \in Nat /\ Count <= n
      BY <1>1, <1>2, Numbers DEF Contents, Marks
    <3>2. QED
      BY <1>2, <1>3, <1>6, <3>1 DEF Contents, Acks
  <2>3. agent.now = t => \A i \in 1 .. agent.ack : appended[agent.now][i] = steer'.inputs[i].id
    BY <1>1, <1>2, <1>3, <2>2, Numbers DEF Contents, Appends
  <2>4. QED
    BY <1>2, <2>1, <2>3 DEF Contents, Appends, OfThisTurn, Finishing, BoundaryInputIsHeard
<1>11. ReceiptAfterAppend'
  BY <1>2 DEF Contents, ReceiptAfterAppend
<1>12. QED
  BY <1>7, <1>8, <1>9, <1>10, <1>11 DEF Contents

(* What the receipts of a served pull are to the transcript.               *)
LEMMA ServedReceipts ==
  ASSUME SealInv, Contents, wire # << >>, TurnServed(Head(wire)), Receipt(Head(wire).ack),
         UNCHANGED <<appended, admitted, task>>
  PROVE  ReceiptAfterAppend' /\ receipts'[task] \in Seq(Ids)
<1>1. /\ agent.now = task /\ steer.turn = task /\ task # 0 /\ task \in Turns
      /\ Types /\ Head(wire) \in PullSet
  BY CurrentPull, HeadOfWire DEF SealInv
<1>2. receipts' \in [Turns -> Seq(Ids)] /\ receipts \in [Turns -> Seq(Ids)] /\ agent.ack \in Nat
  BY <1>1, Receipted, Numbers DEF Types, HistoryType
<1>3. /\ agent.ack <= Len(steer.inputs) /\ Len(receipts'[task]) = agent.ack /\ Len(steer.inputs) \in Nat
      /\ \A i \in 1 .. Len(steer.inputs) : i <= agent.ack => receipts'[task][i] = steer.inputs[i].id
      /\ \A t \in Turns \ {task} : receipts'[t] = receipts[t]
  <2>1. /\ agent.ack <= Len(steer.inputs) /\ Len(receipts'[task]) = agent.ack
        /\ \A i \in 1 .. Len(steer.inputs) : i <= agent.ack => receipts'[task][i] = steer.inputs[i].id
        /\ receipts' = receipts \/ receipts' = [receipts EXCEPT ![task] = Append(@, steer.inputs[agent.ack].id)]
    BY AckedMarks DEF Contents
  <2>2. QED
    BY <1>1, <1>2, <2>1, Histories
<1>4. /\ Len(appended[task]) = agent.ack
      /\ \A i \in 1 .. agent.ack : appended[task][i] = steer.inputs[i].id
  BY <1>1 DEF Contents, Appends
<1>5. ASSUME NEW t \in Turns
      PROVE  /\ Len(receipts'[t]) <= Len(appended[t])
             /\ \A i \in 1 .. Len(receipts'[t]) : receipts'[t][i] = appended[t][i]
  <2>1. CASE t = task
    <3>1. Len(receipts'[t]) = agent.ack /\ Len(appended[t]) = agent.ack
      BY <1>3, <1>4, <2>1
    <3>2. ASSUME NEW i \in 1 .. agent.ack PROVE receipts'[t][i] = appended[t][i]
      <4>1. i \in 1 .. Len(steer.inputs) /\ i <= agent.ack
        BY <1>2, <1>3
      <4>2. QED
        BY <1>3, <1>4, <2>1, <4>1
    <3>3. QED
      BY <1>2, <3>1, <3>2
  <2>2. CASE t # task
    BY <1>3, <2>2 DEF Contents, ReceiptAfterAppend
  <2>3. QED
    BY <2>1, <2>2
<1>6. QED
  BY <1>1, <1>2, <1>5 DEF ReceiptAfterAppend
(* A served pull brings the inputs of the turn to the acknowledgement of   *)
(* the Agent; the next one may be handed out.                              *)
LEMMA ServedContents ==
  ASSUME SealInv, Contents, wire # << >>, TurnServed(Head(wire)), Receipt(Head(wire).ack),
         UNCHANGED <<host, process, admitted, appended, heard>>,
         steer'.turn = steer.turn, Len(steer'.inputs) = Len(steer.inputs),
         \A i \in 1 .. Len(steer.inputs) :
           /\ steer'.inputs[i].id = steer.inputs[i].id
           /\ i <= agent.ack => steer'.inputs[i].state = "applied"
           /\ i = agent.ack + 1 => steer'.inputs[i].state # "applied"
           /\ i > agent.ack + 1 => steer'.inputs[i].state = "pending",
         wire' = Tail(wire),
         reply'.is = "input" =>
           /\ reply'.n = agent.ack + 1 /\ reply'.n <= Len(steer.inputs)
           /\ reply'.id = steer.inputs[reply'.n].id /\ steer'.inputs[reply'.n].state = "delivered"
  PROVE  Contents'
<1>1. /\ OfThisTurn(Head(wire)) /\ agent.now = task /\ steer.turn = task /\ task # 0 /\ task \in Turns
      /\ Types /\ stdin = 0
  BY CurrentPull DEF SealInv
<1>2. /\ agent.ack \in Nat /\ Len(steer.inputs) \in Nat
      /\ receipts \in [Turns -> Seq(Ids)]
  BY <1>1, Numbers, Histories DEF Types, HistoryType
<1>3. UNCHANGED <<agent, task, active, stdin>>
  BY DEF host, process
<1>4. /\ agent.ack <= Len(steer.inputs) /\ Len(receipts'[task]) = agent.ack
      /\ \A i \in 1 .. Len(steer.inputs) : i <= agent.ack => receipts'[task][i] = steer.inputs[i].id
      /\ \A t \in Turns : t # task => receipts'[t] = receipts[t]
  <2>1. /\ agent.ack <= Len(steer.inputs) /\ Len(receipts'[task]) = agent.ack
        /\ \A i \in 1 .. Len(steer.inputs) : i <= agent.ack => receipts'[task][i] = steer.inputs[i].id
        /\ receipts' = receipts \/ receipts' = [receipts EXCEPT ![task] = Append(@, steer.inputs[agent.ack].id)]
    BY AckedMarks DEF Contents
  <2>2. QED
    BY <1>1, <1>2, <2>1
<1>5. Count' = agent.ack
  BY <1>1, <1>3, <1>4 DEF Count
<1>6. Fresh'
  <2>1. ASSUME NEW t \in Turns, t > task PROVE Untouched(t)'
    <3>1. t # task
      BY <1>1, <2>1, Numbers
    <3>2. QED
      BY <1>4, <2>1, <3>1 DEF Contents, Fresh, Untouched
  <2>2. QED
    BY <1>1, <1>3, <2>1 DEF Fresh
<1>7. Marks'
  <2>1. /\ Len(admitted[task]) = Len(steer.inputs)
        /\ \A i \in 1 .. Len(steer.inputs) : admitted[task][i] = steer.inputs[i].id
    BY <1>1 DEF Contents, Marks
  <2>2. QED
    BY <1>1, <1>2, <1>3, <1>4, <1>5, <2>1 DEF Marks
<1>8. Acks'
  <2>1. ASSUME reply'.is = "input"
        PROVE  /\ reply'.n = agent.ack + 1 /\ reply'.n <= Len(steer'.inputs)
               /\ reply'.id = steer'.inputs[reply'.n].id
               /\ steer'.inputs[reply'.n].state = "delivered"
    <3>1. reply'.n = agent.ack + 1 /\ reply'.n \in 1 .. Len(steer.inputs)
      BY <1>2, <2>1
    <3>2. steer'.inputs[reply'.n].id = steer.inputs[reply'.n].id
      BY <3>1
    <3>3. QED
      BY <2>1, <3>1, <3>2
  <2>2. QED
    BY <1>3, <1>5, <2>1 DEF Acks
<1>9. Appends'
  <2>1. \A i \in 1 .. Len(wire') : i + 1 \in 1 .. Len(wire) /\ wire'[i] = wire[i + 1]
    BY <1>1, HeadOfWire
  <2>2. \A i \in 1 .. agent.ack : appended[task][i] = steer'.inputs[i].id
    <3>1. \A i \in 1 .. agent.ack : i \in 1 .. Len(steer.inputs)
      BY <1>2, <1>4
    <3>2. QED
      BY <1>1, <3>1 DEF Contents, Appends
  <2>3. Len(appended[task]) = agent.ack
    BY <1>1 DEF Contents, Appends
  <2>4. QED
    BY <1>1, <1>3, <2>1, <2>2, <2>3 DEF Contents, Appends, OfThisTurn, Finishing, BoundaryInputIsHeard
<1>10. ReceiptAfterAppend'
  BY <1>3, ServedReceipts
<1>11. QED
  BY <1>6, <1>7, <1>8, <1>9, <1>10 DEF Contents

LEMMA ServeEmptyContents ==
  ASSUME SealInv, Contents, ServeEmpty
  PROVE  Contents' /\ agent.ack = Len(steer.inputs)
<1> DEFINE s == Acked(Head(wire).ack)
<1>1. /\ wire # << >> /\ TurnServed(Head(wire)) /\ Receipt(Head(wire).ack)
      /\ UNCHANGED <<host, process, admitted, appended, heard>> /\ Answer(Empty)
      /\ Unapplied(s) = {}
  BY DEF ServeEmpty
<1>2. steer'.turn = steer.turn /\ steer'.inputs = s
  BY DEF ServeEmpty, SealInv, Types, SteerType
<1>3. /\ agent.ack <= Len(steer.inputs) /\ Len(s) = Len(steer.inputs)
      /\ \A i \in 1 .. Len(steer.inputs) :
           /\ s[i].id = steer.inputs[i].id
           /\ i <= agent.ack => s[i].state = "applied"
           /\ i = agent.ack + 1 => s[i].state \in {"pending", "delivered"}
           /\ i > agent.ack + 1 => s[i].state = "pending"
  BY <1>1, AckedMarks DEF Contents
<1> HIDE DEF s
<1>4. \A i \in 1 .. Len(steer.inputs) : i = agent.ack + 1 => s[i].state # "applied"
  BY <1>3
<1>5. wire' = Tail(wire) /\ reply'.is # "input"
  BY <1>1, TurnNow DEF Answer, Empty, Silence
<1>6. Contents'
  BY <1>1, <1>2, <1>3, <1>4, <1>5, ServedContents
<1>7. agent.ack \in Nat /\ Len(steer.inputs) \in Nat
  BY Numbers, LenProperties DEF SealInv
<1>8. agent.ack = Len(steer.inputs)
  <2>1. SUFFICES ASSUME agent.ack + 1 \in 1 .. Len(steer.inputs) PROVE FALSE
    BY <1>3, <1>7
  <2>2. s[agent.ack + 1].state # "applied"
    BY <1>4, <2>1
  <2>3. agent.ack + 1 \in Unapplied(s)
    BY <1>3, <2>1, <2>2 DEF Unapplied
  <2>4. QED
    BY <1>1, <2>3
<1>9. QED
  BY <1>6, <1>8

LEMMA ServeInputContents ==
  ASSUME SealInv, Contents, ServeInput
  PROVE  Contents'
<1> DEFINE s == Acked(Head(wire).ack)
           f == First(Unapplied(s))
           n == agent.ack + 1
<1>1. /\ wire # << >> /\ TurnServed(Head(wire)) /\ Receipt(Head(wire).ack)
      /\ UNCHANGED <<host, process, admitted, appended, heard>>
      /\ Unapplied(s) # {}
      /\ \/ s[f].state = "delivered" /\ steer' = [steer EXCEPT !.inputs = s] /\ Answer(Refusal)
         \/ /\ s[f].state # "delivered"
            /\ steer' = [steer EXCEPT !.inputs = [s EXCEPT ![f].state = "delivered"]]
            /\ Answer(Input(f, s[f].id))
  BY DEF ServeInput
<1>2. /\ agent.ack <= Len(steer.inputs) /\ Len(s) = Len(steer.inputs)
      /\ \A i \in 1 .. Len(steer.inputs) :
           /\ s[i].id = steer.inputs[i].id
           /\ i <= agent.ack => s[i].state = "applied"
           /\ i = n => s[i].state \in {"pending", "delivered"}
           /\ i > n => s[i].state = "pending"
  BY <1>1, AckedMarks DEF Contents
<1>3. Head(wire) \in PullSet /\ Types /\ reply = Silence
  BY <1>1, HeadOfWire, TurnNow DEF SealInv
<1>4. s \in Seq(InputSet) /\ agent.ack \in Nat /\ Len(s) \in Nat
  BY <1>1, <1>3, AckedInputs, Numbers, LenProperties
<1>5. /\ f \in 1 .. Len(s) /\ s[f].state # "applied"
      /\ \A j \in 1 .. Len(s) : j < f => s[j].state = "applied"
  BY <1>1, <1>4, FirstUnapplied
<1> HIDE DEF s, f
<1>6. f = n /\ n \in 1 .. Len(steer.inputs)
  <2>1. f \in Nat /\ ~(f <= agent.ack)
    BY <1>2, <1>5
  <2>2. ~(n < f)
    <3>1. SUFFICES ASSUME n < f PROVE FALSE
      OBVIOUS
    <3>2. n \in 1 .. Len(s)
      BY <1>4, <1>5, <3>1
    <3>3. QED
      BY <1>2, <1>5, <3>1, <3>2
  <2>3. QED
    BY <1>2, <1>4, <1>5, <2>1, <2>2
<1>7. PICK q \in Seq(InputSet) :
        /\ steer' = [steer EXCEPT !.inputs = q] /\ Len(q) = Len(s)
        /\ \A i \in 1 .. Len(s) : /\ q[i].id = s[i].id
                                  /\ q[i].state = IF i = n THEN "delivered" ELSE s[i].state
  <2>1. CASE s[f].state = "delivered"
    BY <1>1, <1>4, <1>6, <2>1
  <2>2. CASE s[f].state # "delivered"
    <3>1. steer' = [steer EXCEPT !.inputs = [s EXCEPT ![f].state = "delivered"]]
      BY <1>1, <2>2
    <3>2. "delivered" \in {"pending", "delivered", "applied"}
      OBVIOUS
    <3>3. /\ [s EXCEPT ![f].state = "delivered"] \in Seq(InputSet)
          /\ Len([s EXCEPT ![f].state = "delivered"]) = Len(s)
          /\ \A j \in 1 .. Len(s) :
               /\ [s EXCEPT ![f].state = "delivered"][j].id = s[j].id
               /\ [s EXCEPT ![f].state = "delivered"][j].state = IF j = f THEN "delivered" ELSE s[j].state
      BY <1>4, <1>5, <3>2, Marked
    <3>4. QED
      BY <1>6, <3>1, <3>3
  <2>3. QED
    BY <2>1, <2>2
<1>8. steer'.turn = steer.turn /\ steer'.inputs = q
  BY <1>3, <1>7 DEF Types, SteerType
<1>9. \A i \in 1 .. Len(steer.inputs) :
           /\ steer'.inputs[i].id = steer.inputs[i].id
           /\ i <= agent.ack => steer'.inputs[i].state = "applied"
           /\ i = agent.ack + 1 => steer'.inputs[i].state # "applied"
           /\ i > agent.ack + 1 => steer'.inputs[i].state = "pending"
  BY <1>2, <1>4, <1>7, <1>8
<1>10. wire' = Tail(wire) /\ (reply' = Refusal \/ reply' = Input(f, s[f].id) \/ reply' = Silence)
  BY <1>1, <1>3 DEF Answer
<1>11. reply'.is = "input" =>
           /\ reply'.n = agent.ack + 1 /\ reply'.n <= Len(steer.inputs)
           /\ reply'.id = steer.inputs[reply'.n].id /\ steer'.inputs[reply'.n].state = "delivered"
  <2>1. SUFFICES ASSUME reply'.is = "input"
                 PROVE  /\ reply'.n = agent.ack + 1 /\ reply'.n <= Len(steer.inputs)
                        /\ reply'.id = steer.inputs[reply'.n].id
                        /\ steer'.inputs[reply'.n].state = "delivered"
    OBVIOUS
  <2>2. reply' = Input(f, s[f].id)
    BY <1>10, <2>1 DEF Refusal, Silence
  <2>3. reply'.n = n /\ reply'.id = s[n].id
    BY <1>6, <2>2 DEF Input
  <2>4. QED
    BY <1>2, <1>6, <1>7, <1>8, <2>3
<1>12. QED
  BY <1>1, <1>2, <1>7, <1>8, <1>9, <1>10, <1>11, ServedContents

(* An input reaches the transcript.                                        *)
LEMMA AppendInputContents ==
  ASSUME TranscriptFills = FALSE, SealInv, Contents, AppendInput
  PROVE  /\ Contents' /\ agent.now \in Turns /\ steer.turn = agent.now /\ steer.turn # 0
         /\ Len(appended[agent.now]) = Count /\ Count < Len(admitted[agent.now])
         /\ appended' = [appended EXCEPT ![agent.now] = Append(@, admitted[agent.now][Count + 1])]
<1>1. Types /\ Link /\ reply \in Replies
  BY DEF SealInv, Types, LinkType
<1>2. /\ agent.phase = "drain" /\ reply.is = "input"
      /\ UNCHANGED <<steer, host, stdin, admitted, heard, receipts>> /\ reply' = Silence
      /\ Pull(agent.turn, reply.n, FALSE)
  BY DEF AppendInput, HasInput
<1>3. reply # Silence /\ agent.enabled /\ wire = << >> /\ reply.n \in Nat
  BY <1>1, <1>2, Kinds DEF Link, Silence
<1>4. agent.now \in Turns /\ steer.turn = agent.now /\ agent.now = task /\ steer.turn # 0
  BY <1>2, <1>3, TurnNow DEF InTurn
<1>5. ~agent.failed
  BY DEF Contents, Appends
<1>6. /\ agent' = [agent EXCEPT !.ack = reply.n, !.added = TRUE, !.failed = FALSE]
      /\ appended' = [appended EXCEPT ![agent.now] = Append(@, reply.id)]
  <2>1. PICK fails \in {agent.failed, agent.failed \/ TranscriptFills} :
           /\ agent' = [agent EXCEPT !.ack = reply.n, !.added = TRUE, !.failed = fails]
           /\ appended' = IF fails THEN appended
                          ELSE [appended EXCEPT ![agent.now] = Append(@, reply.id)]
    BY DEF AppendInput
  <2>2. agent.failed = FALSE /\ fails = FALSE
    <3>1. agent.failed \in BOOLEAN
      BY <1>1 DEF Types, AgentType
    <3>2. QED
      BY <1>5, <3>1
  <2>3. QED
    BY <2>1, <2>2
<1>7. /\ agent'.phase = "drain" /\ agent'.now = agent.now /\ agent'.ack = reply.n /\ agent'.added
      /\ ~agent'.failed
  BY <1>1, <1>2, <1>6 DEF Types, AgentType
<1>8. /\ agent.ack = Count /\ reply.n = Count + 1 /\ reply.n <= Len(steer.inputs)
      /\ reply.id = steer.inputs[reply.n].id /\ steer.inputs[reply.n].state = "delivered"
  BY <1>2, <1>4 DEF Contents, Acks
<1>9. Count \in Nat /\ Count' = Count /\ Len(steer.inputs) \in Nat
  BY <1>1, <1>2, <1>4, Histories DEF Count
<1>10. /\ Len(admitted[agent.now]) = Len(steer.inputs) /\ admitted[agent.now][Count + 1] = reply.id
  BY <1>4, <1>8, <1>9 DEF Contents, Marks
<1>11. /\ Len(appended[agent.now]) = Count
       /\ \A i \in 1 .. Count : appended[agent.now][i] = steer.inputs[i].id
  BY <1>4, <1>8 DEF Contents, Appends
<1>12. /\ appended \in [Turns -> Seq(Ids)] /\ appended[agent.now] \in Seq(Ids) /\ reply.id \in Ids
  BY <1>1, <1>2, <1>4, Kinds DEF Types, HistoryType
<1>13. /\ Len(appended'[agent.now]) = Count + 1 /\ appended'[agent.now][Count + 1] = reply.id
       /\ \A i \in 1 .. Count : appended'[agent.now][i] = appended[agent.now][i]
  <2>1. appended'[agent.now] = Append(appended[agent.now], reply.id)
    BY <1>4, <1>6, <1>12
  <2>2. QED
    BY <1>11, <1>12, <2>1, AppendProperties
<1>14. \A t \in Turns : t # agent.now => appended'[t] = appended[t]
  BY <1>6, <1>12
<1>15. ~Settled' /\ ~Finishing' /\ BoundaryInputIsHeard'
  BY <1>2, <1>7 DEF Settled, Finishing, Silence, Empty, BoundaryInputIsHeard
<1>16. \A i \in 1 .. Len(wire') : ~wire'[i].finish
  <2>1. wire'[1] = [key |-> agent.key, turn |-> agent.turn, ack |-> reply.n, finish |-> FALSE]
        /\ 1 .. Len(wire') = {1}
    BY <1>1, <1>2, <1>3, OnlyPull
  <2>2. wire'[1].finish = FALSE
    BY <2>1
  <2>3. QED
    BY <2>1, <2>2
<1>17. Fresh'
  <2>1. \A t \in Turns : t > task => Untouched(t)'
    BY <1>1, <1>2, <1>4, <1>14, Numbers DEF Contents, Fresh, Untouched
  <2>2. stdin = 0
    BY <1>2 DEF SealInv, Control, InTurn
  <2>3. QED
    BY <1>2, <1>4, <2>1, <2>2 DEF Fresh, host
<1>18. Marks'
  BY <1>2, <1>9 DEF Contents, Marks
<1>19. Acks'
  BY <1>2, <1>7, <1>8, <1>9, <1>15, <1>16 DEF Acks, Silence
<1>20. Appends'
  <2>1. \A i \in 1 .. Count + 1 : appended'[agent.now][i] = steer.inputs[i].id
    <3>1. TAKE i \in 1 .. Count + 1
    <3>2. CASE i = Count + 1
      BY <1>8, <1>13, <3>2
    <3>3. CASE i # Count + 1
      BY <1>9, <1>11, <1>13, <3>3
    <3>4. QED
      BY <3>2, <3>3
  <2>2. QED
    BY <1>2, <1>7, <1>8, <1>13, <1>15, <1>16, <2>1 DEF Appends
<1>21. ReceiptAfterAppend'
  <2>1. ASSUME NEW t \in Turns
        PROVE  /\ Len(receipts[t]) <= Len(appended'[t])
               /\ \A i \in 1 .. Len(receipts[t]) : receipts[t][i] = appended'[t][i]
    <3>1. CASE t = agent.now
      <4>1. Len(receipts[t]) = Count
        BY <1>4, <3>1 DEF Count
      <4>2. \A i \in 1 .. Count : receipts[t][i] = appended[t][i]
        BY <4>1 DEF Contents, ReceiptAfterAppend
      <4>3. QED
        BY <1>9, <1>13, <3>1, <4>1, <4>2
    <3>2. CASE t # agent.now
      BY <1>14, <3>2 DEF Contents, ReceiptAfterAppend
    <3>3. QED
      BY <3>1, <3>2
  <2>2. QED
    BY <1>2, <2>1 DEF ReceiptAfterAppend
<1>22. QED
  BY <1>4, <1>6, <1>8, <1>9, <1>10, <1>11, <1>17, <1>18, <1>19, <1>20, <1>21 DEF Contents
-----------------------------------------------------------------------------
(* The inductive invariant of the contents, in a transcript with room.     *)
StInv == SealInv /\ Contents

LEMMA StInvInit == Init => StInv
<1> SUFFICES ASSUME Init PROVE StInv
  OBVIOUS
<1>1. SealInv
  BY SealInvInit
<1>2. /\ steer.turn = 0 /\ agent.phase = "idle" /\ agent.now = 0 /\ ~agent.failed /\ stdin = 0
      /\ active = 0 /\ task = 0 /\ Len(wire) = 0
      /\ \A t \in Turns : admitted[t] = << >> /\ appended[t] = << >> /\ receipts[t] = << >>
  BY DEF Init, FreshAgent
<1>3. Fresh /\ Marks /\ Acks
  BY <1>2 DEF Fresh, Untouched, Marks, Acks
<1>4. Appends
  BY <1>2 DEF Appends, Finishing
<1>5. ReceiptAfterAppend
  BY <1>2 DEF ReceiptAfterAppend
<1>6. QED
  BY <1>1, <1>3, <1>4, <1>5 DEF StInv, Contents

LEMMA ContentsKept ==
  ASSUME Contents, UNCHANGED vars
  PROVE  Contents'
<1>1. UNCHANGED <<steer, agent, wire, reply, task, active, stdin, admitted, appended, heard, receipts>>
  BY DEF vars, host, process, link, history
<1>2. Fresh' /\ Marks' /\ ReceiptAfterAppend'
  BY <1>1 DEF Contents, Fresh, Untouched, Marks, Count, ReceiptAfterAppend
<1>3. Acks'
  BY <1>1 DEF Contents, Acks, Settled, Finishing, Count, OfThisTurn
<1>4. Appends'
  BY <1>1 DEF Contents, Appends, Finishing, OfThisTurn, BoundaryInputIsHeard
<1>5. QED
  BY <1>2, <1>3, <1>4 DEF Contents

LEMMA StInvNext ==
  ASSUME TranscriptFills = FALSE
  PROVE  StInv /\ [Next]_vars => StInv'
<1>1. ASSUME StInv, Next PROVE Contents'
  BY <1>1, HostContents, BegunContents, LoopContents, ModelContents, NoInputContents, GiveUpContents,
     DieContents, RestartContents, StartTurnContents, ServeBeginContents, ServeRefusalContents,
     AdmitContents, ServeInputContents, ServeEmptyContents, AppendInputContents
     DEF StInv, Next, Serve, AgentStep
<1>2. ASSUME StInv, UNCHANGED vars PROVE Contents'
  BY <1>2, ContentsKept DEF StInv
<1>3. QED
  BY <1>1, <1>2, SealInvNext DEF StInv

(* "ACK only after the owner appended the actual user input": the receipts *)
(* of a turn are a beginning of what its transcript was given, whatever    *)
(* was lost, repeated or given up on the way.                              *)
THEOREM ReceiptAfterAppendAlways ==
  ASSUME TranscriptFills = FALSE
  PROVE  Spec => []ReceiptAfterAppend
<1>1. StInv /\ [Next]_vars => StInv'
  BY StInvNext
<1>2. StInv => ReceiptAfterAppend
  BY DEF StInv, Contents
<1>3. QED
  BY <1>1, <1>2, StInvInit, PTL DEF Spec

(* An Agent that was given no turn has asked for no seal.                  *)
NoTurnNoSeal == agent.now = 0 => ~agent.finishing

LEMMA NoTurnNoSealNext ==
  ASSUME Types, Control, NoTurnNoSeal, [Next]_vars
  PROVE  NoTurnNoSeal'
<1>1. InTurn => agent.now # 0
  BY DEF Control
<1>2. CASE InTurn /\ ~Restart /\ ~StartTurn
  <2>1. agent'.now = agent.now
    BY <1>2, EndFields, AskFields, DrainFields, DrainedFields DEF Next, Serve, AgentStep, Admit, ServeBegin,
       ServeInput, ServeEmpty, ServeRefusal, Send, Interrupt, TurnError, Waiting, RequestStop, Begun, Loop,
       Model, AppendInput, NoInput, GiveUp, Die, process, vars, SameTurn, Types, AgentType
  <2>2. agent'.now # 0
    BY <1>1, <1>2, <2>1
  <2>3. QED
    BY <2>2 DEF NoTurnNoSeal
<1>3. CASE ~InTurn /\ ~Restart /\ ~StartTurn
  <2>1. agent'.now = agent.now /\ agent'.finishing = agent.finishing
    BY <1>3 DEF InTurn, Next, Serve, AgentStep, Admit, ServeBegin, ServeInput, ServeEmpty, ServeRefusal,
       Send, Interrupt, TurnError, Waiting, RequestStop, Begun, Loop, Model, AppendInput, HasInput, NoInput,
       GiveUp, Die, process, vars, Types, AgentType
  <2>2. QED
    BY <2>1 DEF NoTurnNoSeal
<1>4. CASE Restart \/ StartTurn
  <2>1. Restart => ~agent'.finishing
    BY DEF Restart, FreshAgent
  <2>2. StartTurn => ~agent'.finishing
    BY DEF StartTurn, FreshAgent
  <2>3. QED
    BY <1>4, <2>1, <2>2 DEF NoTurnNoSeal
<1>5. QED
  BY <1>2, <1>3, <1>4

(* A turn that ends with an answer has given the model all that it has     *)
(* appended, also what came in while the answer was being given.           *)
THEOREM BoundaryInputIsHeardAlways ==
  ASSUME TranscriptFills = FALSE
  PROVE  Spec => []BoundaryInputIsHeard
<1>1. StInv /\ [Next]_vars => StInv'
  BY StInvNext
<1>2. StInv /\ NoTurnNoSeal /\ [Next]_vars => NoTurnNoSeal'
  BY NoTurnNoSealNext DEF StInv, SealInv
<1>3. StInv /\ NoTurnNoSeal => BoundaryInputIsHeard
  BY DEF StInv, Contents, Appends, NoTurnNoSeal, BoundaryInputIsHeard
<1>4. Init => NoTurnNoSeal
  BY DEF Init, FreshAgent, NoTurnNoSeal
<1>5. QED
  BY <1>1, <1>2, <1>3, <1>4, StInvInit, PTL DEF Spec
-----------------------------------------------------------------------------
(* What the user is promised, step by step.                                *)
LEMMA AdmitsOne ==
  ASSUME StInv, NEW t \in Turns, NEW id \in Ids, Admit(t, id)
  PROVE  Contract!AdmitOne(t, id)
<1>1. /\ t \notin sealed
  BY DEF Admit, StInv, SealInv, Sealing
<1>2. ~Contract!Contains(admitted[t], id)
  <2>1. steer.turn = t /\ steer.turn # 0 /\ ~Known(id)
    BY DEF Admit, SteerActive
  <2>2. /\ Len(admitted[t]) = Len(steer.inputs)
        /\ \A i \in 1 .. Len(steer.inputs) : admitted[t][i] = steer.inputs[i].id
    BY <2>1 DEF StInv, Contents, Marks
  <2>3. QED
    BY <2>1, <2>2 DEF Known, Contract!Contains
<1>3. /\ admitted' = [admitted EXCEPT ![t] = Append(@, id)]
      /\ UNCHANGED <<appended, heard, receipts, sealed>>
  BY DEF Admit
<1>4. QED
  BY <1>1, <1>2, <1>3 DEF Contract!AdmitOne

LEMMA ServesReceipt ==
  ASSUME StInv, wire # << >>, TurnServed(Head(wire)), Receipt(Head(wire).ack),
         UNCHANGED <<admitted, appended, heard, sealed>>
  PROVE  \E t \in Turns : Contract!ReceiptOne(t) \/ UNCHANGED Contract!inputVars
<1>1. agent.now = task /\ steer.turn = task /\ task # 0 /\ task \in Turns /\ Types
  BY CurrentPull DEF StInv, SealInv
<1>2. CASE receipts' = receipts
  BY <1>1, <1>2 DEF Contract!inputVars
<1>3. CASE receipts' # receipts
  <2>1. /\ agent.ack = Count + 1
        /\ receipts' = [receipts EXCEPT ![task] = Append(@, steer.inputs[agent.ack].id)]
    BY <1>3, AckedMarks DEF StInv, Contents
  <2>2. /\ Len(appended[task]) = agent.ack
        /\ \A i \in 1 .. agent.ack : appended[task][i] = steer.inputs[i].id
    BY <1>1 DEF StInv, Contents, Appends
  <2>3. Count \in Nat /\ Count = Len(receipts[task]) /\ receipts \in [Turns -> Seq(Ids)]
    BY <1>1, Histories DEF Count, Types, HistoryType
  <2>4. appended[task][Count + 1] = steer.inputs[agent.ack].id
    BY <2>1, <2>2, <2>3
  <2>5. Contract!ReceiptOne(task)
    <3>1. Len(receipts[task]) < Len(appended[task])
      BY <2>1, <2>2, <2>3
    <3>2. Contract!Next1(receipts[task], appended[task]) = Append(receipts[task], steer.inputs[agent.ack].id)
      BY <2>3, <2>4 DEF Contract!Next1
    <3>3. QED
      BY <2>1, <3>1, <3>2 DEF Contract!ReceiptOne
  <2>6. QED
    BY <1>1, <2>5
<1>4. QED
  BY <1>2, <1>3
LEMMA SealsTurn ==
  ASSUME StInv, ServeEmpty
  PROVE  \E t \in Turns :
           Contract!ReceiptOne(t) \/ Contract!SealTurn(t) \/ UNCHANGED Contract!inputVars
<1>1. /\ wire # << >> /\ TurnServed(Head(wire)) /\ Receipt(Head(wire).ack)
      /\ UNCHANGED <<admitted, appended, heard>>
      /\ sealed' = IF Head(wire).finish THEN sealed \cup {steer.turn} ELSE sealed
  BY DEF ServeEmpty
<1>2. CASE ~Head(wire).finish
  <2>1. UNCHANGED <<admitted, appended, heard, sealed>>
    BY <1>1, <1>2
  <2>2. QED
    BY <1>1, <2>1, ServesReceipt
<1>3. CASE Head(wire).finish
  <2>1. /\ OfThisTurn(Head(wire)) /\ agent.now = task /\ steer.turn = task /\ task # 0 /\ task \in Turns
        /\ Types /\ Head(wire) = wire[1] /\ 1 \in 1 .. Len(wire)
    BY <1>1, CurrentPull, HeadOfWire DEF StInv, SealInv
  <2>2. agent.ack = Len(steer.inputs)
    BY ServeEmptyContents DEF StInv
  <2>3. agent.ack = Count /\ heard[task] = Len(appended[task])
    BY <1>3, <2>1 DEF StInv, Contents, Acks, Appends
  <2>4. /\ Len(admitted[task]) = agent.ack /\ Len(appended[task]) = agent.ack /\ Len(receipts[task]) = agent.ack
        /\ \A i \in 1 .. agent.ack : appended[task][i] = admitted[task][i]
        /\ \A i \in 1 .. agent.ack : receipts[task][i] = admitted[task][i]
    <3>1. /\ Len(admitted[task]) = Len(steer.inputs) /\ Len(receipts[task]) = Count
          /\ \A i \in 1 .. Len(steer.inputs) : admitted[task][i] = steer.inputs[i].id
      BY <2>1 DEF StInv, Contents, Marks, Count
    <3>2. /\ Len(appended[task]) = agent.ack
          /\ \A i \in 1 .. agent.ack : appended[task][i] = steer.inputs[i].id
      BY <2>1 DEF StInv, Contents, Appends
    <3>3. \A i \in 1 .. Len(receipts[task]) : receipts[task][i] = appended[task][i]
      BY <2>1 DEF StInv, Contents, ReceiptAfterAppend
    <3>4. QED
      BY <2>2, <2>3, <3>1, <3>2, <3>3
  <2>5. admitted[task] \in Seq(Ids) /\ appended[task] \in Seq(Ids) /\ receipts[task] \in Seq(Ids)
    BY <2>1, Histories
  <2>6. appended[task] = admitted[task]
    BY <2>4, <2>5, SeqEqual
  <2>7. receipts[task] = admitted[task]
    BY <2>4, <2>5, SeqEqual
  <2>8. receipts' = receipts
    <3>1. receipts' = receipts \/ agent.ack = Count + 1
      BY <1>1, AckedMarks DEF StInv, Contents
    <3>2. Count \in Nat
      BY <2>1, Histories DEF Count
    <3>3. QED
      BY <2>3, <3>1, <3>2
  <2>9. Contract!SealTurn(task)
    BY <1>1, <1>3, <2>1, <2>3, <2>6, <2>7, <2>8 DEF Contract!SealTurn
  <2>10. QED
    BY <2>1, <2>9
<1>4. QED
  BY <1>2, <1>3

LEMMA AsksModel ==
  ASSUME StInv, NEW e, AskOrFail(e), InTurn, ~(Finishing /\ reply = Empty),
         UNCHANGED <<admitted, appended, receipts, sealed>>
  PROVE  \E t \in Turns : Contract!HearAll(t)
<1>1. agent.now \in Turns /\ ~agent.failed /\ Types /\ agent.now \notin sealed
  BY TurnNow DEF StInv, Contents, Appends, SealInv, Sealing
<1>2. heard' = [heard EXCEPT ![agent.now] = Len(appended[agent.now])]
  BY <1>1, AskFields
<1>3. QED
  BY <1>1, <1>2 DEF Contract!HearAll

LEMMA DrainsOrAsks ==
  ASSUME StInv, NEW e, Drained(e), agent.phase = "drain",
         UNCHANGED <<admitted, appended, receipts, sealed>>
  PROVE  (\E t \in Turns : Contract!HearAll(t)) \/ UNCHANGED Contract!inputVars
<1>1. CASE ~agent.finishing
  <2>1. AskOrFail(e) /\ InTurn /\ ~Finishing
    BY <1>1 DEF Drained, InTurn, Finishing
  <2>2. QED
    BY <2>1, AsksModel
<1>2. CASE agent.finishing
  <2>1. heard' = heard
    BY <1>2 DEF Drained, EndTurn
  <2>2. QED
    BY <2>1 DEF Contract!inputVars
<1>3. QED
  BY <1>1, <1>2 DEF StInv, SealInv, Types, AgentType

LEMMA StInvStep ==
  ASSUME TranscriptFills = FALSE, StInv, Next
  PROVE  Contract!InputNext \/ UNCHANGED Contract!inputVars
<1>1. ASSUME NEW t \in Turns, NEW id \in Ids, Admit(t, id) PROVE Contract!InputNext
  BY <1>1, AdmitsOne DEF Contract!InputNext
<1>2. CASE ServeInput
  <2>1. wire # << >> /\ TurnServed(Head(wire)) /\ Receipt(Head(wire).ack)
    BY <1>2 DEF ServeInput
  <2>2. UNCHANGED <<admitted, appended, heard, sealed>>
    BY <1>2 DEF ServeInput
  <2>3. QED
    BY <2>1, <2>2, ServesReceipt DEF Contract!InputNext
<1>3. CASE ServeEmpty
  BY <1>3, SealsTurn DEF Contract!InputNext
<1>4. CASE Loop
  <2>1. UNCHANGED <<admitted, appended, receipts, sealed>> /\ InTurn /\ ~Finishing
    BY <1>4 DEF Loop, InTurn, Finishing
  <2>2. CASE heard' = heard
    BY <2>1, <2>2 DEF Contract!inputVars
  <2>3. CASE heard' # heard
    <3>1. AskOrFail(FALSE)
      BY <1>4, <2>3 DEF Loop, EndTurn, Drain
    <3>2. QED
      BY <2>1, <3>1, AsksModel DEF Contract!InputNext
  <2>4. QED
    BY <2>2, <2>3
<1>5. CASE Model
  <2>1. UNCHANGED <<admitted, appended, heard, receipts, sealed>>
    BY <1>5 DEF Model, EndTurn, Drain
  <2>2. QED
    BY <2>1 DEF Contract!inputVars
<1>6. CASE AppendInput
  <2>1. PICK t \in Turns : /\ Len(appended[t]) = Count /\ Count < Len(admitted[t])
                           /\ appended' = [appended EXCEPT ![t] = Append(@, admitted[t][Count + 1])]
    BY <1>6, AppendInputContents DEF StInv
  <2>2. Contract!Next1(appended[t], admitted[t]) = Append(appended[t], admitted[t][Count + 1])
    BY <2>1 DEF Contract!Next1
  <2>3. UNCHANGED <<admitted, heard, receipts, sealed>>
    BY <1>6 DEF AppendInput
  <2>4. Contract!AppendOne(t)
    BY <2>1, <2>2, <2>3 DEF Contract!AppendOne
  <2>5. QED
    BY <2>4 DEF Contract!InputNext
<1>7. CASE NoInput
  BY <1>7, DrainsOrAsks DEF NoInput, Contract!InputNext
<1>8. CASE GiveUp
  <2>1. CASE agent.phase = "begin"
    BY <1>8, <2>1 DEF GiveUp, Contract!inputVars
  <2>2. CASE agent.phase # "begin"
    BY <1>8, <2>2, DrainsOrAsks DEF GiveUp, Contract!InputNext
  <2>3. QED
    BY <2>1, <2>2
<1>9. CASE \/ ServeBegin \/ ServeRefusal \/ Send \/ Interrupt \/ TurnError \/ Waiting \/ RequestStop
           \/ Restart \/ StartTurn \/ Begun \/ Die
  <2>1. UNCHANGED history
    BY <1>9 DEF ServeBegin, ServeRefusal, Send, Interrupt, TurnError, Waiting, RequestStop,
       Restart, StartTurn, Begun, Die
  <2>2. QED
    BY <2>1 DEF history, Contract!inputVars
<1>10. QED
  BY <1>1, <1>2, <1>3, <1>4, <1>5, <1>6, <1>7, <1>8, <1>9 DEF Next, Serve, AgentStep

(* Host, wire and Agent together keep what the user is promised (see       *)
(* TurnInput): each input reaches the transcript of its own turn, once and *)
(* in order, its receipt follows, and the seal leaves nothing behind; with *)
(* any number of lost exchanges, interrupts, stops and dead processes, as  *)
(* long as the transcript has room.                                        *)
THEOREM SteeringImplementsTurnInput ==
  ASSUME TranscriptFills = FALSE
  PROVE  Spec => ImplementsTurnInput
<1>1. Init => Contract!InputInit
  BY DEF Init, Contract!InputInit
<1>2. StInv /\ [Next]_vars => [Contract!InputNext]_Contract!inputVars
  <2>1. StInv /\ Next => Contract!InputNext \/ UNCHANGED Contract!inputVars
    BY StInvStep
  <2>2. UNCHANGED vars => UNCHANGED Contract!inputVars
    BY DEF vars, history, Contract!inputVars
  <2>3. QED
    BY <2>1, <2>2
<1>3. StInv /\ [Next]_vars => StInv'
  BY StInvNext
<1>4. QED
  BY <1>1, <1>2, <1>3, StInvInit, PTL DEF Spec, ImplementsTurnInput, Contract!InputSpec
=============================================================================
