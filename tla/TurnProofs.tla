------------------------------ MODULE TurnProofs ------------------------------
(***************************************************************************)
(* The properties of module Turn: one answer per approval, which is obeyed;  *)
(* nothing done that was not cleared; a phone command that is an errand of   *)
(* module Errand, and an agent that is told the truth about it.              *)
(***************************************************************************)
EXTENDS Turn, TLAPS

-----------------------------------------------------------------------------
(* What a step does to each half of the state.                               *)

BrokerStep == BrokerNext \/ Restart \/ UNCHANGED brokerVars

NodeFate ==
    \/ NodeStep
    \/ \E c \in Commands : Check(c) \/ Insert(c)
    \/ /\ creating' \subseteq creating /\ claiming' \subseteq claiming
       /\ UNCHANGED <<row, lapsed, node, phone>>

LEMMA TwoHalves == [Next]_vars => BrokerStep /\ (NodeTypeOK => NodeFate)
<1> SUFFICES ASSUME [Next]_vars PROVE BrokerStep /\ (NodeTypeOK => NodeFate)
  OBVIOUS
<1>1. CASE BrokerNext /\ UNCHANGED <<nodeVars, turnVars>>
  BY <1>1 DEF BrokerStep, NodeFate, nodeVars, server, requests
<1>2. ASSUME NEW c \in Commands, Invoke(c) \/ InsertInvoked(c) \/ Create(c) \/ ReadRow(c)
                                 \/ ShowQueued(c)
      PROVE  BrokerStep /\ NodeFate
  BY <1>2 DEF Invoke, InsertInvoked, Create, ReadRow, ShowQueued, BrokerStep, NodeFate, nodeVars,
              server, requests
<1>3. CASE NodeStep /\ UNCHANGED <<brokerVars, turnVars>>
  BY <1>3 DEF BrokerStep, NodeFate
<1>4. CASE Restart
  BY <1>4 DEF BrokerStep, NodeFate, Restart, NodeTypeOK
<1>5. CASE UNCHANGED vars
  BY <1>5 DEF BrokerStep, NodeFate, vars, nodeVars, server, requests
<1>6. QED
  BY <1>1, <1>2, <1>3, <1>4, <1>5 DEF Next

-----------------------------------------------------------------------------
(* Types.                                                                    *)

LEMMA BrokerTyped == BrokerTypeOK /\ BrokerStep => BrokerTypeOK'
<1> SUFFICES ASSUME BrokerTypeOK, BrokerStep PROVE BrokerTypeOK'
  OBVIOUS
<1> USE DEF BrokerTypeOK, Stages, Outcomes, Answers, Accepted, Move
<1>1. ASSUME NEW c \in Calls, PassUnasked(c) \/ RefuseUnattended(c) \/ Ask(c) \/ GiveUp(c)
      PROVE  BrokerTypeOK'
  BY <1>1 DEF PassUnasked, RefuseUnattended, Ask, GiveUp
<1>2. ASSUME NEW c \in Calls, Obey(c) PROVE BrokerTypeOK'
  BY <1>2 DEF Obey
<1>3. ASSUME NEW c \in Calls, Forget(c) \/ EndRun(c) PROVE BrokerTypeOK'
  BY <1>3 DEF Forget, EndRun
<1>4. ASSUME NEW d \in Deciders, NEW c \in Calls, NEW v \in BOOLEAN, Take(d, c, v)
      PROVE  BrokerTypeOK'
  BY <1>4 DEF Take
<1>5. ASSUME NEW d \in Deciders, Deliver(d) PROVE BrokerTypeOK'
  <2>1. hand[d].call \in Calls /\ hand[d].approved \in BOOLEAN
    BY <1>5 DEF Deliver
  <2>2. slot' \in [Calls -> {<<>>, <<TRUE>>, <<FALSE>>}]
    BY <1>5, <2>1 DEF Deliver
  <2>3. accepted' \subseteq Accepted /\ hand' \in [Deciders -> Answers \cup {Empty}]
    BY <1>5, <2>1 DEF Deliver, Hand
  <2>4. QED
    BY <1>5, <2>2, <2>3 DEF Deliver
<1>6. CASE Restart
  BY <1>6 DEF Restart
<1>7. CASE UNCHANGED brokerVars
  BY <1>7 DEF brokerVars
<1>8. QED
  BY <1>1, <1>2, <1>3, <1>4, <1>5, <1>6, <1>7 DEF BrokerStep, BrokerNext, Run, Decide

LEMMA NodeTyped == NodeTypeOK /\ NodeFate => NodeTypeOK'
<1> SUFFICES ASSUME NodeTypeOK, NodeFate PROVE NodeTypeOK'
  OBVIOUS
<1> USE KindAssumption DEF NodeTypeOK, Statuses, Results, Progress, node, server, requests,
    phone, SetRow, Step
<1>1. CASE RegisterNode
  BY <1>1 DEF RegisterNode
<1>2. CASE DeleteDevice
  BY <1>2 DEF DeleteDevice
<1>3. ASSUME NEW c \in Commands, Lapse(c) \/ Finish(c) PROVE NodeTypeOK'
  BY <1>3 DEF Lapse, Finish
<1>4. ASSUME NEW c \in Commands, Check(c) \/ Insert(c) PROVE NodeTypeOK'
  BY <1>4 DEF Check, Insert
<1>5. ASSUME NEW l \in Lives, NEW c \in Commands,
             AskToClaim(l, c) \/ Claim(l, c) \/ ClaimFails(l, c)
      PROVE  NodeTypeOK'
  BY <1>5 DEF AskToClaim, BeginClaim, Claim, ClaimFails
<1>6. ASSUME NEW l \in Lives, NEW c \in Commands, Poll(l, c) \/ Act(l, c) PROVE NodeTypeOK'
  BY <1>6 DEF Poll, Act
<1>7. ASSUME NEW l \in Lives, NEW c \in Commands, Save(l, c) PROVE NodeTypeOK'
  BY <1>7 DEF Save
<1>8. ASSUME NEW l \in Lives, Kill(l) PROVE NodeTypeOK'
  BY <1>8 DEF Kill
<1>9. CASE creating' \subseteq creating /\ claiming' \subseteq claiming
             /\ UNCHANGED <<row, lapsed, node, phone>>
  BY <1>9
<1>10. QED
  BY <1>1, <1>2, <1>3, <1>4, <1>5, <1>6, <1>7, <1>8, <1>9 DEF NodeFate, NodeStep

LEMMA TypesInit == Init => TypeOK
<1> SUFFICES ASSUME Init PROVE TypeOK
  OBVIOUS
<1>1. BrokerTypeOK
  BY DEF Init, BrokerInit, BrokerTypeOK, Stages, Outcomes
<1>2. NodeTypeOK
  BY DEF Init, NodeInit, NodeTypeOK, Statuses, Progress
<1>3. QED
  BY <1>1, <1>2 DEF Init, TypeOK, Statuses

LEMMA TypesNext == TypeOK /\ [Next]_vars => TypeOK'
<1> SUFFICES ASSUME TypeOK, [Next]_vars PROVE TypeOK'
  OBVIOUS
<1>1. BrokerTypeOK' /\ NodeTypeOK'
  BY TwoHalves, BrokerTyped, NodeTyped DEF TypeOK
<1>2. sent' \subseteq Calls /\ reading' \subseteq Invokes /\ told' \in [Calls -> Statuses]
  BY DEF Next, turnVars, Invoke, Invokes, InsertInvoked, Create, ReadRow, ShowQueued, Restart,
         vars, TypeOK, NodeTypeOK, Statuses, Results
<1>3. QED
  BY <1>1, <1>2 DEF TypeOK

\* Every variable of the broker, of the rows and of the phone keeps its type, for any
\* number of calls, devices, commands and starts of the phone application.
THEOREM Types == Spec => []TypeOK
  BY TypesInit, TypesNext, PTL DEF Spec

-----------------------------------------------------------------------------
(* The list of approvals.                                                    *)

LEMMA ListedNext == BrokerTypeOK /\ NoStaleEntries /\ BrokerStep => NoStaleEntries'
<1> SUFFICES ASSUME BrokerTypeOK, NoStaleEntries, BrokerStep PROVE NoStaleEntries'
  OBVIOUS
<1> USE DEF BrokerTypeOK, NoStaleEntries, Move
<1>1. ASSUME NEW c \in Calls, Run(c) \/ EndRun(c) PROVE NoStaleEntries'
  BY <1>1 DEF Run, PassUnasked, RefuseUnattended, Ask, Obey, GiveUp, Forget, EndRun
<1>2. ASSUME NEW d \in Deciders, Decide(d) PROVE NoStaleEntries'
  BY <1>2 DEF Decide, Deliver, Take, Hand
<1>3. CASE Restart
  BY <1>3 DEF Restart
<1>4. CASE UNCHANGED brokerVars
  BY <1>4 DEF brokerVars
<1>5. QED
  BY <1>1, <1>2, <1>3, <1>4 DEF BrokerStep, BrokerNext

\* An approval that is listed has a run that waits for it, or is just leaving.
THEOREM ListIsCurrent == Spec => []NoStaleEntries
<1>1. Init => NoStaleEntries
  BY DEF Init, BrokerInit, NoStaleEntries
<1>2. TypeOK /\ NoStaleEntries /\ [Next]_vars => NoStaleEntries'
  BY TwoHalves, ListedNext DEF TypeOK
<1>3. QED
  BY <1>1, <1>2, Types, PTL DEF Spec

-----------------------------------------------------------------------------
(* One answer.  From Take on, an answer is in one hand, then in the channel   *)
(* and among the accepted ones; its call is never listed again.               *)

Held ==
    \A d \in Deciders : hand[d] # Empty =>
        LET c == hand[d].call IN
        /\ c \notin pending /\ stage[c] # "idle" /\ <<d, c>> \in MayDecide
        /\ \A e \in Deciders : hand[e] # Empty /\ hand[e].call = c => e = d
        /\ \A a \in accepted : a.call # c

Kept ==
    /\ \A a \in accepted :
          a.call \notin pending /\ stage[a.call] # "idle" /\ <<a.by, a.call>> \in MayDecide
    /\ \A a, b \in accepted : a.call = b.call => a = b

Said(c, v) == \E a \in accepted : a.call = c /\ a.approved = v

Channelled ==
    \A c \in Calls :
        /\ slot[c] = <<TRUE>> => Said(c, TRUE)
        /\ slot[c] = <<FALSE>> => Said(c, FALSE)

Heard ==
    \A c \in Calls :
        /\ outcome[c] = "approved" => Said(c, TRUE)
        /\ outcome[c] = "denied" => Said(c, FALSE)
        /\ outcome[c] = "cancelled" => c \in ended

Answered == BrokerTypeOK /\ NoStaleEntries /\ Held /\ Kept /\ Channelled /\ Heard

\* Only Deliver accepts an answer: the one it holds.
LEMMA AcceptedGrow ==
  ASSUME BrokerTypeOK, BrokerStep
  PROVE  \/ accepted' = accepted
         \/ \E d \in Deciders : Deliver(d)
  BY DEF BrokerStep, BrokerNext, Run, PassUnasked, RefuseUnattended, Ask, Obey, GiveUp,
         Forget, EndRun, Decide, Take, Restart, brokerVars

LEMMA SaidForEver ==
  ASSUME BrokerTypeOK, BrokerStep, NEW c, NEW v, Said(c, v)
  PROVE  Said(c, v)'
  BY AcceptedGrow DEF Said, Deliver, Hand

LEMMA DeliverAccepts ==
  ASSUME BrokerTypeOK, NEW d \in Deciders, Deliver(d)
  PROVE  /\ hand[d].call \in Calls /\ hand[d].approved \in BOOLEAN
         /\ accepted' = accepted \cup {[by |-> d, call |-> hand[d].call,
                                        approved |-> hand[d].approved]}
         /\ slot' = [slot EXCEPT ![hand[d].call] = <<hand[d].approved>>]
         /\ hand' = [hand EXCEPT ![d] = Empty]
         /\ UNCHANGED <<stage, outcome, pending, ended>>
  BY DEF BrokerTypeOK, Answers, Deliver, Hand

LEMMA HeldNext == Answered /\ BrokerStep => (Held /\ Kept)'
<1> SUFFICES ASSUME Answered, BrokerStep PROVE (Held /\ Kept)'
  OBVIOUS
<1> USE DEF Answered, BrokerTypeOK, Held, Kept
<1>1. ASSUME NEW c \in Calls, Run(c) \/ EndRun(c) PROVE (Held /\ Kept)'
  <2>1. hand' = hand /\ accepted' = accepted
    BY <1>1 DEF Run, PassUnasked, RefuseUnattended, Ask, Obey, GiveUp, Forget, EndRun
  <2>2. \A b \in Calls : stage[b] # "idle" => stage'[b] # "idle"
    BY <1>1 DEF Run, PassUnasked, RefuseUnattended, Ask, Obey, GiveUp, Forget, EndRun, Move
  <2>3. \A b \in Calls : b \notin pending /\ stage[b] # "idle" => b \notin pending'
    BY <1>1 DEF Run, PassUnasked, RefuseUnattended, Ask, Obey, GiveUp, Forget, EndRun, Move
  <2>4. \A d \in Deciders : hand[d] # Empty => hand[d].call \in Calls
    BY DEF Answers
  <2>5. \A a \in accepted : a.call \in Calls
    BY DEF Accepted
  <2>6. Held'
    BY <2>1, <2>2, <2>3, <2>4
  <2>7. Kept'
    BY <2>1, <2>2, <2>3, <2>5
  <2>8. QED
    BY <2>6, <2>7
<1>2. ASSUME NEW d \in Deciders, NEW c \in Calls, NEW v \in BOOLEAN, Take(d, c, v)
      PROVE  (Held /\ Kept)'
  <2>1. stage[c] # "idle"
    BY <1>2 DEF Take, NoStaleEntries
  <2>2. \A e \in Deciders : hand'[e] # Empty =>
          (e = d /\ hand'[e].call = c) \/ (e # d /\ hand'[e] = hand[e] /\ hand[e].call # c)
    BY <1>2 DEF Take
  <2>3. \A a \in accepted : a.call # c
    BY <1>2 DEF Take
  <2>4. QED
    BY <1>2, <2>1, <2>2, <2>3 DEF Take
<1>3. ASSUME NEW d \in Deciders, Deliver(d) PROVE (Held /\ Kept)'
  <2> DEFINE c == hand[d].call
  <2>1. c \in Calls /\ hand[d] # Empty
    BY <1>3, DeliverAccepts DEF Deliver
  <2>2. PICK n : /\ n.by = d /\ n.call = c
                 /\ accepted' = accepted \cup {n}
    BY <1>3, DeliverAccepts
  <2>3. UNCHANGED <<stage, pending>> /\ hand' = [hand EXCEPT ![d] = Empty]
    BY <1>3, DeliverAccepts
  <2>4. \A a \in accepted : a.call # c
    BY <2>1
  <2>5. c \notin pending /\ stage[c] # "idle" /\ <<d, c>> \in MayDecide
    BY <2>1
  <2>6. \A e \in Deciders : hand'[e] # Empty => e # d /\ hand'[e] = hand[e] /\ hand[e].call # c
    BY <2>1, <2>3
  <2>7. Held'
    BY <2>2, <2>3, <2>6
  <2>8. Kept'
    BY <2>2, <2>3, <2>4, <2>5
  <2>9. QED
    BY <2>7, <2>8
<1>4. CASE Restart
  BY <1>4 DEF Restart, Accepted
<1>5. CASE UNCHANGED brokerVars
  BY <1>5 DEF brokerVars
<1>6. QED
  BY <1>1, <1>2, <1>3, <1>4, <1>5 DEF BrokerStep, BrokerNext, Decide

LEMMA ChannelledNext == Answered /\ BrokerStep => Channelled'
<1> SUFFICES ASSUME Answered, BrokerStep PROVE Channelled'
  OBVIOUS
<1>1. CASE \A c \in Calls : slot'[c] = slot[c] \/ slot'[c] = <<>>
  <2> SUFFICES ASSUME NEW c \in Calls
               PROVE  /\ slot'[c] = <<TRUE>> => Said(c, TRUE)'
                      /\ slot'[c] = <<FALSE>> => Said(c, FALSE)'
    BY DEF Channelled
  <2>1. <<>> # <<TRUE>> /\ <<>> # <<FALSE>>
    OBVIOUS
  <2>2. slot'[c] = <<TRUE>> => slot[c] = <<TRUE>>
    BY <1>1, <2>1, Zenon
  <2>3. slot'[c] = <<FALSE>> => slot[c] = <<FALSE>>
    BY <1>1, <2>1, Zenon
  <2>4. QED
    BY <2>2, <2>3, SaidForEver DEF Answered, Channelled
<1>2. ASSUME NEW d \in Deciders, Deliver(d) PROVE Channelled'
  <2>1. PICK u, b : u = hand[d].approved /\ b = hand[d].call
    OBVIOUS
  <2>2. b \in Calls /\ u \in BOOLEAN /\ slot' = [slot EXCEPT ![b] = <<u>>]
    BY <1>2, <2>1, DeliverAccepts DEF Answered
  <2>3. accepted' = accepted \cup {[by |-> d, call |-> b, approved |-> u]}
    BY <1>2, <2>1, DeliverAccepts DEF Answered
  <2>4. \E a \in accepted' : a.call = b /\ a.approved = u
    <3> DEFINE n == [by |-> d, call |-> b, approved |-> u]
    <3>1. n.call = b /\ n.approved = u
      BY Zenon
    <3>2. n \in accepted'
      BY <2>3
    <3>3. QED
      BY <3>1, <3>2
  <2>5. ASSUME NEW c \in Calls, NEW v \in BOOLEAN, slot'[c] = <<v>> PROVE Said(c, v)'
    <3>1. CASE c = b
      <4>1. v = u
        BY <2>2, <2>5, <3>1 DEF Answered, BrokerTypeOK
      <4>2. QED
        BY <2>4, <3>1, <4>1 DEF Said
    <3>2. CASE c # b
      <4>1. slot[c] = <<v>>
        BY <2>2, <2>5, <3>2 DEF Answered, BrokerTypeOK
      <4>2. Said(c, v)
        BY <4>1 DEF Answered, Channelled
      <4>3. QED
        BY <4>2, SaidForEver DEF Answered
    <3>3. QED
      BY <3>1, <3>2
  <2>6. QED
    BY <2>5 DEF Channelled
<1>3. (\E d \in Deciders : Deliver(d)) \/ \A c \in Calls : slot'[c] = slot[c] \/ slot'[c] = <<>>
  BY DEF Answered, BrokerTypeOK, BrokerStep, BrokerNext, Run, PassUnasked, RefuseUnattended,
         Ask, Obey, GiveUp, Forget, EndRun, Decide, Take, Restart, brokerVars
<1>4. QED
  BY <1>1, <1>2, <1>3

LEMMA HeardNext == Answered /\ BrokerStep => Heard'
<1> SUFFICES ASSUME Answered, BrokerStep PROVE Heard'
  OBVIOUS
<1>1. CASE ended \subseteq ended' /\ outcome' = outcome
  BY <1>1, SaidForEver DEF Answered, Heard
<1>2. ASSUME NEW c \in Calls, Obey(c) PROVE Heard'
  <2>1. \/ slot[c] = <<TRUE>> /\ outcome' = [outcome EXCEPT ![c] = "approved"]
        \/ slot[c] = <<FALSE>> /\ outcome' = [outcome EXCEPT ![c] = "denied"]
    BY <1>2 DEF Obey, Move, Answered, BrokerTypeOK
  <2>2. ended' = ended
    BY <1>2 DEF Obey
  <2>3. QED
    BY <2>1, <2>2, SaidForEver DEF Answered, BrokerTypeOK, Channelled, Heard
<1>3. ASSUME NEW c \in Calls, PassUnasked(c) \/ RefuseUnattended(c) \/ Ask(c) \/ GiveUp(c)
                              \/ Forget(c)
      PROVE  Heard'
  BY <1>3, SaidForEver DEF Answered, BrokerTypeOK, Heard, Move, PassUnasked,
                           RefuseUnattended, Ask, GiveUp, Forget
<1>4. CASE Restart
  BY <1>4, SaidForEver DEF Answered, BrokerTypeOK, Heard, Restart
<1>5. ASSUME NEW d \in Deciders, Decide(d) PROVE Heard'
  BY <1>5, <1>1 DEF Decide, Take, Deliver
<1>6. ASSUME NEW c \in Calls, EndRun(c) PROVE Heard'
  BY <1>6, <1>1 DEF EndRun
<1>7. QED
  BY <1>1, <1>2, <1>3, <1>4, <1>5, <1>6 DEF BrokerStep, BrokerNext, Run, brokerVars

LEMMA AnsweredNext == Answered /\ BrokerStep => Answered'
  BY BrokerTyped, ListedNext, HeldNext, ChannelledNext, HeardNext DEF Answered

LEMMA AnsweredInit == Init => Answered
<1> SUFFICES ASSUME Init PROVE Answered
  OBVIOUS
<1>1. BrokerTypeOK
  BY TypesInit DEF TypeOK
<1>2. QED
  BY <1>1 DEF Init, BrokerInit, Answered, NoStaleEntries, Held, Kept, Channelled, Heard

LEMMA AlwaysAnswered == Spec => []Answered
<1>1. Answered /\ [Next]_vars => Answered'
  BY TwoHalves, AnsweredNext
<1>2. QED
  BY <1>1, AnsweredInit, PTL DEF Spec

\* However many devices answer a call, at whatever moment its run ends or the gateway
\* restarts: one answer at most is accepted, and the run obeys it unless it is over.
THEOREM OneAnswerCounts == Spec => []AnswerObeyed
<1>1. Answered => AnswerObeyed
  BY DEF Answered, Kept, Heard, Said, AnswerObeyed
<1>2. QED
  BY <1>1, AlwaysAnswered, PTL

\* What Deliver waits for, apart from an answer to deliver.
RoomToAnswer == \A d \in Deciders : hand[d] # Empty => slot[hand[d].call] = <<>>

\* One slot is enough for every number of devices: the channel of the call whose
\* entry an answer has taken is empty, so the request of the person that sends it
\* (ResolveForPrincipal, after the unlock) finds room whenever it is scheduled.
THEOREM TheSlotIsFree == Spec => []RoomToAnswer
<1>1. Answered => RoomToAnswer
  <2> SUFFICES ASSUME Answered, NEW d \in Deciders, hand[d] # Empty
               PROVE  slot[hand[d].call] = <<>>
    BY DEF RoomToAnswer
  <2> DEFINE c == hand[d].call
  <2>1. c \in Calls /\ slot[c] \in {<<>>, <<TRUE>>, <<FALSE>>}
    BY DEF Answered, BrokerTypeOK, Answers
  <2>2. ~ Said(c, TRUE) /\ ~ Said(c, FALSE)
    BY DEF Answered, Held, Said
  <2>3. QED
    BY <2>1, <2>2 DEF Answered, Channelled
<1>2. QED
  BY <1>1, AlwaysAnswered, PTL

-----------------------------------------------------------------------------
(* The command and its phone.  A command is carried by the life of the phone   *)
(* that has been told of its claim, from then on to the result.               *)

Carried(l, c) == at[l][c] \in {"claimed", "acted"}
Idle(c) == \A l \in Lives : ~Carried(l, c)

Unclaimed ==
    \A c \in Commands :
        /\ row[c] \in {"none", "queued"} => saved[c] = "none" /\ done[c] = 0 /\ Idle(c)
        /\ row[c] = "none" => c \notin lapsed

Carriers ==
    \A c \in Commands, l \in Lives : Carried(l, c) =>
        row[c] = "running" /\ saved[c] = "none" /\ \A k \in Lives : Carried(k, c) => k = l

Deeds ==
    \A c \in Commands :
        /\ done[c] \in {0, 1}
        /\ saved[c] = "completed" => done[c] = 1
        /\ saved[c] \in {"declined", "expired"} => done[c] = 0
        /\ \A l \in Lives : /\ at[l][c] = "claimed" => done[c] = 0
                            /\ at[l][c] = "acted" => done[c] = 1

Final ==
    \A c \in Commands : row[c] \in Results =>
        Idle(c) /\ (saved[c] = row[c] \/ (row[c] = "expired" /\ done[c] = 0))

Phoned == NodeTypeOK /\ Unclaimed /\ Carriers /\ Deeds /\ Final

LEMMA PhonedInit == Init => Phoned
<1> SUFFICES ASSUME Init PROVE Phoned
  OBVIOUS
<1>1. NodeTypeOK
  BY TypesInit DEF TypeOK
<1>2. QED
  BY <1>1 DEF Init, NodeInit, Phoned, Unclaimed, Carriers, Deeds, Final, Carried, Idle, Results

LEMMA PhonedNext == Phoned /\ NodeFate => Phoned'
<1> SUFFICES ASSUME Phoned, NodeFate PROVE (Unclaimed /\ Carriers /\ Deeds /\ Final)'
  BY NodeTyped DEF Phoned
<1> DEFINE Goal == (Unclaimed /\ Carriers /\ Deeds /\ Final)'
<1> USE DEF Phoned, NodeTypeOK, Unclaimed, Carriers, Deeds, Final, Idle, Carried, Results,
        Statuses, Progress, node, server, requests, phone, SetRow, Step
<1>1. CASE RegisterNode
  BY <1>1 DEF RegisterNode
<1>2. CASE DeleteDevice
  BY <1>2 DEF DeleteDevice
<1>3. ASSUME NEW c \in Commands, Lapse(c) PROVE Goal
  BY <1>3 DEF Lapse
<1>4. ASSUME NEW c \in Commands, Finish(c) PROVE Goal
  BY <1>4 DEF Finish
<1>5. ASSUME NEW c \in Commands, Check(c) PROVE Goal
  BY <1>5 DEF Check
<1>6. ASSUME NEW c \in Commands, Insert(c) PROVE Goal
  BY <1>6 DEF Insert
<1>7. ASSUME NEW l \in Lives, NEW c \in Commands, Claim(l, c) PROVE Goal
  <2>1. row[c] = "queued" /\ row' = [row EXCEPT ![c] = "running"]
    BY <1>7 DEF Claim, Claimable
  <2>2. UNCHANGED <<lapsed, saved, done>>
    BY <1>7 DEF Claim
  <2>3. saved[c] = "none" /\ done[c] = 0 /\ \A k \in Lives : ~Carried(k, c)
    BY <2>1
  <2>4. \A k \in Lives, b \in Commands :
          at'[k][b] = at[k][b] \/ (k = l /\ b = c /\ at'[k][b] = "claimed")
    BY <1>7 DEF Claim
  <2>5. Unclaimed'
    BY <2>1, <2>2, <2>4
  <2>6. Carriers'
    BY <2>1, <2>2, <2>3, <2>4
  <2>7. Deeds'
    BY <2>2, <2>3, <2>4
  <2>8. Final'
    BY <2>1, <2>2, <2>4
  <2>9. QED
    BY <2>5, <2>6, <2>7, <2>8
<1>8. ASSUME NEW l \in Lives, NEW c \in Commands, Poll(l, c) PROVE Goal
  BY <1>8 DEF Poll
<1>9. ASSUME NEW l \in Lives, NEW c \in Commands, Act(l, c) PROVE Goal
  BY <1>9 DEF Act
<1>10. ASSUME NEW l \in Lives, NEW c \in Commands, Save(l, c) PROVE Goal
  BY <1>10 DEF Save
<1>11. ASSUME NEW l \in Lives, Kill(l) PROVE Goal
  BY <1>11 DEF Kill
<1>12. CASE creating' \subseteq creating /\ claiming' \subseteq claiming
              /\ UNCHANGED <<row, lapsed, node, phone>>
  BY <1>12
<1>13. ASSUME NEW l \in Lives, NEW c \in Commands, AskToClaim(l, c) \/ ClaimFails(l, c)
       PROVE  Goal
  BY <1>13 DEF AskToClaim, BeginClaim, ClaimFails
<1>14. QED
  BY <1>1, <1>2, <1>3, <1>4, <1>5, <1>6, <1>7, <1>8, <1>9, <1>10, <1>11, <1>12, <1>13
  DEF NodeFate, NodeStep

LEMMA AlwaysPhoned == Spec => []Phoned
<1>1. Phoned /\ [Next]_vars => Phoned'
  BY TwoHalves, PhonedNext DEF Phoned
<1>2. QED
  BY <1>1, PhonedInit, PTL DEF Spec

-----------------------------------------------------------------------------
(* A command is an errand.                                                   *)

\* What is read of a row.
Reading ==
    /\ ErrandState = [c \in Commands |-> ErrandState[c]]
    /\ \A c \in Commands :
          /\ row[c] = "none" => ErrandState[c] = "absent"
          /\ Waiting(c) => ErrandState[c] = "open"
          /\ row[c] = "queued" /\ c \in lapsed => ErrandState[c] = "late"
          /\ row[c] = "running" => ErrandState[c] = "taken"
          /\ row[c] \in Results => ErrandState[c] = row[c]

LEMMA RowsAreRead == NodeTypeOK => Reading
  BY DEF NodeTypeOK, Reading, ErrandState, Waiting, Statuses, Results

Same(c) == row'[c] = row[c] /\ (c \in lapsed <=> c \in lapsed')

LEMMA SameRead ==
  ASSUME Phoned, Phoned', NEW c \in Commands, Same(c)
  PROVE  ErrandState'[c] = ErrandState[c]
<1>1. Reading /\ Reading'
  BY RowsAreRead, PTL DEF Phoned
<1>2. row[c] \in Statuses
  BY DEF Phoned, NodeTypeOK
<1>3. QED
  BY <1>1, <1>2 DEF Same, Reading, Waiting, Statuses, Results

LEMMA StateMoves ==
  ASSUME Phoned, Phoned', NEW c \in Commands, \A b \in Commands \ {c} : Same(b)
  PROVE  ErrandState' = [ErrandState EXCEPT ![c] = ErrandState'[c]]
<1>1. \A b \in Commands \ {c} : ErrandState'[b] = ErrandState[b]
  BY SameRead
<1>2. Reading /\ Reading'
  BY RowsAreRead, PTL DEF Phoned
<1>3. QED
  BY <1>1, <1>2 DEF Reading

Promise == E!Next \/ UNCHANGED E!vars

\* A row that is not queued is read without the time.
LEMMA LapseUnread ==
  ASSUME Phoned, Phoned', NEW c \in Commands, row'[c] = row[c], row[c] # "queued"
  PROVE  ErrandState'[c] = ErrandState[c]
<1>1. Reading /\ Reading'
  BY RowsAreRead, PTL DEF Phoned
<1>2. row[c] \in Statuses
  BY DEF Phoned, NodeTypeOK
<1>3. QED
  BY <1>1, <1>2 DEF Reading, Statuses, Results

\* Nothing that is read changes, or only who asks to claim.
LEMMA NothingRead ==
  ASSUME Phoned, Phoned', UNCHANGED <<row, lapsed, done>>
  PROVE  ErrandState' = ErrandState /\ (Asked' \subseteq Asked => Promise)
<1>1. Reading /\ Reading'
  BY RowsAreRead, PTL DEF Phoned
<1>2. \A c \in Commands : ErrandState'[c] = ErrandState[c]
  BY SameRead DEF Same
<1>3. ErrandState' = ErrandState
  BY <1>1, <1>2 DEF Reading
<1>4. Asked' \subseteq Asked => E!Refuse
  BY <1>3 DEF E!Refuse
<1>5. QED
  BY <1>3, <1>4 DEF Promise, E!Next

\* A request that is no longer under way has asked for nothing.
LEMMA AskedLess == claiming' \subseteq claiming => Asked' \subseteq Asked
  BY DEF Asked

\* Queued rows are withdrawn.
LEMMA RowsWithdrawn ==
  ASSUME Phoned, Phoned', done' = done, claiming' = claiming,
         \A c \in Commands : Same(c) \/ (row[c] = "queued" /\ row'[c] = "expired")
  PROVE  Promise
<1>1. Reading /\ Reading'
  BY RowsAreRead, PTL DEF Phoned
<1>2. \A c \in Commands :
        \/ ErrandState'[c] = ErrandState[c]
        \/ ErrandState[c] \in {"open", "late"} /\ ErrandState'[c] = "expired"
  <2> SUFFICES ASSUME NEW c \in Commands, ~Same(c)
               PROVE  ErrandState[c] \in {"open", "late"} /\ ErrandState'[c] = "expired"
    BY SameRead
  <2>1. row[c] = "queued" /\ row'[c] = "expired"
    OBVIOUS
  <2>2. QED
    BY <1>1, <2>1 DEF Reading, Waiting, Results
<1> DEFINE gone == {c \in Commands : /\ ErrandState[c] \in {"open", "late"}
                                     /\ ErrandState'[c] = "expired"}
<1>3. ErrandState' = [c \in Commands |-> IF c \in gone THEN "expired" ELSE ErrandState[c]]
  BY <1>1, <1>2 DEF Reading
<1>4. Asked' = Asked
  BY DEF Asked
<1>5. E!Withdraw
  BY <1>3, <1>4 DEF E!Withdraw
<1>6. QED
  BY <1>5 DEF Promise, E!Next

LEMMA PromiseKept == Phoned /\ NodeFate => Promise
<1> SUFFICES ASSUME Phoned, NodeFate PROVE Promise
  OBVIOUS
<1>1. Phoned'
  BY PhonedNext
<1>2. Reading /\ Reading'
  BY <1>1, RowsAreRead, PTL DEF Phoned
<1> USE DEF phone, node, server, requests
<1>3. CASE RegisterNode
  BY <1>1, <1>3, NothingRead, AskedLess DEF RegisterNode
<1>4. CASE DeleteDevice
  <2>1. \A c \in Commands : Same(c) \/ (row[c] = "queued" /\ row'[c] = "expired")
    BY <1>4 DEF DeleteDevice, Same, Phoned, NodeTypeOK
  <2>2. done' = done /\ claiming' = claiming
    BY <1>4 DEF DeleteDevice
  <2>3. QED
    BY <1>1, <2>1, <2>2, RowsWithdrawn
<1>5. ASSUME NEW c \in Commands, Lapse(c) PROVE Promise
  <2>1. /\ row' = row /\ lapsed' = lapsed \cup {c} /\ c \notin lapsed
        /\ UNCHANGED <<done, claiming>>
    BY <1>5 DEF Lapse
  <2>2. Asked' = Asked
    BY <2>1 DEF Asked
  <2>3. CASE row[c] = "queued"
    <3>1. \A b \in Commands \ {c} : Same(b)
      BY <2>1 DEF Same
    <3>2. ErrandState[c] = "open" /\ ErrandState'[c] = "late"
      BY <1>2, <2>1, <2>3 DEF Reading, Waiting
    <3>3. ErrandState' = [ErrandState EXCEPT ![c] = "late"]
      BY <1>1, <3>1, <3>2, StateMoves
    <3>4. E!Lapse(c)
      BY <2>1, <2>2, <3>2, <3>3 DEF E!Lapse, E!Goes
    <3>5. QED
      BY <3>4 DEF Promise, E!Next
  <2>4. CASE row[c] # "queued"
    <3>1. ErrandState'[c] = ErrandState[c]
      BY <1>1, <2>1, <2>4, LapseUnread
    <3>2. \A b \in Commands \ {c} : ErrandState'[b] = ErrandState[b]
      BY <1>1, <2>1, SameRead DEF Same
    <3>3. ErrandState' = ErrandState
      BY <1>2, <3>1, <3>2 DEF Reading
    <3>4. QED
      BY <2>1, <2>2, <3>3 DEF Promise, E!vars
  <2>5. QED
    BY <2>3, <2>4
<1>6. ASSUME NEW c \in Commands, Finish(c) PROVE Promise
  <2>1. row[c] = "running" /\ saved[c] \in Results /\ row' = [row EXCEPT ![c] = saved[c]]
        /\ UNCHANGED <<lapsed, done, claiming>>
    BY <1>6 DEF Finish, SetRow, Phoned, NodeTypeOK
  <2>2. \A b \in Commands \ {c} : Same(b)
    BY <2>1 DEF Same, Phoned, NodeTypeOK
  <2>3. ErrandState[c] = "taken" /\ ErrandState'[c] = saved[c]
    BY <1>2, <2>1 DEF Reading, Phoned, NodeTypeOK
  <2>4. ErrandState' = [ErrandState EXCEPT ![c] = saved[c]]
    BY <1>1, <2>2, <2>3, StateMoves
  <2>5. done[c] \in {0, 1} /\ (saved[c] = "completed" => done[c] = 1)
        /\ (saved[c] \in {"declined", "expired"} => done[c] = 0)
    BY DEF Phoned, Deeds
  <2>6. Asked' = Asked
    BY <2>1 DEF Asked
  <2>7. E!Report(c)
    BY <2>1, <2>3, <2>4, <2>5, <2>6 DEF E!Report, E!Goes, Results
  <2>8. QED
    BY <2>7 DEF Promise, E!Next
<1>7. ASSUME NEW c \in Commands, Check(c) PROVE Promise
  BY <1>1, <1>7, NothingRead, AskedLess DEF Check
<1>8. ASSUME NEW c \in Commands, Insert(c) PROVE Promise
  <2>1. CASE row' = row
    BY <1>1, <1>8, <2>1, NothingRead, AskedLess DEF Insert
  <2>2. CASE row' # row
    <3>1. /\ row[c] = "none" /\ row' = [row EXCEPT ![c] = "queued"]
          /\ UNCHANGED <<lapsed, done, claiming>>
      BY <1>8, <2>2 DEF Insert, SetRow
    <3>2. \A b \in Commands \ {c} : Same(b)
      BY <3>1 DEF Same, Phoned, NodeTypeOK
    <3>3. ErrandState[c] = "absent" /\ ErrandState'[c] = "open"
      BY <1>2, <3>1 DEF Reading, Waiting, Phoned, NodeTypeOK, Unclaimed
    <3>4. ErrandState' = [ErrandState EXCEPT ![c] = "open"]
      BY <1>1, <3>2, <3>3, StateMoves
    <3>5. Asked' = Asked
      BY <3>1 DEF Asked
    <3>6. E!Post(c)
      BY <3>1, <3>3, <3>4, <3>5 DEF E!Post, E!Goes
    <3>7. QED
      BY <3>6 DEF Promise, E!Next
  <2>3. QED
    BY <2>1, <2>2
<1>9. ASSUME NEW l \in Lives, NEW c \in Commands, AskToClaim(l, c) PROVE Promise
  <2>1. /\ c \notin lapsed /\ claiming' = claiming \cup {<<l, c>>}
        /\ UNCHANGED <<row, lapsed, done>>
    BY <1>9 DEF AskToClaim, BeginClaim
  <2>2. ErrandState' = ErrandState
    BY <1>1, <2>1, NothingRead
  <2>3. ErrandState[c] # "late"
    BY <1>2, <2>1 DEF Reading, Waiting, Phoned, NodeTypeOK, Statuses, Results
  <2>4. Asked' = Asked \cup {c}
    BY <2>1 DEF Asked
  <2>5. E!AskFor(c)
    BY <2>1, <2>2, <2>3, <2>4 DEF E!AskFor
  <2>6. QED
    BY <2>5 DEF Promise, E!Next
<1>10. ASSUME NEW l \in Lives, NEW c \in Commands, Claim(l, c) PROVE Promise
  <2>1. /\ row[c] = "queued" /\ row' = [row EXCEPT ![c] = "running"]
        /\ <<l, c>> \in claiming /\ claiming' = claiming \ {<<l, c>>}
        /\ UNCHANGED <<lapsed, done>>
    BY <1>10 DEF Claim, Claimable, SetRow
  <2>2. \A b \in Commands \ {c} : Same(b)
    BY <2>1 DEF Same, Phoned, NodeTypeOK
  <2>3. ErrandState[c] \in {"open", "late"} /\ ErrandState'[c] = "taken"
    BY <1>2, <2>1 DEF Reading, Waiting, Phoned, NodeTypeOK
  <2>4. ErrandState' = [ErrandState EXCEPT ![c] = "taken"]
    BY <1>1, <2>2, <2>3, StateMoves
  <2>5. c \in Asked /\ Asked' \in {Asked, Asked \ {c}}
    BY <2>1 DEF Asked
  <2>6. E!Take(c)
    BY <2>1, <2>3, <2>4, <2>5 DEF E!Take, E!Goes
  <2>7. QED
    BY <2>6 DEF Promise, E!Next
<1>11. ASSUME NEW l \in Lives, NEW c \in Commands, Act(l, c) PROVE Promise
  <2>1. /\ done' = [done EXCEPT ![c] = @ + 1] /\ at[l][c] = "claimed"
        /\ UNCHANGED <<row, lapsed, claiming>>
    BY <1>11 DEF Act, Step
  <2>2. row[c] = "running" /\ done[c] = 0
    BY <2>1 DEF Phoned, Carriers, Carried, Deeds
  <2>3. ErrandState[c] = "taken"
    BY <1>2, <2>2 DEF Reading
  <2>4. \A b \in Commands : ErrandState'[b] = ErrandState[b]
    BY <1>1, <2>1, SameRead DEF Same
  <2>5. ErrandState' = ErrandState /\ Asked' = Asked
    BY <1>2, <2>1, <2>4 DEF Reading, Asked
  <2>6. done' = [done EXCEPT ![c] = 1]
    BY <2>1, <2>2 DEF Phoned, NodeTypeOK
  <2>7. E!Do(c)
    BY <2>2, <2>3, <2>5, <2>6 DEF E!Do
  <2>8. QED
    BY <2>7 DEF Promise, E!Next
<1>12. ASSUME NEW l \in Lives, NEW c \in Commands,
              Poll(l, c) \/ Save(l, c) \/ ClaimFails(l, c)
       PROVE  Promise
  BY <1>1, <1>12, NothingRead, AskedLess DEF Poll, Save, ClaimFails
<1>13. ASSUME NEW l \in Lives, Kill(l) PROVE Promise
  BY <1>1, <1>13, NothingRead, AskedLess DEF Kill
<1>14. CASE creating' \subseteq creating /\ claiming' \subseteq claiming
              /\ UNCHANGED <<row, lapsed, node, phone>>
  BY <1>1, <1>14, NothingRead, AskedLess
<1>15. QED
  BY <1>3, <1>4, <1>5, <1>6, <1>7, <1>8, <1>9, <1>10, <1>11, <1>12, <1>13, <1>14
  DEF NodeFate, NodeStep

\* The row of a command and the phone behave like the abstract errand: posted once, taken
\* once and by who asked in time, done once at most, and reported as it was, in spite of
\* lost and repeated messages, claims that wait for the database, kills of the
\* application, unpairing and restarts of the gateway.
THEOREM CommandsAreErrands == Spec => ImplementsErrand
<1>1. Init => E!Init
  <2> SUFFICES ASSUME Init PROVE E!Init
    OBVIOUS
  <2>1. Reading
    BY TypesInit, RowsAreRead DEF TypeOK
  <2>2. (\A c \in Commands : ErrandState[c] = "absent") /\ Asked = {}
    BY <2>1 DEF Reading, Init, NodeInit, Asked
  <2>3. QED
    BY <2>1, <2>2 DEF Reading, E!Init, Init, NodeInit
<1>2. Phoned /\ [Next]_vars => [E!Next]_(E!vars)
  BY TwoHalves, PromiseKept DEF Phoned, Promise
<1>3. QED
  BY <1>1, <1>2, AlwaysPhoned, PTL DEF Spec, ImplementsErrand, E!Spec

-----------------------------------------------------------------------------
(* Nothing is done that was not cleared.                                     *)

Permitted == \A c \in Invokes : c \in creating \/ row[c] # "none" => Cleared(c)

LEMMA ClearedForGood == BrokerTypeOK /\ BrokerStep => \A c \in Calls : Cleared(c) => Cleared(c)'
<1> SUFFICES ASSUME BrokerTypeOK, BrokerStep, NEW c \in Calls, Cleared(c)
             PROVE  stage'[c] = stage[c] /\ outcome'[c] = outcome[c]
  BY DEF Cleared
<1> USE DEF BrokerTypeOK, Cleared, Move
<1>1. ASSUME NEW b \in Calls, Run(b) \/ EndRun(b)
      PROVE  stage'[c] = stage[c] /\ outcome'[c] = outcome[c]
  BY <1>1 DEF Run, PassUnasked, RefuseUnattended, Ask, Obey, GiveUp, Forget, EndRun
<1>2. ASSUME NEW d \in Deciders, Decide(d)
      PROVE  stage'[c] = stage[c] /\ outcome'[c] = outcome[c]
  BY <1>2 DEF Decide, Take, Deliver
<1>3. QED
  BY <1>1, <1>2 DEF BrokerStep, BrokerNext, Restart, brokerVars

\* A command comes into being on the way from its handler, or from a client.
LEMMA PermittedNext == TypeOK /\ Permitted /\ [Next]_vars => Permitted'
<1> SUFFICES ASSUME TypeOK, Permitted, [Next]_vars, NEW c \in Invokes,
                    c \in creating' \/ row'[c] # "none"
             PROVE  Cleared(c)'
  BY DEF Permitted, Invokes
<1>0. c \in Calls /\ c \in Commands
  BY DEF Invokes
<1>1. Cleared(c) => Cleared(c)'
  BY <1>0, TwoHalves, ClearedForGood DEF TypeOK
<1>2. c \in creating \/ row[c] # "none" \/ Cleared(c)
  <2> USE <1>0 DEF TypeOK, NodeTypeOK, SetRow, node, server, requests, phone, nodeVars
  <2>1. ASSUME NEW b \in Commands, Invoke(b) \/ InsertInvoked(b) \/ Create(b) \/ ReadRow(b)
                                   \/ ShowQueued(b)
        PROVE  c \in creating \/ row[c] # "none" \/ Cleared(c)
    BY <2>1 DEF Invoke, InsertInvoked, Create, Direct, ReadRow, ShowQueued, Check, Insert
  <2>2. ASSUME NodeStep PROVE c \in creating \/ row[c] # "none" \/ Cleared(c)
    BY <2>2 DEF NodeStep, RegisterNode, DeleteDevice, Lapse, Finish, AskToClaim, BeginClaim, Claim,
                ClaimFails, Claimable, Poll, Act, Save, Kill
  <2>3. QED
    BY <2>1, <2>2 DEF Next, Restart, vars
<1>3. QED
  BY <1>1, <1>2 DEF Permitted

LEMMA AlwaysPermitted == Spec => []Permitted
<1>1. Init => Permitted
  BY DEF Init, NodeInit, Permitted, Invokes
<1>2. QED
  BY <1>1, PermittedNext, Types, PTL DEF Spec

\* Whatever an agent has a phone do was cleared first, by its policy or by the answer
\* of somebody who may decide, whichever way the run, the phone and the gateway fail.
THEOREM NothingUncleared == Spec => []DoneOnlyIfCleared
<1>1. Phoned /\ Permitted /\ Answered => DoneOnlyIfCleared
  <2> SUFFICES ASSUME Phoned, Permitted, Answered, NEW c \in Invokes, done[c] > 0,
                      outcome[c] # "unasked"
               PROVE  /\ outcome[c] = "approved"
                      /\ \E a \in accepted :
                            a.call = c /\ a.approved /\ <<a.by, c>> \in MayDecide
    BY DEF DoneOnlyIfCleared
  <2>1. c \in Calls /\ row[c] # "none"
    BY DEF Phoned, Unclaimed, NodeTypeOK, Invokes
  <2>2. outcome[c] = "approved"
    BY <2>1 DEF Permitted, Cleared
  <2>3. Said(c, TRUE)
    BY <2>1, <2>2 DEF Answered, Heard
  <2>4. QED
    BY <2>2, <2>3 DEF Said, Answered, Kept
<1>2. QED
  BY <1>1, AlwaysPhoned, AlwaysPermitted, AlwaysAnswered, PTL

-----------------------------------------------------------------------------
(* The agent is told the truth.                                              *)

\* Whoever still has a queued row in hand compares it with the time of then.
Truthful ==
    \A c \in Invokes :
        /\ told[c] \in Results \ {"expired"} => row[c] = told[c]
        /\ told[c] = "expired" => c \in lapsed \/ row[c] = "expired"

LEMMA FinalStays ==
  ASSUME Phoned, NodeFate, NEW c \in Commands
  PROVE  (row[c] \in Results => row'[c] = row[c]) /\ (c \in lapsed => c \in lapsed')
<1> DEFINE Goal == (row[c] \in Results => row'[c] = row[c]) /\ (c \in lapsed => c \in lapsed')
<1> USE DEF Phoned, NodeTypeOK, Results, SetRow, node, server, phone
<1>1. ASSUME NEW b \in Commands, Lapse(b) \/ Finish(b) \/ Check(b) \/ Insert(b) PROVE Goal
  BY <1>1 DEF Lapse, Finish, Check, Insert
<1>2. ASSUME NEW l \in Lives, NEW b \in Commands,
             \/ AskToClaim(l, b) \/ Claim(l, b) \/ ClaimFails(l, b)
             \/ Poll(l, b) \/ Act(l, b) \/ Save(l, b)
      PROVE  Goal
  BY <1>2 DEF AskToClaim, BeginClaim, Claim, ClaimFails, Claimable, Poll, Act, Save
<1>3. CASE RegisterNode \/ DeleteDevice \/ \E l \in Lives : Kill(l)
  BY <1>3 DEF RegisterNode, DeleteDevice, Kill
<1>4. QED
  BY <1>1, <1>2, <1>3 DEF NodeFate, NodeStep

LEMMA TruthfulNext == Phoned /\ TypeOK /\ Truthful /\ [Next]_vars => Truthful'
<1> SUFFICES ASSUME Phoned, TypeOK, Truthful, [Next]_vars, NEW c \in Invokes
             PROVE  /\ told'[c] \in Results \ {"expired"} => row'[c] = told'[c]
                    /\ told'[c] = "expired" => c \in lapsed' \/ row'[c] = "expired"
  BY DEF Truthful, Invokes
<1>0. c \in Commands /\ c \in Calls /\ row[c] \in Statuses
  BY DEF Invokes, TypeOK, NodeTypeOK
<1>1. (row[c] \in Results => row'[c] = row[c]) /\ (c \in lapsed => c \in lapsed')
  BY <1>0, TwoHalves, FinalStays DEF Phoned
<1>2. \/ told'[c] = told[c]
      \/ told'[c] = row[c]
      \/ told'[c] = "queued"
      \/ told'[c] = "expired" /\ c \in lapsed
  <2>1. ASSUME NEW b \in Commands, ReadRow(b) \/ ShowQueued(b)
        PROVE  \/ told'[c] = told[c] \/ told'[c] = row[c] \/ told'[c] = "queued"
               \/ told'[c] = "expired" /\ c \in lapsed
    BY <1>0, <2>1 DEF ReadRow, ShowQueued, TypeOK
  <2>2. told' = told \/ \E b \in Commands : ReadRow(b) \/ ShowQueued(b)
    BY DEF Next, Invoke, InsertInvoked, Create, Restart, turnVars, vars
  <2>3. QED
    BY <2>1, <2>2
<1>3. QED
  BY <1>0, <1>1, <1>2 DEF Truthful, Results

\* A final status of the row that an agent has read is true of the phone and never changes:
\* neither a late claim, nor a repeated request or result, nor an unpairing can belie it.
\* "expired" is true and final of the row, or the time of the command has passed.
THEOREM AgentKnows == Spec => []ToldTheTruth
<1>1. Phoned /\ TypeOK /\ Truthful => ToldTheTruth
  <2> SUFFICES ASSUME Phoned, Truthful, NEW c \in Invokes
               PROVE  /\ told[c] = "completed" => done[c] = 1
                      /\ told[c] = "declined" => done[c] = 0
                      /\ told[c] \in Results \ {"expired"} => row[c] = told[c]
                      /\ told[c] = "expired" => c \in lapsed \/ (row[c] = "expired" /\ done[c] = 0)
    BY DEF ToldTheTruth
  <2>1. c \in Commands
    BY DEF Invokes
  <2>2. row[c] \in {"completed", "declined", "expired"} =>
          saved[c] = row[c] \/ (row[c] = "expired" /\ done[c] = 0)
    BY <2>1 DEF Phoned, Final, Results
  <2>3. (row[c] = "completed" => done[c] = 1) /\ (row[c] \in {"declined", "expired"} => done[c] = 0)
    BY <2>1, <2>2 DEF Phoned, Deeds
  <2>4. QED
    BY <2>3 DEF Truthful, Results
<1>2. Init => Truthful
  BY DEF Init, Truthful, Invokes, Results
<1>3. Truthful /\ Phoned /\ TypeOK /\ [Next]_vars => Truthful'
  BY TruthfulNext
<1>4. QED
  BY <1>1, <1>2, <1>3, AlwaysPhoned, Types, PTL DEF Spec
=============================================================================
