------------------------ MODULE ValkeyProviderProofs ------------------------
(***************************************************************************)
(* Proofs about ValkeyProvider, for any callers, keys and values, any      *)
(* number of retries and of calls.                                         *)
(***************************************************************************)
EXTENDS ValkeyProvider, TLAPS

Conns == [by : Callers, call : Nat, attempt : Nat]

\* The types of what TypeOK leaves out.
HistoryTypes ==
    /\ replies \subseteq [conn : Conns, answer : Answers]
    /\ seen \in [Callers -> SUBSET (Values \cup {NoValue})]
    /\ applied \in [Callers -> SUBSET Answers]

\* A backoff is followed by an attempt that is allowed.
AttemptLeft == \A c \in Callers : pc[c] = "backoff" => attempt[c] < Attempts - 1

\* Calls are numbered in the order they are made, so that a connection of an
\* earlier call is told apart from those of the latest one.
Numbered ==
    /\ \A c \in Callers : call[c] <= issued
    /\ \A m \in wire : m.conn.call <= call[m.conn.by]
    /\ \A m \in replies : m.conn.call <= call[m.conn.by]

\* A call in progress has seen what its key holds now.
SeesPresent ==
    \A c \in Callers : pc[c] # "idle" => op[c] \in Commands /\ data[op[c].key] \in seen[c]

\* The connections of a caller's latest call carry that call's command.
WireIsCall ==
    \A m \in wire : m.conn.call = call[m.conn.by] => m.op = op[m.conn.by]

\* What an answer says is true of the call of caller c.
TrueOf(c, answer) ==
    /\ answer.kind \in {"value", "miss"} => op[c].cmd = "GET" /\ answer.val \in seen[c]
    /\ answer.kind \in {"ok", "stored"} => answer \in applied[c]

\* So is a reply on its way to the latest call, whichever of its attempts it
\* answers, and what the last call returned.
RepliesTrue ==
    \A m \in replies : m.conn.call = call[m.conn.by] => TrueOf(m.conn.by, m.answer)
ReturnsTrue == \A c \in Callers : TrueOf(c, ret[c])

IInv ==
    /\ TypeOK /\ HistoryTypes /\ AttemptLeft /\ Numbered
    /\ SeesPresent /\ WireIsCall /\ RepliesTrue /\ ReturnsTrue

\* At least one attempt is made.
LEMMA AttemptsPositive == Attempts \in Nat /\ Attempts >= 1
BY ValkeyAssumption DEF Attempts

\* What the server answers to a command and what it leaves in the key have their
\* types, a Get's answer is what the key holds, and no other command answers like
\* a Get.
LEMMA ServerAnswers ==
    ASSUME data \in [Keys -> Values \cup {NoValue}], NEW o \in Commands
    PROVE  /\ o.key \in Keys
           /\ Effect(o) \in Values \cup {NoValue}
           /\ Answer(o) \in Answers
           /\ Answer(o).kind \in {"value", "miss"} => o.cmd = "GET" /\ Answer(o).val = data[o.key]
<1>1. o.key \in Keys /\ o.cmd \in {"GET", "DEL", "SET", "SETNX"} /\ o.val \in Values \cup {NoValue}
  BY DEF Commands
<1>2. Effect(o) \in Values \cup {NoValue}
  BY <1>1 DEF Effect
<1>3. CASE o.cmd = "GET"
  BY <1>1, <1>2, <1>3 DEF Answer, Answers, Kinds
<1>4. CASE o.cmd = "SETNX"
  BY <1>1, <1>2, <1>4 DEF Answer, Answers, Kinds
<1>5. CASE o.cmd \in {"SET", "DEL"}
  BY <1>1, <1>2, <1>5 DEF Answer, Answers, Kinds
<1> QED
  BY <1>1, <1>3, <1>4, <1>5

\* Nothing has been sent before the first call.
LEMMA InitIInv == Init => IInv
<1> SUFFICES ASSUME Init PROVE IInv
    OBVIOUS
<1> USE ValkeyAssumption, AttemptsPositive DEF Init
<1>1. Nothing \in Answers /\ Nothing.kind = "none"
  BY DEF Nothing, Answers, Kinds
<1>2. TypeOK /\ HistoryTypes
  BY <1>1 DEF TypeOK, HistoryTypes
<1>3. AttemptLeft /\ Numbered /\ SeesPresent /\ WireIsCall /\ RepliesTrue
  BY DEF AttemptLeft, Numbered, SeesPresent, WireIsCall, RepliesTrue
<1>4. ReturnsTrue
  BY <1>1 DEF ReturnsTrue, TrueOf
<1> QED
  BY <1>2, <1>3, <1>4 DEF IInv

\* A step that ends an attempt keeps the invariant: by a backoff or by an answer
\* that is true of the call, while replies may be dropped.
LEMMA EndOfAttempt ==
    ASSUME IInv, NEW c \in Callers, pc[c] # "idle",
           replies' \subseteq replies,
           UNCHANGED <<data, wire, op, issued, call, cancelled, seen, applied>>,
           Again(c) \/ \E a \in Answers : TrueOf(c, a) /\ Return(c, a)
    PROVE  IInv'
<1> USE ValkeyAssumption, AttemptsPositive DEF IInv
<1>1. Failure \in Answers /\ TrueOf(c, Failure)
  BY DEF Failure, Answers, Kinds, TrueOf
<1>2. CASE \E a \in Answers : TrueOf(c, a) /\ Return(c, a)
  <2>1. PICK a \in Answers : TrueOf(c, a) /\ Return(c, a)
    BY <1>2
  <2>2. TypeOK' /\ HistoryTypes' /\ AttemptLeft'
    BY <2>1 DEF TypeOK, HistoryTypes, AttemptLeft, Return
  <2>3. Numbered' /\ SeesPresent' /\ WireIsCall'
    BY <2>1 DEF TypeOK, Numbered, SeesPresent, WireIsCall, Return
  <2>4. RepliesTrue'
    BY DEF RepliesTrue, TrueOf
  <2>5. ReturnsTrue'
    BY <2>1 DEF TypeOK, ReturnsTrue, TrueOf, Return
  <2> QED
    BY <2>2, <2>3, <2>4, <2>5
<1>3. CASE /\ attempt[c] < Attempts - 1
           /\ pc' = [pc EXCEPT ![c] = "backoff"] /\ UNCHANGED <<attempt, ret>>
  <2>1. TypeOK' /\ HistoryTypes' /\ AttemptLeft'
    BY <1>3 DEF TypeOK, HistoryTypes, AttemptLeft
  <2>2. Numbered' /\ SeesPresent' /\ WireIsCall'
    BY <1>3 DEF TypeOK, Numbered, SeesPresent, WireIsCall
  <2>3. RepliesTrue' /\ ReturnsTrue'
    BY <1>3 DEF RepliesTrue, ReturnsTrue, TrueOf
  <2> QED
    BY <2>1, <2>2, <2>3
<1> QED
  BY <1>1, <1>2, <1>3 DEF Again

\* Get, Set, SetNX and Del: what is still under way belongs to earlier calls.
LEMMA CallKeeps ==
    ASSUME IInv, NEW c \in Callers, NEW o \in Commands, Call(c, o)
    PROVE  IInv'
<1> USE ValkeyAssumption, AttemptsPositive DEF IInv
<1>1. data[o.key] \in Values \cup {NoValue}
  BY ServerAnswers DEF TypeOK
<1>2. Nothing \in Answers /\ Nothing.kind = "none"
  BY DEF Nothing, Answers, Kinds
<1>3. TypeOK' /\ HistoryTypes' /\ AttemptLeft'
  BY <1>1, <1>2 DEF Call, TypeOK, HistoryTypes, AttemptLeft
<1>4. /\ \A m \in wire : m.conn.by \in Callers /\ m.conn.call \in Nat
      /\ \A m \in replies : m.conn.by \in Callers /\ m.conn.call \in Nat
  BY DEF TypeOK, HistoryTypes, Messages, Conns
<1>5. Numbered'
  BY <1>4 DEF Call, TypeOK, Numbered
<1>6. SeesPresent'
  BY DEF Call, TypeOK, HistoryTypes, SeesPresent
<1>7. \A d \in Callers : d # c => /\ call'[d] = call[d] /\ op'[d] = op[d] /\ seen'[d] = seen[d]
                                 /\ applied'[d] = applied[d] /\ ret'[d] = ret[d]
  BY DEF Call, TypeOK, HistoryTypes
<1>8. \A m \in wire \cup replies : m.conn.by = c => m.conn.call # call'[c]
  BY <1>4 DEF Call, TypeOK, Numbered
<1>9. WireIsCall' /\ RepliesTrue'
  BY <1>4, <1>7, <1>8 DEF Call, WireIsCall, RepliesTrue, TrueOf
<1>10. ReturnsTrue'
  BY <1>2, <1>7 DEF Call, TypeOK, ReturnsTrue, TrueOf
<1> QED
  BY <1>3, <1>5, <1>6, <1>9, <1>10

\* The command goes out on a connection of its own.
LEMMA SendKeeps ==
    ASSUME IInv, NEW c \in Callers, Send(c)
    PROVE  IInv'
<1> USE ValkeyAssumption, AttemptsPositive DEF IInv
<1> DEFINE m == [conn |-> Conn(c), op |-> op[c]]
<1>1. op[c] \in Commands
  BY DEF SeesPresent, Send
<1>2. m \in Messages /\ m.conn.by = c /\ m.conn.call = call[c] /\ m.op = op[c]
  BY <1>1 DEF Conn, Messages, TypeOK
<1>3. wire' = wire \cup {m}
  BY DEF Send
<1> HIDE DEF m
<1>4. TypeOK' /\ HistoryTypes' /\ AttemptLeft'
  BY <1>2, <1>3 DEF Send, TypeOK, HistoryTypes, AttemptLeft
<1>5. Numbered'
  BY <1>2, <1>3 DEF Send, TypeOK, Numbered
<1>6. SeesPresent'
  BY DEF Send, TypeOK, SeesPresent
<1>7. WireIsCall'
  BY <1>2, <1>3 DEF Send, WireIsCall
<1>8. RepliesTrue' /\ ReturnsTrue'
  BY DEF Send, RepliesTrue, ReturnsTrue, TrueOf
<1> QED
  BY <1>4, <1>5, <1>6, <1>7, <1>8

\* A change of a key leaves every call in progress with the key's value seen.
LEMMA PutKeeps ==
    ASSUME IInv, NEW k \in Keys, NEW v \in Values \cup {NoValue}, Put(k, v), UNCHANGED <<pc, op>>
    PROVE  /\ data' \in [Keys -> Values \cup {NoValue}]
           /\ seen' \in [Callers -> SUBSET (Values \cup {NoValue})]
           /\ \A c \in Callers : seen[c] \subseteq seen'[c]
           /\ SeesPresent'
<1> USE DEF IInv
<1>1. data' \in [Keys -> Values \cup {NoValue}]
  BY DEF Put, TypeOK
<1>2. seen' \in [Callers -> SUBSET (Values \cup {NoValue})]
  BY DEF Put, HistoryTypes
<1>3. \A c \in Callers : seen[c] \subseteq seen'[c]
  BY DEF Put
<1>4. ASSUME NEW c \in Callers, pc[c] # "idle"
      PROVE  op[c] \in Commands /\ data'[op[c].key] \in seen'[c]
  <2>1. op[c] \in Commands /\ data[op[c].key] \in seen[c]
    BY <1>4 DEF SeesPresent
  <2>2. op[c].key \in Keys
    BY <2>1 DEF Commands
  <2>3. CASE op[c].key = k
    BY <2>1, <2>3, <1>4 DEF Put, TypeOK
  <2>4. CASE op[c].key # k
    BY <2>1, <2>2, <2>4, <1>3 DEF Put, TypeOK
  <2> QED
    BY <2>1, <2>3, <2>4
<1> QED
  BY <1>1, <1>2, <1>3, <1>4 DEF SeesPresent

\* A step of the server or of the network keeps the invariant when the histories
\* only grow and a new reply is true of the call it goes to.
LEMMA ServerStep ==
    ASSUME IInv, wire' \subseteq wire,
           UNCHANGED <<pc, op, issued, call, attempt, cancelled, ret>>,
           data' \in [Keys -> Values \cup {NoValue}],
           seen' \in [Callers -> SUBSET (Values \cup {NoValue})],
           applied' \in [Callers -> SUBSET Answers],
           \A c \in Callers : seen[c] \subseteq seen'[c] /\ applied[c] \subseteq applied'[c],
           SeesPresent',
           \A r \in replies' \ replies :
               /\ r \in [conn : Conns, answer : Answers]
               /\ r.conn.call <= call[r.conn.by]
               /\ TrueOf(r.conn.by, r.answer)'
    PROVE  IInv'
<1> USE DEF IInv
<1>1. TypeOK' /\ HistoryTypes'
  BY DEF TypeOK, HistoryTypes
<1>2. AttemptLeft' /\ WireIsCall'
  BY DEF AttemptLeft, WireIsCall
<1>3. Numbered'
  BY DEF Numbered
<1>4. \A c \in Callers, a \in Answers : TrueOf(c, a) => TrueOf(c, a)'
  BY DEF TrueOf
<1>5. \A m \in replies : m.conn.by \in Callers /\ m.answer \in Answers
  BY DEF HistoryTypes, Conns
<1>6. RepliesTrue'
  <2> SUFFICES ASSUME NEW m \in replies', m.conn.call = call[m.conn.by]
               PROVE  TrueOf(m.conn.by, m.answer)'
      BY DEF RepliesTrue
  <2>1. CASE m \in replies
    BY <2>1, <1>4, <1>5 DEF RepliesTrue
  <2> QED
    BY <2>1
<1>7. ReturnsTrue'
  <2> SUFFICES ASSUME NEW c \in Callers PROVE TrueOf(c, ret[c])'
      BY DEF ReturnsTrue
  <2>1. ret[c] \in Answers /\ TrueOf(c, ret[c])
    BY DEF ReturnsTrue, TypeOK
  <2> QED
    BY <2>1, <1>4 DEF TrueOf
<1> QED
  BY <1>1, <1>2, <1>3, <1>6, <1>7

\* A command is executed, perhaps long after its call has gone on or ended.
LEMMA ExecuteKeeps ==
    ASSUME IInv, NEW m \in wire, Execute(m)
    PROVE  IInv'
<1> DEFINE c == m.conn.by
           a == Answer(m.op)
<1>1. m.conn \in Conns /\ m.op \in Commands /\ c \in Callers
  BY DEF IInv, TypeOK, Messages, Conns
<1>2. /\ m.op.key \in Keys /\ Effect(m.op) \in Values \cup {NoValue} /\ a \in Answers
      /\ a.kind \in {"value", "miss"} => m.op.cmd = "GET" /\ a.val = data[m.op.key]
  BY <1>1, ServerAnswers DEF IInv, TypeOK
<1>3. /\ data' \in [Keys -> Values \cup {NoValue}]
      /\ seen' \in [Callers -> SUBSET (Values \cup {NoValue})]
      /\ \A d \in Callers : seen[d] \subseteq seen'[d]
      /\ SeesPresent'
  BY <1>2, PutKeeps DEF Execute
<1>4. applied' \in [Callers -> SUBSET Answers] /\ \A d \in Callers : applied[d] \subseteq applied'[d]
  BY <1>1, <1>2 DEF Execute, IInv, HistoryTypes
<1>5. ASSUME NEW r \in replies' \ replies
      PROVE  /\ r \in [conn : Conns, answer : Answers]
             /\ r.conn.call <= call[r.conn.by]
             /\ TrueOf(r.conn.by, r.answer)'
  <2>1. Open(m.conn) /\ r = [conn |-> m.conn, answer |-> a]
    BY <1>5 DEF Execute, Reply
  <2>2. pc[c] = "read" /\ m.conn.call = call[c]
    BY <2>1 DEF Open, Belongs, Conn
  <2>3. m.op = op[c] /\ data[m.op.key] \in seen[c]
    BY <1>1, <2>2 DEF IInv, WireIsCall, SeesPresent
  <2>4. a \in applied'[c]
    BY <1>1, <2>2 DEF Execute, IInv, HistoryTypes
  <2>5. op' = op /\ r.conn.by = c /\ r.answer = a
    BY <2>1 DEF Execute
  <2>6. /\ r.answer.kind \in {"value", "miss"} => op'[c].cmd = "GET" /\ r.answer.val \in seen'[c]
        /\ r.answer \in applied'[c]
    BY <1>1, <1>2, <1>3, <2>3, <2>4, <2>5
  <2>7. TrueOf(r.conn.by, r.answer)'
    BY <2>5, <2>6 DEF TrueOf
  <2> QED
    BY <1>1, <1>2, <2>1, <2>2, <2>7 DEF IInv, TypeOK
<1> QED
  BY <1>3, <1>4, <1>5, ServerStep DEF Execute

\* An error reply changes nothing and claims nothing.
LEMMA RefuseKeeps ==
    ASSUME IInv, NEW m \in wire, Refuse(m)
    PROVE  IInv'
<1>1. m.conn \in Conns /\ Failure \in Answers /\ Failure.kind = "error"
  BY DEF IInv, TypeOK, Messages, Conns, Failure, Answers, Kinds
<1>2. ASSUME NEW r \in replies' \ replies
      PROVE  /\ r \in [conn : Conns, answer : Answers]
             /\ r.conn.call <= call[r.conn.by]
             /\ TrueOf(r.conn.by, r.answer)'
  <2>1. r = [conn |-> m.conn, answer |-> Failure]
    BY <1>2 DEF Refuse, Reply
  <2>2. TrueOf(r.conn.by, r.answer)'
    BY <1>1, <2>1 DEF TrueOf
  <2>3. m.conn.call <= call[m.conn.by]
    BY DEF IInv, Numbered
  <2> QED
    BY <1>1, <2>1, <2>2, <2>3
<1>3. SeesPresent'
  BY DEF Refuse, IInv, SeesPresent
<1> QED
  BY <1>2, <1>3, ServerStep DEF Refuse, IInv, TypeOK, HistoryTypes

\* Every step keeps the invariant.
LEMMA StepIInv == IInv /\ [Next]_vars => IInv'
<1> SUFFICES ASSUME IInv, [Next]_vars PROVE IInv'
    OBVIOUS
<1>1. \A c \in Callers : Failure \in Answers /\ TrueOf(c, Failure)
  BY DEF Failure, Answers, Kinds, TrueOf
<1>2. ASSUME NEW c \in Callers, NEW o \in Commands, Call(c, o) PROVE IInv'
  BY <1>2, CallKeeps
<1>3. ASSUME NEW c \in Callers, GiveUp(c) PROVE IInv'
  BY <1>3, <1>1, EndOfAttempt DEF GiveUp
<1>4. ASSUME NEW c \in Callers, ConnectFails(c) PROVE IInv'
  BY <1>4, <1>1, EndOfAttempt DEF ConnectFails
<1>5. ASSUME NEW c \in Callers, Send(c) PROVE IInv'
  BY <1>5, SendKeeps
<1>6. ASSUME NEW c \in Callers, Receive(c) PROVE IInv'
  <2>1. PICK m \in replies : Belongs(m.conn, c) /\ Return(c, m.answer) /\ replies' = replies \ {m}
    BY <1>6 DEF Receive
  <2>2. m.answer \in Answers
    BY DEF IInv, HistoryTypes
  <2>3. m.conn.by = c /\ m.conn.call = call[c]
    BY <2>1 DEF Belongs, Conn
  <2>4. TrueOf(c, m.answer)
    BY <2>3 DEF IInv, RepliesTrue
  <2> QED
    BY <1>6, <2>1, <2>2, <2>4, EndOfAttempt DEF Receive
<1>7. ASSUME NEW c \in Callers, NoReply(c) PROVE IInv'
  <2>1. pc[c] # "idle" /\ replies' \subseteq replies
    BY <1>7 DEF NoReply
  <2> QED
    BY <1>7, <1>1, <2>1, EndOfAttempt DEF NoReply
<1>8. ASSUME NEW c \in Callers, Wake(c) PROVE IInv'
  <2>1. TypeOK' /\ HistoryTypes' /\ AttemptLeft'
    BY <1>8, AttemptsPositive DEF Wake, IInv, TypeOK, HistoryTypes, AttemptLeft
  <2>2. Numbered' /\ SeesPresent' /\ WireIsCall'
    BY <1>8 DEF Wake, IInv, TypeOK, Numbered, SeesPresent, WireIsCall
  <2>3. RepliesTrue' /\ ReturnsTrue'
    BY <1>8 DEF Wake, IInv, RepliesTrue, ReturnsTrue, TrueOf
  <2> QED
    BY <2>1, <2>2, <2>3 DEF IInv
<1>9. ASSUME NEW c \in Callers, Cancel(c) PROVE IInv'
  BY <1>9 DEF Cancel, IInv, TypeOK, HistoryTypes, AttemptLeft, Numbered, SeesPresent,
              WireIsCall, RepliesTrue, ReturnsTrue, TrueOf
<1>10. ASSUME NEW m \in wire, Execute(m) PROVE IInv'
  BY <1>10, ExecuteKeeps
<1>11. ASSUME NEW m \in wire, Refuse(m) PROVE IInv'
  BY <1>11, RefuseKeeps
<1>12. ASSUME NEW m \in wire, Lose(m) PROVE IInv'
  <2>1. SeesPresent'
    BY <1>12 DEF Lose, IInv, SeesPresent
  <2> QED
    BY <1>12, <2>1, ServerStep DEF Lose, IInv, TypeOK, HistoryTypes
<1>13. ASSUME NEW k \in Keys, Expire(k) PROVE IInv'
  <2>1. /\ data' \in [Keys -> Values \cup {NoValue}]
        /\ seen' \in [Callers -> SUBSET (Values \cup {NoValue})]
        /\ \A c \in Callers : seen[c] \subseteq seen'[c]
        /\ SeesPresent'
    BY <1>13, PutKeeps DEF Expire
  <2> QED
    BY <1>13, <2>1, ServerStep DEF Expire, IInv, HistoryTypes
<1>14. CASE UNCHANGED vars
  BY <1>14 DEF vars, IInv, TypeOK, HistoryTypes, AttemptLeft, Numbered, SeesPresent,
               WireIsCall, RepliesTrue, ReturnsTrue, TrueOf
<1> QED
  BY <1>2, <1>3, <1>4, <1>5, <1>6, <1>7, <1>8, <1>9, <1>10, <1>11, <1>12, <1>13, <1>14
     DEF Next, Step

\* The inductive invariant holds of every behaviour.
LEMMA IInvHolds == Spec => []IInv
BY InitIInv, StepIInv, PTL DEF Spec

\* Every variable keeps its type and withConn's loop counter stays below the
\* number of attempts, for every MaxRetries, negative ones included.
THEOREM TypeCorrect == Spec => []TypeOK
BY IInvHolds, PTL DEF IInv

\* Whatever is lost, delayed or executed after its caller gave up, a Get returns a
\* value its key had during the call.
THEOREM GetCurrent == Spec => []GetIsCurrent
<1>1. IInv => GetIsCurrent
  BY DEF IInv, ReturnsTrue, TrueOf, GetIsCurrent
<1> QED
  BY <1>1, IInvHolds, PTL

\* A Set, Del or SetNX that reports success was executed during the call, whichever
\* attempt the reply answers.
THEOREM SuccessExecuted == Spec => []SuccessWasExecuted
<1>1. IInv => SuccessWasExecuted
  BY DEF IInv, ReturnsTrue, TrueOf, SuccessWasExecuted
<1> QED
  BY <1>1, IInvHolds, PTL

=============================================================================
