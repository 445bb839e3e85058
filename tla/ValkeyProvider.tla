--------------------------- MODULE ValkeyProvider ---------------------------
(***************************************************************************)
(* internal/cache/valkey.go: the cache commands over an unreliable         *)
(* network.  withConn opens a connection of its own for every attempt,     *)
(* runs one command on it, closes it, and tries again after a timeout.  A  *)
(* command whose reply did not come in time may have been executed, may    *)
(* still be, or may be lost.  Connection set-up (dial, AUTH, SELECT) is    *)
(* one step, and so is writing a command: a command that is not written    *)
(* completely is not executed.                                             *)
(***************************************************************************)
EXTENDS Integers

CONSTANTS
    Callers,     \* goroutines using the provider
    Keys,
    Values,
    MaxRetries,  \* ValkeyConfig.MaxRetries, before normaliseDurations
    MaxCalls,    \* bound on the number of calls (model checking only)
    NoValue      \* an absent key

Commands == [cmd : {"GET", "DEL"}, key : Keys, val : {NoValue}]
            \cup [cmd : {"SET", "SETNX"}, key : Keys, val : Values]

\* What a call gives back: a payload, ErrCacheMiss, success, SetNX's two
\* answers, or an error.
Kinds == {"none", "value", "miss", "ok", "stored", "exists", "error"}
Answers == [kind : Kinds, val : Values \cup {NoValue}]

ASSUME ValkeyAssumption ==
    /\ MaxRetries \in Int
    /\ MaxCalls \in Nat
    /\ NoValue \notin Values

VARIABLES
    data,       \* what the server holds
    wire,       \* commands on their way to the server
    replies,    \* replies on their way back, on connections still open
    pc,         \* pc[c]: "idle", "attempt", "read" or "backoff"
    op,         \* op[c]: the command of the call
    issued,     \* how many calls have been made
    call,       \* call[c]: which of them is c's latest
    attempt,    \* attempt[c]: withConn's loop counter
    cancelled,  \* callers whose context is done
    ret,        \* ret[c]: what the last call returned
    seen,       \* seen[c]: values the key has had since the call began (history)
    applied     \* applied[c]: answers of the executions of this call (history)

vars == <<data, wire, replies, pc, op, issued, call, attempt, cancelled, ret, seen, applied>>

\* normaliseDurations and withConn both turn a non-positive number into 1.
Attempts == IF MaxRetries <= 0 THEN 1 ELSE MaxRetries

Nothing == [kind |-> "none", val |-> NoValue]
Failure == [kind |-> "error", val |-> NoValue]

Init ==
    /\ data = [k \in Keys |-> NoValue]
    /\ wire = {}
    /\ replies = {}
    /\ pc = [c \in Callers |-> "idle"]
    /\ op = [c \in Callers |-> NoValue]
    /\ issued = 0
    /\ call = [c \in Callers |-> 0]
    /\ attempt = [c \in Callers |-> 0]
    /\ cancelled = {}
    /\ ret = [c \in Callers |-> Nothing]
    /\ seen = [c \in Callers |-> {}]
    /\ applied = [c \in Callers |-> {}]

\* Every attempt of every call has a connection of its own.
Conn(c) == [by |-> c, call |-> call[c], attempt |-> attempt[c]]

\* Fault: the caller's connection is kept open and used again.
BelongsPooled(conn, c) == conn.by = c

\* The connection is the one caller c reads from.
Belongs(conn, c) == conn = Conn(c)

Open(conn) == pc[conn.by] = "read" /\ Belongs(conn, conn.by)

\* The call ends; vc.close() drops what was still to be read.
Return(c, answer) ==
    /\ pc' = [pc EXCEPT ![c] = "idle"]
    /\ ret' = [ret EXCEPT ![c] = answer]
    /\ UNCHANGED attempt

-----------------------------------------------------------------------------
(* The caller *)

\* Get, Set, SetNX or Del is called.
Call(c, o) ==
    /\ pc[c] = "idle"
    /\ issued < MaxCalls
    /\ issued' = issued + 1
    /\ op' = [op EXCEPT ![c] = o]
    /\ call' = [call EXCEPT ![c] = issued + 1]
    /\ attempt' = [attempt EXCEPT ![c] = 0]
    /\ cancelled' = cancelled \ {c}
    /\ ret' = [ret EXCEPT ![c] = Nothing]
    /\ seen' = [seen EXCEPT ![c] = {data[o.key]}]
    /\ applied' = [applied EXCEPT ![c] = {}]
    /\ pc' = [pc EXCEPT ![c] = "attempt"]
    /\ UNCHANGED <<data, wire, replies>>

\* ctx.Err() at the head of the loop.
GiveUp(c) ==
    /\ pc[c] = "attempt"
    /\ c \in cancelled
    /\ Return(c, Failure)
    /\ UNCHANGED <<data, wire, replies, op, issued, call, cancelled, seen, applied>>

\* Fault: the loop runs once too often.
AgainOnceMore(c) ==
    IF attempt[c] < Attempts
    THEN pc' = [pc EXCEPT ![c] = "backoff"] /\ UNCHANGED <<attempt, ret>>
    ELSE Return(c, Failure)

\* Fault: a timeout does not use up an attempt.
AgainForever(c) == pc' = [pc EXCEPT ![c] = "attempt"] /\ UNCHANGED <<attempt, ret>>

\* A retryable error: back off if an attempt is left, else return it.
Again(c) ==
    IF attempt[c] < Attempts - 1
    THEN pc' = [pc EXCEPT ![c] = "backoff"] /\ UNCHANGED <<attempt, ret>>
    ELSE Return(c, Failure)

\* dial, bootstrap or the write fails, with a timeout or for good.
ConnectFails(c) ==
    /\ pc[c] = "attempt"
    /\ c \notin cancelled
    /\ Again(c) \/ Return(c, Failure)
    /\ UNCHANGED <<data, wire, replies, op, issued, call, cancelled, seen, applied>>

\* The command is written.
Send(c) ==
    /\ pc[c] = "attempt"
    /\ c \notin cancelled
    /\ wire' = wire \cup {[conn |-> Conn(c), op |-> op[c]]}
    /\ pc' = [pc EXCEPT ![c] = "read"]
    /\ UNCHANGED <<data, replies, op, issued, call, attempt, cancelled, ret, seen, applied>>

\* readReply gives a reply, an error reply of the server included: neither is
\* tried again.
Receive(c) ==
    /\ pc[c] = "read"
    /\ \E m \in replies :
          /\ Belongs(m.conn, c)
          /\ Return(c, m.answer)
          /\ replies' = replies \ {m}
    /\ UNCHANGED <<data, wire, op, issued, call, cancelled, seen, applied>>

\* The read deadline passes, or the connection breaks for good.
NoReply(c) ==
    /\ pc[c] = "read"
    /\ Again(c) \/ Return(c, Failure)
    /\ replies' = {m \in replies : ~Belongs(m.conn, c)}
    /\ UNCHANGED <<data, wire, op, issued, call, cancelled, seen, applied>>

\* time.Sleep(backoff(attempt)) is over.
Wake(c) ==
    /\ pc[c] = "backoff"
    /\ attempt' = [attempt EXCEPT ![c] = @ + 1]
    /\ pc' = [pc EXCEPT ![c] = "attempt"]
    /\ UNCHANGED <<data, wire, replies, op, issued, call, cancelled, ret, seen, applied>>

Cancel(c) ==
    /\ pc[c] # "idle"
    /\ c \notin cancelled
    /\ cancelled' = cancelled \cup {c}
    /\ UNCHANGED <<data, wire, replies, pc, op, issued, call, attempt, ret, seen, applied>>

-----------------------------------------------------------------------------
(* The server and the network *)

Answer(o) ==
    CASE o.cmd = "GET" -> [kind |-> IF data[o.key] = NoValue THEN "miss" ELSE "value",
                           val |-> data[o.key]]
      [] o.cmd = "SETNX" -> [kind |-> IF data[o.key] = NoValue THEN "stored" ELSE "exists",
                             val |-> NoValue]
      [] OTHER -> [kind |-> "ok", val |-> NoValue]

Effect(o) ==
    CASE o.cmd = "SET" \/ (o.cmd = "SETNX" /\ data[o.key] = NoValue) -> o.val
      [] o.cmd = "DEL" -> NoValue
      [] OTHER -> data[o.key]

\* Key k gets value v; the calls in progress on it have seen it.
Put(k, v) ==
    /\ data' = [data EXCEPT ![k] = v]
    /\ seen' = [c \in Callers |->
                  IF pc[c] # "idle" /\ op[c].key = k THEN seen[c] \cup {v} ELSE seen[c]]

Reply(m, answer) ==
    replies' = IF Open(m.conn) THEN replies \cup {[conn |-> m.conn, answer |-> answer]}
               ELSE replies

\* The server executes a command, however late; the reply reaches an open
\* connection only.
Execute(m) ==
    /\ m \in wire
    /\ wire' = wire \ {m}
    /\ Put(m.op.key, Effect(m.op))
    /\ Reply(m, Answer(m.op))
    /\ applied' = IF m.conn.call = call[m.conn.by] /\ pc[m.conn.by] # "idle"
                  THEN [applied EXCEPT ![m.conn.by] = @ \cup {Answer(m.op)}]
                  ELSE applied
    /\ UNCHANGED <<pc, op, issued, call, attempt, cancelled, ret>>

\* The server answers with an error and does nothing.
Refuse(m) ==
    /\ m \in wire
    /\ wire' = wire \ {m}
    /\ Reply(m, Failure)
    /\ UNCHANGED <<data, pc, op, issued, call, attempt, cancelled, ret, seen, applied>>

Lose(m) ==
    /\ m \in wire
    /\ wire' = wire \ {m}
    /\ UNCHANGED <<data, replies, pc, op, issued, call, attempt, cancelled, ret, seen, applied>>

\* A time to live ends.
Expire(k) ==
    /\ data[k] # NoValue
    /\ Put(k, NoValue)
    /\ UNCHANGED <<wire, replies, pc, op, issued, call, attempt, cancelled, ret, applied>>

-----------------------------------------------------------------------------

Step(c) == GiveUp(c) \/ ConnectFails(c) \/ Send(c) \/ Receive(c) \/ NoReply(c) \/ Wake(c)

Next ==
    \/ \E c \in Callers : \E o \in Commands : Call(c, o)
    \/ \E c \in Callers : Step(c)
    \/ \E c \in Callers : Cancel(c)
    \/ \E m \in wire : Execute(m) \/ Refuse(m) \/ Lose(m)
    \/ \E k \in Keys : Expire(k)

Spec == Init /\ [][Next]_vars

\* Dialling, writing, reading and sleeping all have a deadline.
FairSpec == Spec /\ \A c \in Callers : WF_vars(Step(c))

-----------------------------------------------------------------------------
(* Properties *)

Messages == [conn : [by : Callers, call : Nat, attempt : Nat], op : Commands]

\* The types; the loop counter stays below the number of attempts allowed.
TypeOK ==
    /\ data \in [Keys -> Values \cup {NoValue}]
    /\ wire \subseteq Messages
    /\ pc \in [Callers -> {"idle", "attempt", "read", "backoff"}]
    /\ op \in [Callers -> Commands \cup {NoValue}]
    /\ issued \in Nat
    /\ call \in [Callers -> Nat]
    /\ attempt \in [Callers -> 0..(Attempts - 1)]
    /\ cancelled \subseteq Callers
    /\ ret \in [Callers -> Answers]

\* A Get that returns a payload or a miss returns what the key held at some
\* moment of the call itself: no reply of an earlier attempt's or an earlier
\* call's connection is taken for this one's.
GetIsCurrent ==
    \A c \in Callers : ret[c].kind \in {"value", "miss"} =>
        op[c].cmd = "GET" /\ ret[c].val \in seen[c]

\* A Set or a Del that reports success was executed while it ran, and a SetNX
\* that reports true then found the key absent and stored its value.
SuccessWasExecuted ==
    \A c \in Callers : ret[c].kind \in {"ok", "stored"} => ret[c] \in applied[c]

\* Every call returns, although the server may never answer.
EveryCallReturns == \A c \in Callers : (pc[c] # "idle") ~> (pc[c] = "idle")

=============================================================================
