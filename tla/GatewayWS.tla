------------------------------ MODULE GatewayWS ------------------------------
(***************************************************************************)
(* The node's client of its gateway: internal/node/gateway_ws_client.go.   *)
(*                                                                         *)
(* Every forwarded message is a SendMessage of its own, in a goroutine of  *)
(* its own, and there is one reader of the connection.  A call draws a     *)
(* number, enters `pending', writes its request and waits for the answer   *)
(* with that number; the answer names a run, the caller enters `runs' and  *)
(* waits for the run's events.  Numbers are drawn, and the connection is   *)
(* written to, without a lock.                                             *)
(*                                                                         *)
(* The connection is dialled while the node starts, or by the first caller *)
(* when that failed; others are taken to arrive when nobody dials.  It is  *)
(* dialled when it is nil only, so one that is lost is never replaced.     *)
(*                                                                         *)
(* The gateway is external.  It answers requests in any order, or refuses  *)
(* them.  Two requests with the same idempotency key get the same run,     *)
(* which it executes once: it speaks, then it ends.  A run is named by its *)
(* message.                                                                *)
(***************************************************************************)
EXTENDS Naturals, Sequences, Maps

CONSTANTS
    Callers,    \* the calls of SendMessage, each a goroutine
    Boot,       \* ConnectAndLog, before the node's handler listens
    Reader,     \* readLoop
    Messages    \* what calls may be about; a retry is the same message again

ASSUME GatewayAssumption ==
    /\ Boot \notin Callers \cup {Reader} /\ Reader \notin Callers
    /\ Messages \cap {"empty", "refused", "hello", "connect"} = {}

VARIABLES
    conn,       \* WSGatewayClient.conn: nil, open, or dead but not nil
    ready,      \* its channel ready is closed
    seq,        \* its number of requests
    pending,    \* its map pending: number |-> whose channel
    runs,       \* its map runs: run |-> whose agentRun
    pc,         \* where each goroutine is
    msg,        \* the message of each caller
    num,        \* its copy of seq, and then the number in its id
    chan,       \* the channel of its pending call
    run,        \* the run it was told
    result,     \* its agentRun: text seen, done closed, err set
    outbox,     \* requests on their way to the gateway
    inbox,      \* frames on their way to the reader
    greeted,    \* the gateway has accepted connect
    progress    \* how far the gateway is with each message

shared == <<conn, ready, seq, pending, runs>>
local  == <<pc, msg, num, chan, run, result>>
wire   == <<outbox, inbox, greeted, progress>>
vars   == <<shared, local, wire>>

Requesters == Callers \cup {Reader}
Done       == {"answered", "failed", "panicked"}

Request(n, m, a) == [num |-> n, msg |-> m, from |-> a]
Frame(k, n, b)   == [kind |-> k, num |-> n, body |-> b]

TypeOK ==
    /\ conn \in {"nil", "open", "dead"}
    /\ ready \in BOOLEAN
    /\ seq \in Nat
    /\ DOMAIN pending \subseteq Nat
    /\ \A n \in DOMAIN pending : pending[n] \in Requesters
    /\ DOMAIN runs \subseteq Messages
    /\ \A m \in DOMAIN runs : runs[m] \in Callers
    /\ pc[Boot] \in {"dialing", "greeting", "done", "panicked"}
    /\ pc[Reader] \in {"off", "reading", "numbering", "counted", "bumped", "drawn",
                       "registered", "stopped", "panicked"}
    /\ \A c \in Callers :
          pc[c] \in {"idle", "dialing", "greeting", "numbering", "counted", "bumped",
                     "drawn", "registered", "waiting", "accepted", "running"} \cup Done
    /\ \A c \in Callers : pc[c] \notin {"idle", "panicked"} => msg[c] \in Messages
    /\ num \in [Requesters -> Nat]
    /\ chan \in [Requesters -> {"empty", "refused", "hello"} \cup Messages]
    /\ \A c \in Callers : pc[c] \in {"accepted", "running", "answered"} => run[c] \in Messages
    /\ result \in [Callers -> [text : BOOLEAN, done : BOOLEAN, err : BOOLEAN]]
    /\ outbox \subseteq [num : Nat, msg : Messages \cup {"connect"}, from : Requesters]
    /\ inbox \in Seq([kind : {"challenge", "res", "text", "end"}, num : Nat,
                      body : {"empty", "refused", "hello"} \cup Messages])
    /\ greeted \in BOOLEAN
    /\ progress \in [Messages -> {"new", "running", "spoken", "ended"}]

Init ==
    /\ conn = "nil" /\ ready = FALSE
    /\ seq = 0
    /\ pending = EmptyMap /\ runs = EmptyMap
    /\ pc = [a \in Requesters \cup {Boot} |->
               CASE a = Boot -> "dialing" [] a = Reader -> "off" [] OTHER -> "idle"]
    /\ msg = [c \in Callers |-> "empty"]
    /\ num = [a \in Requesters |-> 0]
    /\ chan = [a \in Requesters |-> "empty"]
    /\ run = [c \in Callers |-> "empty"]
    /\ result = [c \in Callers |-> [text |-> FALSE, done |-> FALSE, err |-> FALSE]]
    /\ outbox = {} /\ inbox = <<>>
    /\ greeted = FALSE
    /\ progress = [m \in Messages |-> "new"]

Goto(a, label) == pc' = [pc EXCEPT ![a] = label]

-----------------------------------------------------------------------------
(* Connect, by Boot or by a caller.  At its end Boot lets the node listen, *)
(* however it ended, and a caller goes on or returns the error.            *)

(* What the gateway does with a dead connection, nobody sees: frames it has *)
(* sent may still arrive, requests on their way may as well be lost.       *)
Disconnect == conn' = "dead" /\ outbox' = {}

Connected(a)    == Goto(a, IF a = Boot THEN "done" ELSE "numbering")
ConnectFails(a) == Goto(a, IF a = Boot THEN "done" ELSE "failed")

(* The gateway opens with a challenge.                              *)
Dial(a) ==
    /\ pc[a] = "dialing"
    /\ \/ /\ conn' = "open"
          /\ pc' = [pc EXCEPT ![a] = "greeting", ![Reader] = "reading"]
          /\ inbox' = <<Frame("challenge", 0, "empty")>>
       \/ /\ ConnectFails(a)
          /\ UNCHANGED <<conn, inbox>>
    /\ UNCHANGED <<ready, seq, pending, runs, msg, num, chan, run, result,
                   outbox, greeted, progress>>

Greeted(a) ==
    /\ pc[a] = "greeting" /\ ready
    /\ Connected(a)
    /\ UNCHANGED <<shared, msg, num, chan, run, result, wire>>

(* 15 s without hello: the connection is closed, but stays in conn.        *)
GreetingTimesOut(a) ==
    /\ pc[a] = "greeting"
    /\ Disconnect
    /\ ConnectFails(a)
    /\ UNCHANGED <<ready, seq, pending, runs, msg, num, chan, run, result,
                   inbox, greeted, progress>>

-----------------------------------------------------------------------------
(* A request: SendMessage's by a caller, through call, or sendConnect's by *)
(* the reader.                                                             *)

(* SendMessage begins.                                                     *)
Begin(c) ==
    /\ pc[c] = "idle"
    /\ pc[Boot] = "done" /\ \A b \in Callers : pc[b] # "dialing"
    /\ \E m \in Messages : msg' = [msg EXCEPT ![c] = m]
    /\ Goto(c, IF conn = "nil" THEN "dialing" ELSE "numbering")
    /\ UNCHANGED <<shared, num, chan, run, result, wire>>

(* c.seq++, which is a read and a write ...                                *)
ReadSeq(a) ==
    /\ pc[a] = "numbering"
    /\ num' = [num EXCEPT ![a] = seq]
    /\ Goto(a, "counted")
    /\ UNCHANGED <<shared, msg, chan, run, result, wire>>

WriteSeq(a) ==
    /\ pc[a] = "counted"
    /\ seq' = num[a] + 1
    /\ Goto(a, "bumped")
    /\ UNCHANGED <<conn, ready, pending, runs, msg, num, chan, run, result, wire>>

(* ... and the id, from what was written or from another read.             *)
DrawNumber(a) ==
    /\ pc[a] = "bumped"
    /\ \E n \in {num[a] + 1, seq} : num' = [num EXCEPT ![a] = n]
    /\ Goto(a, "drawn")
    /\ UNCHANGED <<shared, msg, chan, run, result, wire>>

(* The ids of connect requests have a prefix of their own.                 *)
Key(a) == IF a = Reader THEN 0 ELSE num[a]

Enter(a) ==
    /\ pc[a] = "drawn"
    /\ pending' = Put(pending, Key(a), a)
    /\ Goto(a, "registered")
    /\ UNCHANGED <<conn, ready, seq, runs, msg, num, chan, run, result, wire>>

Sent(a) ==
    IF conn = "open"
    THEN outbox \cup {Request(Key(a), IF a = Reader THEN "connect" ELSE msg[a], a)}
    ELSE outbox

(* WriteMessage.  On a dead connection it may still succeed.  sendConnect  *)
(* ignores an error, call takes its entry back.  No deadline is set        *)
(* (gateway_ws_client.go:271): that a write returns is an assumption about *)
(* the gateway, which reads its connection.                                *)
Write(a) ==
    /\ pc[a] = "registered"
    /\ \/ /\ outbox' = Sent(a)
          /\ Goto(a, IF a = Reader THEN "reading" ELSE "waiting")
          /\ UNCHANGED pending
       \/ /\ conn = "dead" /\ a = Reader
          /\ Goto(a, "reading")
          /\ UNCHANGED <<pending, outbox>>
       \/ /\ conn = "dead" /\ a # Reader
          /\ Goto(a, "failed")
          /\ pending' = Delete(pending, num[a])
          /\ UNCHANGED outbox
    /\ UNCHANGED <<conn, ready, seq, runs, msg, num, chan, run, result,
                   inbox, greeted, progress>>

(* Two goroutines write at a time: the library panics when it notices.     *)
(* net/http recovers a panic in a handler; one in the reader ends the      *)
(* process.                                                                *)
WritePanics(a) ==
    /\ pc[a] = "registered" /\ \E b \in Requesters \ {a} : pc[b] = "registered"
    /\ IF a = Reader
       THEN pc' = [b \in DOMAIN pc |-> "panicked"] /\ Disconnect
       ELSE Goto(a, "panicked") /\ outbox' \in {outbox, Sent(a)} /\ UNCHANGED conn
    /\ UNCHANGED <<ready, seq, pending, runs, msg, num, chan, run, result,
                   inbox, greeted, progress>>

(* Mutant of CallReturns: an error is taken for an answer.                 *)
CallReturnsBlindly(c) ==
    /\ pc[c] = "waiting" /\ chan[c] # "empty"
    /\ run' = [run EXCEPT ![c] = chan[c]]
    /\ Goto(c, "accepted")
    /\ UNCHANGED <<shared, msg, num, chan, result, wire>>

CallReturns(c) ==
    /\ pc[c] = "waiting" /\ chan[c] # "empty"
    /\ IF chan[c] = "refused"
       THEN Goto(c, "failed") /\ UNCHANGED run
       ELSE Goto(c, "accepted") /\ run' = [run EXCEPT ![c] = chan[c]]
    /\ UNCHANGED <<shared, msg, num, chan, result, wire>>

(* Mutant of CallTimesOut: the entry stays.                                *)
CallTimesOutOnly(c) ==
    /\ pc[c] = "waiting"
    /\ Goto(c, "failed")
    /\ UNCHANGED <<shared, msg, num, chan, run, result, wire>>

CallTimesOut(c) ==
    /\ pc[c] = "waiting"
    /\ Goto(c, "failed")
    /\ pending' = Delete(pending, num[c])
    /\ UNCHANGED <<conn, ready, seq, runs, msg, num, chan, run, result, wire>>

-----------------------------------------------------------------------------
(* SendMessage with the run it was told.                                   *)

EnterRun(c) ==
    /\ pc[c] = "accepted"
    /\ runs' = Put(runs, run[c], c)
    /\ Goto(c, "running")
    /\ UNCHANGED <<conn, ready, seq, pending, msg, num, chan, run, result, wire>>

RunReturns(c) ==
    /\ pc[c] = "running" /\ result[c].done
    /\ Goto(c, IF result[c].err THEN "failed" ELSE "answered")
    /\ runs' = Delete(runs, run[c])
    /\ UNCHANGED <<conn, ready, seq, pending, msg, num, chan, run, result, wire>>

(* Mutant of RunTimesOut: only the loss of the connection ends the wait.   *)
RunEndsWithConn(c) ==
    /\ pc[c] = "running" /\ conn = "dead"
    /\ Goto(c, "failed")
    /\ runs' = Delete(runs, run[c])
    /\ UNCHANGED <<conn, ready, seq, pending, msg, num, chan, run, result, wire>>

RunTimesOut(c) ==
    /\ pc[c] = "running"
    /\ Goto(c, "failed")
    /\ runs' = Delete(runs, run[c])
    /\ UNCHANGED <<conn, ready, seq, pending, msg, num, chan, run, result, wire>>

-----------------------------------------------------------------------------
(* readLoop and handleMessage.                                             *)

Receive(kinds) ==
    /\ pc[Reader] = "reading" /\ inbox # <<>>
    /\ Head(inbox).kind \in kinds
    /\ inbox' = Tail(inbox)

(* connect.challenge: sendConnect begins.                                  *)
Challenge ==
    /\ Receive({"challenge"})
    /\ Goto(Reader, "numbering")
    /\ UNCHANGED <<shared, msg, num, chan, run, result, outbox, greeted, progress>>

(* Mutants of Response: the entry stays; answers are matched by order.     *)
ResponseKeepsEntry ==
    /\ Receive({"res"})
    /\ LET f == Head(inbox)
       IN  /\ ready' = (ready \/ f.body = "hello")
           /\ chan' = IF f.num \in DOMAIN pending
                      THEN [chan EXCEPT ![pending[f.num]] = f.body] ELSE chan
    /\ UNCHANGED <<conn, seq, pending, runs, pc, msg, num, run, result,
                   outbox, greeted, progress>>

ResponseInOrder ==
    /\ Receive({"res"})
    /\ LET f == Head(inbox)
           Entries == {n \in DOMAIN pending : (n = 0) <=> (f.num = 0)}
       IN  /\ ready' = (ready \/ f.body = "hello")
           /\ IF Entries # {}
              THEN LET n == CHOOSE n \in Entries : \A k \in Entries : n <= k
                   IN  /\ chan' = [chan EXCEPT ![pending[n]] = f.body]
                       /\ pending' = Delete(pending, n)
              ELSE UNCHANGED <<chan, pending>>
    /\ UNCHANGED <<conn, seq, runs, pc, msg, num, run, result, outbox, greeted, progress>>

(* An answer goes to whoever is in pending under its number.               *)
Response ==
    /\ Receive({"res"})
    /\ LET f == Head(inbox)
       IN  /\ ready' = (ready \/ f.body = "hello")
           /\ IF f.num \in DOMAIN pending
              THEN /\ chan' = [chan EXCEPT ![pending[f.num]] = f.body]
                   /\ pending' = Delete(pending, f.num)
              ELSE UNCHANGED <<chan, pending>>
    /\ UNCHANGED <<conn, seq, runs, pc, msg, num, run, result, outbox, greeted, progress>>

(* handleAgentEvent: an event of a run nobody has entered is dropped.      *)
AgentEvent ==
    /\ Receive({"text", "end"})
    /\ LET f == Head(inbox)
       IN  result' = IF f.body \notin DOMAIN runs THEN result
                     ELSE IF f.kind = "text"
                     THEN [result EXCEPT ![runs[f.body]].text = TRUE]
                     ELSE [result EXCEPT ![runs[f.body]].done = TRUE]
    /\ UNCHANGED <<shared, pc, msg, num, chan, run, outbox, greeted, progress>>

(* ReadMessage fails: everybody who waits is told.                         *)
Told(values) == {values[k] : k \in DOMAIN values}

(* Mutant of ReaderStops: runs end, but without an error.                  *)
ReaderStopsQuietly ==
    /\ pc[Reader] = "reading" /\ conn = "dead"
    /\ Goto(Reader, "stopped")
    /\ chan' = [a \in Requesters |-> IF a \in Told(pending) THEN "refused" ELSE chan[a]]
    /\ pending' = EmptyMap
    /\ result' = [c \in Callers |-> IF c \in Told(runs)
                    THEN [result[c] EXCEPT !.done = TRUE] ELSE result[c]]
    /\ inbox' = <<>>
    /\ UNCHANGED <<conn, ready, seq, runs, msg, num, run, outbox, greeted, progress>>

ReaderStops ==
    /\ pc[Reader] = "reading" /\ conn = "dead"
    /\ Goto(Reader, "stopped")
    /\ chan' = [a \in Requesters |-> IF a \in Told(pending) THEN "refused" ELSE chan[a]]
    /\ pending' = EmptyMap
    /\ result' = [c \in Callers |-> IF c \in Told(runs)
                    THEN [result[c] EXCEPT !.done = TRUE, !.err = TRUE] ELSE result[c]]
    /\ inbox' = <<>>
    /\ UNCHANGED <<conn, ready, seq, runs, msg, num, run, outbox, greeted, progress>>

-----------------------------------------------------------------------------
(* The gateway and the connection: external.                               *)

Emit(f) == conn = "open" /\ inbox' = Append(inbox, f)

Accept(r) ==
    /\ outbox' = outbox \ {r}
    /\ IF r.msg = "connect"
       THEN /\ Emit(Frame("res", r.num, "hello"))
            /\ greeted' = TRUE
            /\ UNCHANGED progress
       ELSE /\ greeted
            /\ Emit(Frame("res", r.num, r.msg))
            /\ progress' = [progress EXCEPT ![r.msg] = IF @ = "new" THEN "running" ELSE @]
            /\ UNCHANGED greeted
    /\ UNCHANGED <<shared, local>>

Refuse(r) ==
    /\ outbox' = outbox \ {r}
    /\ Emit(Frame("res", r.num, "refused"))
    /\ UNCHANGED <<shared, local, greeted, progress>>

Speak(m) ==
    /\ progress[m] = "running"
    /\ progress' = [progress EXCEPT ![m] = "spoken"]
    /\ Emit(Frame("text", 0, m))
    /\ UNCHANGED <<shared, local, outbox, greeted>>

EndRun(m) ==
    /\ progress[m] = "spoken"
    /\ progress' = [progress EXCEPT ![m] = "ended"]
    /\ Emit(Frame("end", 0, m))
    /\ UNCHANGED <<shared, local, outbox, greeted>>

ConnLost ==
    /\ conn = "open"
    /\ Disconnect
    /\ UNCHANGED <<ready, seq, pending, runs, local, inbox, greeted, progress>>

-----------------------------------------------------------------------------
Connect(a) == Dial(a) \/ Greeted(a) \/ GreetingTimesOut(a)

SendRequest(a) ==
    ReadSeq(a) \/ WriteSeq(a) \/ DrawNumber(a) \/ Enter(a) \/ Write(a) \/ WritePanics(a)

(* What a call does once it has begun.                                     *)
Call(c) ==
    \/ Connect(c) \/ SendRequest(c) \/ CallReturns(c) \/ CallTimesOut(c)
    \/ EnterRun(c) \/ RunReturns(c) \/ RunTimesOut(c)

ReadLoop ==
    Challenge \/ SendRequest(Reader) \/ Response \/ AgentEvent \/ ReaderStops

Gateway ==
    \/ \E r \in outbox : Accept(r) \/ Refuse(r)
    \/ \E m \in Messages : Speak(m) \/ EndRun(m)
    \/ ConnLost

Next ==
    \/ Connect(Boot) \/ ReadLoop \/ Gateway
    \/ \E c \in Callers : Begin(c) \/ Call(c)

Spec == Init /\ [][Next]_vars

(* A call that has begun goes on: its goroutine is scheduled and its       *)
(* timers fire.  Nothing is asked of the reader and of the gateway.        *)
FairSpec == Spec /\ \A c \in Callers : WF_vars(Call(c))

-----------------------------------------------------------------------------
(* readLoop sends to the channels of all pending calls with the lock held. *)
(* Each has room for one value: had any been sent one before, or had two   *)
(* numbers the same channel, the lock would never be released again.       *)
SendNeverBlocks ==
    \A n \in DOMAIN pending :
        /\ chan[pending[n]] = "empty"
        /\ \A k \in DOMAIN pending : pending[k] = pending[n] => k = n

(* An answer is about the caller's own message, whatever the gateway's     *)
(* order, timeouts and late answers - provided nobody drew the same number.*)
OwnAnswer ==
    \A c \in Callers :
        pc[c] = "answered" /\ (\A b \in Callers \ {c} : num[b] # num[c])
            => run[c] = msg[c]

(* A call that answers has seen its run end: what arrived before the       *)
(* connection was lost is never passed on as the response.                 *)
WholeAnswer == \A c \in Callers : pc[c] = "answered" => progress[run[c]] = "ended"

(* Both maps hold calls under way only, except that a panic leaves its     *)
(* entry: no timeout, late answer or lost connection does.                 *)
NoLeak ==
    /\ \A n \in DOMAIN pending :
          pending[n] = Reader \/ pc[pending[n]] \in {"registered", "waiting", "panicked"}
    /\ \A m \in DOMAIN runs : pc[runs[m]] \in {"running", "panicked"}

(* Every call returns, also when the reader has stopped, the answer went   *)
(* to another call, the run had ended before it was entered, or a retry    *)
(* took over its run.                                                      *)
EveryCallReturns == \A c \in Callers : pc[c] # "idle" ~> pc[c] \in Done

(* gateway_ws_client.go:306 "so we don't miss events": a call that answers *)
(* has seen what its run said.                                             *)
NoEventMissed == \A c \in Callers : pc[c] = "answered" => result[c].text
=============================================================================
