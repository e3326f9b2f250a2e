-------------------------- MODULE GatewayWS_proofs --------------------------
(***************************************************************************)
(* What holds of GatewayWS for every number of calls and of messages.      *)
(***************************************************************************)
EXTENDS GatewayWS, SequenceTheorems, TLAPS

-----------------------------------------------------------------------------
(* The inductive invariant.                                                *)

Goroutines == Requesters \cup {Boot}

(* Before a call enters pending.                                           *)
Early == {"idle", "dialing", "greeting", "numbering", "counted", "bumped", "drawn"}

Labels == Early \cup Done \cup {"registered", "waiting", "accepted", "running",
                                "off", "reading", "stopped", "done"}

Shapes ==
    /\ pc \in [Goroutines -> Labels]
    /\ msg \in [Callers -> {"empty"} \cup Messages]
    /\ run \in [Callers -> {"empty"} \cup Messages]

(* The connection is dialled by one goroutine at a time, while there is    *)
(* none, and successfully once; a panic of the reader is the end of all.   *)
ConnInv ==
    /\ \A a, b \in Callers \cup {Boot} :
          pc[a] = "dialing" => conn = "nil" /\ (pc[b] = "dialing" => a = b)
    /\ \A a \in Callers \cup {Boot} : pc[a] = "greeting" => conn # "nil"
    /\ conn = "nil" => pc[Reader] \in {"off", "panicked"}
    /\ pc[Reader] = "panicked" => \A a \in Goroutines : pc[a] = "panicked"

(* There is one challenge, and the reader sends connect after it.          *)
Challenged == \E i \in DOMAIN inbox : inbox[i].kind = "challenge"
ChallengeInv ==
    /\ \A i \in DOMAIN inbox : inbox[i].kind = "challenge" => i = 1
    /\ Challenged => pc[Reader] = "reading"
    /\ Challenged \/ pc[Reader] \in {"off"} \cup Early =>
          chan[Reader] = "empty" /\ \A n \in DOMAIN pending : pending[n] # Reader

(* Calls have numbers from 1, connect has number 0.                        *)
NumberInv ==
    /\ \A a \in Requesters : pc[a] = "bumped" => seq > 0
    /\ \A c \in Callers : pc[c] \in {"drawn", "registered", "waiting"} => num[c] > 0

(* Whoever is in pending is there under its own number, and has not been   *)
(* told anything; likewise for runs.                                       *)
PendingInv ==
    /\ \A n \in DOMAIN pending :
          /\ n = Key(pending[n]) /\ chan[pending[n]] = "empty"
          /\ \/ pending[n] = Reader
             \/ n > 0 /\ pc[pending[n]] \in {"registered", "waiting", "panicked"}
    /\ \A c \in Callers : pc[c] \in Early => chan[c] = "empty"
RunsInv ==
    \A m \in DOMAIN runs : run[runs[m]] = m /\ pc[runs[m]] \in {"running", "panicked"}

(* What comes back under a number is about the message of a call that drew *)
(* this number.                                                            *)
Asked(m, n) == \E c \in Callers : pc[c] \notin Early /\ msg[c] = m /\ num[c] = n
OriginInv ==
    /\ \A r \in outbox : IF r.msg = "connect" THEN r.num = 0 ELSE Asked(r.msg, r.num)
    /\ \A i \in DOMAIN inbox : inbox[i].kind = "res" =>
          LET f == inbox[i]
          IN  \/ f.body = "hello" /\ f.num = 0
              \/ f.body = "refused"
              \/ f.body \in Messages /\ Asked(f.body, f.num)
    /\ \A c \in Callers : \/ chan[c] \in {"empty", "refused"}
                          \/ chan[c] \in Messages /\ Asked(chan[c], num[c])
    /\ \A c \in Callers : pc[c] \in {"accepted", "running", "answered"} => Asked(run[c], num[c])

(* Whoever has seen its run end without an error is about to answer or has *)
(* answered, and the gateway has ended the run.                            *)
EndInv ==
    /\ \A i \in DOMAIN inbox : inbox[i].kind \in {"text", "end"} =>
          /\ inbox[i].body \in Messages
          /\ inbox[i].kind = "end" => progress[inbox[i].body] = "ended"
    /\ \A c \in Callers : result[c].done /\ ~result[c].err =>
          /\ pc[c] \in {"running"} \cup Done
          /\ run[c] \in Messages /\ progress[run[c]] = "ended"
    /\ \A c \in Callers : pc[c] = "answered" => progress[run[c]] = "ended"

(* The type invariant, in three parts.                                     *)
SharedOK ==
    /\ conn \in {"nil", "open", "dead"}
    /\ ready \in BOOLEAN
    /\ seq \in Nat
    /\ DOMAIN pending \subseteq Nat
    /\ \A n \in DOMAIN pending : pending[n] \in Requesters
    /\ DOMAIN runs \subseteq Messages
    /\ \A m \in DOMAIN runs : runs[m] \in Callers
PcOK ==
    /\ pc[Boot] \in {"dialing", "greeting", "done", "panicked"}
    /\ pc[Reader] \in {"off", "reading", "numbering", "counted", "bumped", "drawn",
                       "registered", "stopped", "panicked"}
    /\ \A c \in Callers :
          /\ pc[c] \in Early \cup Done \cup {"registered", "waiting", "accepted", "running"}
          /\ pc[c] \notin {"idle", "panicked"} => msg[c] \in Messages
          /\ pc[c] \in {"accepted", "running", "answered"} => run[c] \in Messages
ValuesOK ==
    /\ num \in [Requesters -> Nat]
    /\ chan \in [Requesters -> {"empty", "refused", "hello"} \cup Messages]
    /\ result \in [Callers -> [text : BOOLEAN, done : BOOLEAN, err : BOOLEAN]]
FrameType == [kind : {"challenge", "res", "text", "end"}, num : Nat,
              body : {"empty", "refused", "hello"} \cup Messages]
WireOK ==
    /\ outbox \subseteq [num : Nat, msg : Messages \cup {"connect"}, from : Requesters]
    /\ inbox \in Seq(FrameType)
    /\ greeted \in BOOLEAN
    /\ progress \in [Messages -> {"new", "running", "spoken", "ended"}]

Inv ==
    /\ SharedOK /\ PcOK /\ ValuesOK /\ WireOK /\ Shapes
    /\ ConnInv /\ ChallengeInv /\ NumberInv
    /\ PendingInv /\ RunsInv /\ OriginInv /\ EndInv

LEMMA TypeParts == SharedOK /\ PcOK /\ ValuesOK /\ WireOK <=> TypeOK
  BY DEF SharedOK, PcOK, ValuesOK, WireOK, FrameType, TypeOK, Early

-----------------------------------------------------------------------------
LEMMA Names ==
    /\ Boot \notin Callers /\ Boot # Reader /\ Reader \notin Callers /\ Boot \notin Requesters
    /\ Requesters = Callers \cup {Reader} /\ Goroutines = Callers \cup {Reader, Boot}
    /\ "empty" \notin Messages /\ "refused" \notin Messages
    /\ "hello" \notin Messages /\ "connect" \notin Messages
  BY GatewayAssumption DEF Requesters, Goroutines

LEMMA InvInit == Init => Inv
  <1> SUFFICES ASSUME Init PROVE Inv
    OBVIOUS
  <1>1. /\ pc \in [Goroutines -> Labels] /\ pc[Boot] = "dialing" /\ pc[Reader] = "off"
        /\ \A c \in Callers : pc[c] = "idle"
    <2>1. pc = [a \in Goroutines |->
                  CASE a = Boot -> "dialing" [] a = Reader -> "off" [] OTHER -> "idle"]
      BY DEF Init, Goroutines
    <2>2. \A a \in Goroutines : pc[a] = IF a = Boot THEN "dialing"
                                        ELSE IF a = Reader THEN "off" ELSE "idle"
      BY <2>1, Names
    <2>3. pc = [a \in Goroutines |-> pc[a]]
      BY <2>1
    <2>4. QED
      BY <2>2, <2>3, Names DEF Labels, Early
  <1>2. /\ DOMAIN pending = {} /\ DOMAIN runs = {} /\ DOMAIN inbox = {}
        /\ inbox \in Seq([kind : {"challenge", "res", "text", "end"}, num : Nat,
                          body : {"empty", "refused", "hello"} \cup Messages])
    BY DEF Init, EmptyMap
  <1>3. SharedOK /\ PcOK /\ ValuesOK /\ WireOK /\ Shapes
    <2>1. SharedOK
      BY <1>2 DEF Init, SharedOK
    <2>2. PcOK
      BY <1>1 DEF PcOK, Early
    <2>3. ValuesOK
      BY DEF Init, ValuesOK
    <2>4. WireOK
      BY <1>2 DEF Init, WireOK, FrameType
    <2>5. Shapes
      BY <1>1 DEF Init, Shapes
    <2>6. QED
      BY <2>1, <2>2, <2>3, <2>4, <2>5
  <1>4. ConnInv /\ ChallengeInv /\ NumberInv
    BY <1>1, <1>2, Names DEF Init, ConnInv, ChallengeInv, NumberInv, Challenged, Requesters
  <1>5. PendingInv /\ RunsInv /\ OriginInv /\ EndInv
    BY <1>1, <1>2, Names DEF Init, PendingInv, RunsInv, OriginInv, EndInv, Requesters
  <1>6. QED
    BY <1>3, <1>4, <1>5 DEF Inv

-----------------------------------------------------------------------------
(* Frames on their way to the reader.                                      *)
LEMMA Appended ==
    ASSUME WireOK, NEW f \in FrameType, inbox' = Append(inbox, f)
    PROVE  /\ inbox' \in Seq(FrameType)
           /\ \A i \in DOMAIN inbox' : \/ inbox'[i] = f
                                       \/ i \in DOMAIN inbox /\ inbox'[i] = inbox[i]
  <1>1. inbox \in Seq(FrameType)
    BY DEF WireOK, FrameType
  <1>2. QED
    BY <1>1

LEMMA Received ==
    ASSUME WireOK, inbox # <<>>, inbox' = Tail(inbox)
    PROVE  /\ inbox' \in Seq(FrameType)
           /\ 1 \in DOMAIN inbox /\ Head(inbox) = inbox[1] /\ inbox[1] \in FrameType
           /\ \A i \in DOMAIN inbox' : i + 1 \in DOMAIN inbox /\ i + 1 # 1 /\ inbox'[i] = inbox[i + 1]
  <1>1. inbox \in Seq(FrameType)
    BY DEF WireOK, FrameType
  <1>2. QED
    BY <1>1

-----------------------------------------------------------------------------
(* One goroutine moves to a place where it can be.                         *)
CallerLabels == Early \cup Done \cup {"registered", "waiting", "accepted", "running"}
LEMMA Moved ==
    ASSUME Inv, NEW a \in Goroutines, NEW l, pc' = [pc EXCEPT ![a] = l],
           a = Boot => l \in {"dialing", "greeting", "done", "panicked"},
           a = Reader => l \in {"off", "reading", "numbering", "counted", "bumped", "drawn",
                                "registered", "stopped", "panicked"},
           a \in Callers => /\ l \in CallerLabels
                            /\ l \notin {"idle", "panicked"} => msg'[a] \in Messages
                            /\ l \in {"accepted", "running", "answered"} => run'[a] \in Messages,
           \A c \in Callers : c # a => msg'[c] = msg[c] /\ run'[c] = run[c]
    PROVE  /\ PcOK' /\ pc' \in [Goroutines -> Labels]
           /\ pc'[a] = l /\ \A b \in Goroutines : b # a => pc'[b] = pc[b]
  <1>1. l \in Labels
    <2>1. CASE a \in Callers
      BY <2>1 DEF Labels, CallerLabels
    <2>2. CASE a \in {Boot, Reader}
      BY <2>2 DEF Labels, Early, Done
    <2>3. QED
      BY <2>1, <2>2, Names
  <1>2. pc' \in [Goroutines -> Labels] /\ pc'[a] = l /\ \A b \in Goroutines : b # a => pc'[b] = pc[b]
    BY <1>1 DEF Inv, Shapes
  <1>3. /\ pc'[Boot] \in {"dialing", "greeting", "done", "panicked"}
        /\ pc'[Reader] \in {"off", "reading", "numbering", "counted", "bumped", "drawn",
                             "registered", "stopped", "panicked"}
    BY <1>2, Names DEF Inv, PcOK
  <1>4. \A c \in Callers : pc'[c] \in CallerLabels
    BY <1>2, Names DEF Inv, PcOK, CallerLabels
  <1>5. \A c \in Callers : /\ pc'[c] \notin {"idle", "panicked"} => msg'[c] \in Messages
                           /\ pc'[c] \in {"accepted", "running", "answered"} => run'[c] \in Messages
    BY <1>2, Names DEF Inv, PcOK
  <1>6. QED
    BY <1>2, <1>3, <1>4, <1>5 DEF PcOK, CallerLabels

-----------------------------------------------------------------------------
(* A goroutine that is not yet in pending.                                 *)

LEMMA EarlyStep ==
    ASSUME Inv, NEW a \in Goroutines, NEW l \in Labels, pc[a] \in Early,
           pc' = [pc EXCEPT ![a] = l], l \notin {"running", "accepted", "answered", "panicked"},
           UNCHANGED <<pending, runs, chan, run, result, inbox, progress>>,
           outbox' \subseteq outbox, UNCHANGED conn \/ (conn # "nil" /\ conn' # "nil"),
           \A b \in Requesters : b # a => num'[b] = num[b],
           \A c \in Callers : c # a => msg'[c] = msg[c],
           l \in Early \/ a # Reader,
           l = "dialing" => /\ conn = "nil"
                            /\ \A b \in Callers \cup {Boot} : pc[b] # "dialing",
           l = "greeting" => conn # "nil", l # "off"
    PROVE  ConnInv' /\ ChallengeInv' /\ PendingInv' /\ RunsInv' /\ OriginInv' /\ EndInv'
  <1>1. /\ pc'[a] = l /\ (\A b \in Goroutines : b # a => pc'[b] = pc[b])
        /\ pc[a] \notin {"registered", "waiting", "accepted", "running", "panicked", "answered",
                         "failed", "off", "reading"}
    BY DEF Inv, Shapes, Early
  <1>2. ConnInv'
    BY <1>1, Names DEF Inv, ConnInv
  <1>3. ChallengeInv'
    BY <1>1, Names DEF Inv, ChallengeInv, Challenged
  <1>4. PendingInv'
    <2>1. \A n \in DOMAIN pending : pending[n] \in Requesters
      BY DEF Inv, SharedOK, PcOK, ValuesOK, WireOK
    <2>2. \A n \in DOMAIN pending : pending[n] = Reader \/ (pending[n] # a /\ pending[n] \in Callers)
      BY <1>1, <2>1, Names DEF Inv, PendingInv
    <2>3. \A n \in DOMAIN pending : Key(pending[n])' = Key(pending[n])
      BY <2>1, <2>2 DEF Key
    <2>4. \A c \in Callers : pc'[c] \in Early => chan[c] = "empty"
      BY <1>1, Names DEF Inv, PendingInv
    <2>5. QED
      BY <1>1, <2>2, <2>3, <2>4, Names DEF Inv, PendingInv
  <1>5. RunsInv'
    BY <1>1, Names DEF Inv, RunsInv, SharedOK, PcOK, ValuesOK, WireOK
  <1>6. OriginInv'
    <2>1. ASSUME NEW m, NEW n, Asked(m, n) PROVE Asked(m, n)'
      BY <1>1, <2>1, Names DEF Asked
    <2>2. \A c \in Callers : chan[c] \in {"empty", "refused"} \/ c # a
      BY DEF Inv, PendingInv
    <2>3. QED
      BY <1>1, <2>1, <2>2, Names DEF Inv, OriginInv
  <1>7. EndInv'
    BY <1>1, Names DEF Inv, EndInv, Done
  <1>8. QED
    BY <1>2, <1>3, <1>4, <1>5, <1>6, <1>7

LEMMA BeginStep == ASSUME Inv, NEW c \in Callers, Begin(c) PROVE Inv'
  <1> DEFINE l == IF conn = "nil" THEN "dialing" ELSE "numbering"
  <1>1. /\ pc[c] = "idle" /\ pc' = [pc EXCEPT ![c] = l] /\ l \in {"dialing", "numbering"}
        /\ UNCHANGED <<shared, num, chan, run, result, wire>>
        /\ l = "dialing" => /\ conn = "nil"
                            /\ \A b \in Callers \cup {Boot} : pc[b] # "dialing"
    BY DEF Begin, Goto
  <1>2. PICK m \in Messages : msg' = [msg EXCEPT ![c] = m]
    BY DEF Begin
  <1> HIDE DEF l
  <1>3. SharedOK' /\ PcOK' /\ ValuesOK' /\ WireOK' /\ Shapes' /\ NumberInv'
    <2>1. UNCHANGED <<conn, ready, seq, pending, runs, num, chan, run, result,
                      outbox, inbox, greeted, progress>>
      BY <1>1 DEF shared, wire
    <2>2. /\ pc'[c] \in {"dialing", "numbering"}
          /\ \A a \in Goroutines : a # c => pc'[a] = pc[a]
          /\ pc' \in [Goroutines -> Labels]
      BY <1>1, Names DEF Inv, Shapes, Labels, Early
    <2>3. /\ msg'[c] \in Messages /\ (\A d \in Callers : d # c => msg'[d] = msg[d])
          /\ msg' \in [Callers -> {"empty"} \cup Messages]
      BY <1>2 DEF Inv, Shapes
    <2>4. SharedOK' /\ PcOK' /\ ValuesOK' /\ WireOK'
      <3>1. c \in Goroutines /\ c # Boot /\ c # Reader /\ l \in CallerLabels
            /\ l \notin {"accepted", "running", "answered"}
        BY <1>1, Names DEF CallerLabels, Early
      <3>2. PcOK'
        BY <1>1, <2>1, <2>3, <3>1, Moved
      <3>3. QED
        BY <2>1, <3>2 DEF Inv, SharedOK, ValuesOK, WireOK
    <2>5. QED
      BY <1>1, <2>1, <2>2, <2>3, <2>4, Names DEF Inv, Shapes, NumberInv
  <1>4. ConnInv' /\ ChallengeInv' /\ PendingInv' /\ RunsInv' /\ OriginInv' /\ EndInv'
    <2>1. c \in Goroutines /\ l \in Labels /\ pc[c] \in Early /\ l \in Early
      BY <1>1, Names DEF Early, Labels
    <2>2. \A d \in Callers : d # c => msg'[d] = msg[d]
      BY <1>2 DEF Inv, Shapes
    <2>3. UNCHANGED <<conn, pending, runs, num, chan, run, result, outbox, inbox, progress>>
      BY <1>1 DEF shared, wire
    <2>4. QED
      BY <1>1, <2>1, <2>2, <2>3, EarlyStep
  <1>5. QED
    BY <1>3, <1>4 DEF Inv

LEMMA NumberStep ==
    ASSUME Inv, NEW a \in Requesters, ReadSeq(a) \/ WriteSeq(a) \/ DrawNumber(a) PROVE Inv'
  <1>0. num \in [Requesters -> Nat] /\ seq \in Nat /\ num[a] \in Nat
    BY DEF Inv, SharedOK, PcOK, ValuesOK, WireOK
  <1>1. PICK l \in {"counted", "bumped", "drawn"} :
          /\ pc' = [pc EXCEPT ![a] = l] /\ pc[a] \in {"numbering", "counted", "bumped"}
          /\ l = "counted" => UNCHANGED seq /\ num' = [num EXCEPT ![a] = seq]
          /\ l = "bumped" => UNCHANGED num /\ seq' = num[a] + 1
          /\ l = "drawn" => /\ pc[a] = "bumped" /\ UNCHANGED seq
                            /\ \E n \in {num[a] + 1, seq} : num' = [num EXCEPT ![a] = n]
    BY DEF ReadSeq, WriteSeq, DrawNumber, Goto, shared
  <1>2. /\ num' \in [Requesters -> Nat] /\ seq' \in Nat
        /\ \A b \in Requesters : b # a => num'[b] = num[b]
    BY <1>0, <1>1
  <1>3. UNCHANGED <<conn, ready, pending, runs, msg, chan, run, result,
                    outbox, inbox, greeted, progress>>
    BY DEF ReadSeq, WriteSeq, DrawNumber, shared, wire
  <1>4. /\ a \in Goroutines /\ pc'[a] = l /\ (\A b \in Goroutines : b # a => pc'[b] = pc[b])
        /\ l \in Early /\ l \in Labels /\ pc[a] \in Early /\ pc' \in [Goroutines -> Labels]
    BY <1>1, Names DEF Inv, Shapes, Labels, Early
  <1>5. SharedOK' /\ PcOK' /\ ValuesOK' /\ WireOK'
    <2>1. /\ a # Boot /\ l \in CallerLabels /\ l \notin {"accepted", "running", "answered"}
          /\ a \in Callers => msg[a] \in Messages
      BY <1>1, Names DEF CallerLabels, Early, Inv, PcOK
    <2>2. PcOK'
      BY <1>1, <1>3, <1>4, <2>1, Moved
    <2>3. QED
      BY <1>2, <1>3, <2>2 DEF Inv, SharedOK, ValuesOK, WireOK
  <1>6. NumberInv'
    <2>1. l = "bumped" => seq' > 0
      BY <1>0, <1>1
    <2>2. l = "drawn" => num'[a] > 0
      BY <1>0, <1>1 DEF Inv, NumberInv
    <2>3. seq > 0 => seq' > 0
      BY <1>0, <1>1, <2>1
    <2>4. QED
      BY <1>1, <1>2, <1>4, <2>1, <2>2, <2>3, Names DEF Inv, NumberInv
  <1>7. ConnInv' /\ ChallengeInv' /\ PendingInv' /\ RunsInv' /\ OriginInv' /\ EndInv'
    BY <1>1, <1>2, <1>3, <1>4, EarlyStep
  <1>8. QED
    BY <1>3, <1>4, <1>5, <1>6, <1>7 DEF Inv, Shapes

-----------------------------------------------------------------------------
(* Connect.                                                                *)

(* The goroutine that dials, or waits for hello, and how its Connect ends. *)
LEMMA ConnectEnds ==
    ASSUME Inv, NEW a \in Callers \cup {Boot}, pc[a] \in {"dialing", "greeting"},
           Connected(a) \/ ConnectFails(a),
           UNCHANGED <<ready, seq, pending, runs, msg, num, chan, run, result,
                       inbox, greeted, progress>>,
           outbox' \subseteq outbox,
           UNCHANGED conn \/ (conn # "nil" /\ conn' = "dead")
    PROVE  Inv'
  <1>1. PICK l \in {"done", "numbering", "failed"} :
          pc' = [pc EXCEPT ![a] = l] /\ (l = "done" <=> a = Boot)
    BY Names DEF Connected, ConnectFails, Goto
  <1>2. /\ a \in Goroutines /\ pc[a] \in Early /\ l \in Labels /\ pc' \in [Goroutines -> Labels]
        /\ pc'[a] = l /\ (\A b \in Goroutines : b # a => pc'[b] = pc[b]) /\ a # Reader
    BY <1>1, Names DEF Early, Labels, Inv, Shapes, Done
  <1>3. /\ pc'[Reader] = pc[Reader] /\ (pc'[Boot] = pc[Boot] \/ pc'[Boot] = "done")
        /\ \A c \in Callers : /\ pc'[c] = pc[c] \/ pc'[c] \in {"numbering", "failed"}
                             /\ pc[c] = "idle" => pc'[c] = "idle"
    BY <1>1, <1>2, Names
  <1>4. SharedOK' /\ PcOK' /\ ValuesOK' /\ WireOK'
    <2>1. conn' \in {"nil", "open", "dead"}
      BY DEF Inv, SharedOK, PcOK, ValuesOK, WireOK
    <2>2. a \in Callers => msg[a] \in Messages /\ l \in CallerLabels
      BY <1>1, Names DEF Inv, PcOK, CallerLabels, Done, Early
    <2>4. PcOK'
      BY <1>1, <1>2, <2>2, Moved
    <2>5. QED
      BY <2>1, <2>4 DEF Inv, SharedOK, ValuesOK, WireOK
  <1>5. NumberInv'
    BY <1>1, <1>2, <1>3, Names DEF Inv, NumberInv
  <1>6. ConnInv' /\ ChallengeInv' /\ PendingInv' /\ RunsInv' /\ OriginInv' /\ EndInv'
    BY <1>1, <1>2, EarlyStep
  <1>7. QED
    BY <1>2, <1>4, <1>5, <1>6 DEF Inv, Shapes

(* The connection is there: nothing has been received by it before.        *)
LEMMA DialSucceeds ==
    ASSUME Inv, NEW a \in Callers \cup {Boot}, Dial(a), conn' = "open"
    PROVE  Inv'
  <1>1. /\ pc[a] = "dialing" /\ conn = "nil" /\ pc[Reader] = "off"
        /\ \A b \in Callers \cup {Boot} : b # a => pc[b] # "dialing"
    BY Names DEF Dial, Inv, ConnInv
  <1>2. /\ pc' = [pc EXCEPT ![a] = "greeting", ![Reader] = "reading"]
        /\ inbox' = <<Frame("challenge", 0, "empty")>>
        /\ UNCHANGED <<ready, seq, pending, runs, msg, num, chan, run, result,
                        outbox, greeted, progress>>
    BY <1>1 DEF Dial
  <1>3. /\ pc'[a] = "greeting" /\ pc'[Reader] = "reading" /\ a # Reader /\ a \in Goroutines
        /\ \A b \in Goroutines : b # a /\ b # Reader => pc'[b] = pc[b]
        /\ pc' \in [Goroutines -> Labels]
    BY <1>2, Names DEF Inv, Shapes, Labels, Early
  <1>4. /\ \A c \in Callers : pc'[c] = pc[c] \/ (c = a /\ pc[c] = "dialing" /\ pc'[c] = "greeting")
        /\ pc'[Boot] = pc[Boot] \/ pc'[Boot] = "greeting"
    BY <1>1, <1>3, Names
  <1>5. /\ inbox' \in Seq(FrameType)
        /\ \A i \in DOMAIN inbox' : i = 1 /\ inbox'[i].kind = "challenge"
    BY <1>2 DEF Frame, FrameType
  <1>6. SharedOK' /\ PcOK' /\ ValuesOK' /\ WireOK' /\ Shapes'
    <2>1. PcOK'
      BY <1>2, <1>3, <1>4 DEF Inv, PcOK, Early
    <2>2. QED
      BY <1>2, <1>3, <1>5, <2>1 DEF Inv, SharedOK, ValuesOK, WireOK, Shapes
  <1>7. ConnInv'
    BY <1>1, <1>3, Names DEF ConnInv
  <1>8. ChallengeInv' /\ NumberInv'
    BY <1>1, <1>2, <1>3, <1>4, <1>5, Names
       DEF Inv, ChallengeInv, Challenged, NumberInv, Early
  <1>9. PendingInv' /\ RunsInv'
    <2>1. \A n \in DOMAIN pending : pending[n] # Reader => pc'[pending[n]] = pc[pending[n]]
      BY <1>1, <1>3, Names DEF Inv, PendingInv, SharedOK, PcOK, ValuesOK, WireOK
    <2>2. \A m \in DOMAIN runs : pc'[runs[m]] = pc[runs[m]]
      BY <1>1, <1>4 DEF Inv, RunsInv, SharedOK, PcOK, ValuesOK, WireOK
    <2>3. QED
      <3>1. PendingInv'
        <4>1. \A n \in DOMAIN pending : Key(pending[n])' = Key(pending[n])
          BY <1>2 DEF Key
        <4>2. \A c \in Callers : pc'[c] \in Early => pc[c] \in Early
          BY <1>4 DEF Early
        <4>3. QED
          BY <1>2, <2>1, <4>1, <4>2 DEF Inv, PendingInv
      <3>2. RunsInv'
        BY <1>2, <2>2 DEF Inv, RunsInv
      <3>3. QED
        BY <3>1, <3>2
  <1>10. OriginInv'
    <2>1. ASSUME NEW m, NEW n, Asked(m, n) PROVE Asked(m, n)'
      BY <1>2, <1>4, <2>1 DEF Asked, Early
    <2>2. QED
      BY <1>2, <1>4, <1>5, <2>1 DEF Inv, OriginInv
  <1>11. EndInv'
    <2>1. \A c \in Callers : pc[c] \in {"running"} \cup Done => pc'[c] = pc[c]
      BY <1>4 DEF Done
    <2>2. \A c \in Callers : pc'[c] = "answered" => pc[c] = "answered"
      BY <1>4
    <2>3. QED
      BY <1>2, <1>5, <2>1, <2>2 DEF Inv, EndInv
  <1>12. QED
    BY <1>6, <1>7, <1>8, <1>9, <1>10, <1>11 DEF Inv

LEMMA ConnectStep == ASSUME Inv, NEW a \in Callers \cup {Boot}, Connect(a) PROVE Inv'
  <1>1. CASE Dial(a) /\ conn' = "open"
    BY <1>1, DialSucceeds
  <1>2. CASE Dial(a) /\ ~(conn' = "open")
    <2>1. /\ pc[a] = "dialing" /\ ConnectFails(a) /\ outbox' \subseteq outbox
          /\ UNCHANGED <<conn, ready, seq, pending, runs, msg, num, chan, run, result,
                          inbox, greeted, progress>>
      BY <1>2 DEF Dial
    <2>2. QED
      BY <2>1, ConnectEnds
  <1>3. CASE Greeted(a)
    BY <1>3, ConnectEnds DEF Greeted, shared, wire
  <1>4. CASE GreetingTimesOut(a)
    <2>1. conn # "nil"
      BY <1>4 DEF GreetingTimesOut, Inv, ConnInv
    <2>2. QED
      BY <1>4, <2>1, ConnectEnds DEF GreetingTimesOut, Disconnect
  <1>5. QED
    BY <1>1, <1>2, <1>3, <1>4 DEF Connect

-----------------------------------------------------------------------------
(* A call from its entry in pending to its return.                         *)
LEMMA LateStep ==
    ASSUME Inv, NEW c \in Callers, pc[c] \in {"registered", "waiting", "accepted", "running"},
           NEW l \in {"waiting", "accepted", "running", "answered", "failed", "panicked"},
           pc' = [pc EXCEPT ![c] = l],
           l = "waiting" => pc[c] = "registered",
           pc[c] = "running" => l \in Done /\ UNCHANGED run,
           l = "answered" => pc[c] = "running" /\ result[c].done /\ ~result[c].err,
           UNCHANGED <<conn, ready, seq, msg, num, chan, result, inbox, greeted, progress>>,
           run' \in [Callers -> {"empty"} \cup Messages],
           \A d \in Callers : d # c => run'[d] = run[d],
           l \in {"accepted", "running", "answered"} =>
              run'[c] \in Messages /\ Asked(run'[c], num[c]),
           DOMAIN pending' \subseteq DOMAIN pending,
           \A n \in DOMAIN pending' :
              pending'[n] = pending[n] /\ (pending[n] = c => l \in {"waiting", "panicked"}),
           DOMAIN runs' \subseteq Messages,
           \A m \in DOMAIN runs' :
              \/ m \in DOMAIN runs /\ runs'[m] = runs[m] /\ runs[m] # c
              \/ runs'[m] = c /\ run'[c] = m /\ l = "running",
           \A r \in outbox' : r \in outbox \/ r = Request(num[c], msg[c], c)
    PROVE  Inv'
  <1>0. /\ c \in Goroutines /\ c \in Requesters /\ c # Boot /\ c # Reader
        /\ msg[c] \in Messages /\ l \in CallerLabels
    BY Names DEF Inv, PcOK, CallerLabels, Done
  <1>1. /\ PcOK' /\ pc' \in [Goroutines -> Labels]
        /\ pc'[c] = l /\ \A b \in Goroutines : b # c => pc'[b] = pc[b]
    BY <1>0, Moved
  <1>2. pc[c] \notin Early \cup Done /\ l \notin Early
    BY DEF Early, Done
  <1>3. SharedOK' /\ ValuesOK' /\ Shapes'
    <2>1. \A m \in DOMAIN runs' : runs'[m] \in Callers
      BY DEF Inv, SharedOK
    <2>2. QED
      BY <1>1, <2>1 DEF Inv, SharedOK, ValuesOK, Shapes
  <1>4. WireOK'
    <2>1. Request(num[c], msg[c], c) \in [num : Nat, msg : Messages \cup {"connect"}, from : Requesters]
      BY <1>0 DEF Request, Inv, ValuesOK
    <2>2. QED
      BY <2>1 DEF Inv, WireOK
  <1>5. ConnInv'
    BY <1>0, <1>1, Names DEF Inv, ConnInv
  <1>6. ChallengeInv'
    BY <1>0, <1>1 DEF Inv, ChallengeInv, Challenged
  <1>7. NumberInv'
    BY <1>0, <1>1, Names DEF Inv, NumberInv
  <1>8. PendingInv'
    <2>1. \A n \in DOMAIN pending' :
             /\ n = Key(pending[n])' /\ chan[pending'[n]] = "empty"
             /\ \/ pending'[n] = Reader
                \/ n > 0 /\ pc[pending'[n]] \in {"registered", "waiting", "panicked"}
      BY DEF Inv, PendingInv, Key
    <2>2. \A n \in DOMAIN pending' : pending'[n] # Reader =>
             pc'[pending'[n]] \in {"registered", "waiting", "panicked"}
      <3>1. \A n \in DOMAIN pending' : pending'[n] \in Requesters
        BY DEF Inv, SharedOK
      <3>2. QED
        BY <1>1, <2>1, <3>1, Names
    <2>3. \A d \in Callers : pc'[d] \in Early => chan[d] = "empty"
      BY <1>0, <1>1, <1>2, Names DEF Inv, PendingInv
    <2>4. QED
      BY <2>1, <2>2, <2>3 DEF PendingInv
  <1>9. RunsInv'
    <2>1. \A m \in DOMAIN runs : runs[m] \in Callers
      BY DEF Inv, SharedOK
    <2>2. QED
      BY <1>0, <1>1, <2>1, Names DEF Inv, RunsInv
  <1>10. OriginInv'
    <2>1. ASSUME NEW m, NEW n, Asked(m, n) PROVE Asked(m, n)'
      BY <1>1, <1>2, <2>1, Names DEF Asked
    <2>2. Asked(msg[c], num[c])
      BY <1>2 DEF Asked
    <2>3. \A r \in outbox' : IF r.msg = "connect" THEN r.num = 0 ELSE Asked(r.msg, r.num)'
      <3>1. \A r \in outbox : IF r.msg = "connect" THEN r.num = 0 ELSE Asked(r.msg, r.num)'
        BY <2>1 DEF Inv, OriginInv
      <3>2. /\ Request(num[c], msg[c], c).msg = msg[c] /\ Request(num[c], msg[c], c).num = num[c]
            /\ msg[c] # "connect" /\ Asked(msg[c], num[c])'
        BY <1>0, <2>1, <2>2, Names DEF Request
      <3>3. QED
        BY <3>1, <3>2
    <2>4. \A i \in DOMAIN inbox' : inbox'[i].kind = "res" =>
             \/ inbox'[i].body = "hello" /\ inbox'[i].num = 0
             \/ inbox'[i].body = "refused"
             \/ inbox'[i].body \in Messages /\ Asked(inbox[i].body, inbox[i].num)'
      BY <2>1 DEF Inv, OriginInv
    <2>5. \A d \in Callers : \/ chan'[d] \in {"empty", "refused"}
                             \/ chan'[d] \in Messages /\ Asked(chan[d], num[d])'
      BY <2>1 DEF Inv, OriginInv
    <2>6. \A d \in Callers : pc'[d] \in {"accepted", "running", "answered"} => Asked(run[d], num[d])'
      BY <1>0, <1>1, <2>1, Names DEF Inv, OriginInv
    <2>7. QED
      BY <2>3, <2>4, <2>5, <2>6 DEF OriginInv
  <1>11. EndInv'
    <2>1. \A d \in Callers : result[d].done /\ ~result[d].err =>
             /\ pc'[d] \in {"running"} \cup Done /\ run'[d] = run[d]
             /\ run[d] \in Messages /\ progress[run[d]] = "ended"
      BY <1>0, <1>1, <1>2, Names DEF Inv, EndInv
    <2>2. \A d \in Callers : pc'[d] = "answered" => progress[run'[d]] = "ended"
      BY <1>0, <1>1, <2>1, Names DEF Inv, EndInv
    <2>3. \A i \in DOMAIN inbox' : inbox'[i].kind \in {"text", "end"} =>
             /\ inbox'[i].body \in Messages
             /\ inbox'[i].kind = "end" => progress'[inbox'[i].body] = "ended"
      BY DEF Inv, EndInv
    <2>4. QED
      BY <2>1, <2>2, <2>3 DEF EndInv
  <1>12. QED
    BY <1>1, <1>3, <1>4, <1>5, <1>6, <1>7, <1>8, <1>9, <1>10, <1>11 DEF Inv

(* The same, by parts: a call that ends takes its entries back.            *)
Ends(c, l) ==
    /\ pc[c] \in {"registered", "waiting", "accepted", "running"}
    /\ pc' = [pc EXCEPT ![c] = l]
    /\ IF l = "answered" THEN pc[c] = "running" /\ result[c].done /\ ~result[c].err
                         ELSE l = "failed"
TakesBack(c) ==
    /\ DOMAIN pending' \subseteq DOMAIN pending
    /\ \A n \in DOMAIN pending' : pending'[n] = pending[n] /\ pending[n] # c
    /\ DOMAIN runs' \subseteq Messages
    /\ \A m \in DOMAIN runs' : m \in DOMAIN runs /\ runs'[m] = runs[m] /\ runs[m] # c
OthersAsBefore ==
    UNCHANGED <<conn, ready, seq, msg, num, chan, run, result, inbox, greeted, progress, outbox>>

LEMMA EndStep ==
    ASSUME Inv, NEW c \in Callers, NEW l, Ends(c, l), TakesBack(c), OthersAsBefore
    PROVE  Inv'
  <1>1. /\ run' = run /\ run' \in [Callers -> {"empty"} \cup Messages]
        /\ UNCHANGED <<conn, ready, seq, msg, num, chan, result, inbox, greeted, progress>>
        /\ \A r \in outbox' : r \in outbox
    BY DEF OthersAsBefore, Inv, Shapes
  <1>2. CASE l = "failed"
    <2>1. pc' = [pc EXCEPT ![c] = "failed"] /\ "failed" \in Done
      BY <1>2 DEF Ends, Done
    <2>2. pc[c] \in {"registered", "waiting", "accepted", "running"}
      BY DEF Ends
    <2>3. QED
      BY <1>1, <2>1, <2>2, LateStep DEF TakesBack
  <1>3. CASE l = "answered"
    <2>1. pc' = [pc EXCEPT ![c] = "answered"] /\ "answered" \in Done
      BY <1>3 DEF Ends, Done
    <2>2. pc[c] = "running" /\ result[c].done /\ ~result[c].err
      BY <1>3 DEF Ends
    <2>3. run'[c] \in Messages /\ Asked(run'[c], num[c])
      BY <1>1, <2>2 DEF Inv, PcOK, OriginInv
    <2>4. QED
      BY <1>1, <2>1, <2>2, <2>3, LateStep DEF TakesBack
  <1>4. QED
    BY <1>2, <1>3 DEF Ends

(* The entries of a call.                                                  *)
LEMMA Entries ==
    ASSUME Inv, NEW c \in Callers
    PROVE  /\ \A n \in DOMAIN pending : pending[n] = c =>
                 n = num[c] /\ chan[c] = "empty" /\ pc[c] \in {"registered", "waiting", "panicked"}
           /\ \A m \in DOMAIN runs : runs[m] = c => run[c] = m /\ pc[c] \in {"running", "panicked"}
           /\ DOMAIN runs \subseteq Messages
  BY Names DEF Inv, SharedOK, PendingInv, RunsInv, Key

LEMMA WriteStep == ASSUME Inv, NEW c \in Callers, Write(c) PROVE Inv'
  <1>1. /\ pc[c] = "registered" /\ c # Reader
        /\ UNCHANGED <<conn, ready, seq, runs, msg, num, chan, run, result,
                       inbox, greeted, progress>>
    BY Names DEF Write
  <1>2. /\ run \in [Callers -> {"empty"} \cup Messages]
        /\ \A m \in DOMAIN runs : runs[m] # c
    BY <1>1, Entries DEF Inv, Shapes
  <1>3. CASE outbox' = Sent(c) /\ Goto(c, "waiting") /\ UNCHANGED pending
    <2>1. \A r \in outbox' : r \in outbox \/ r = Request(num[c], msg[c], c)
      BY <1>1, <1>3 DEF Sent, Key
    <2>2. QED
      BY <1>1, <1>2, <1>3, <2>1, Entries, LateStep DEF Goto
  <1>4. CASE Goto(c, "failed") /\ pending' = Delete(pending, num[c]) /\ UNCHANGED outbox
    <2>1. /\ DOMAIN pending' \subseteq DOMAIN pending
          /\ \A n \in DOMAIN pending' : pending'[n] = pending[n] /\ pending[n] # c
      <3>1. \A n \in DOMAIN pending : pending[n] = c => n = num[c]
        BY Entries
      <3>2. QED
        BY <1>4, <3>1 DEF Delete
    <2>2. Ends(c, "failed")
      BY <1>1, <1>4 DEF Ends, Goto
    <2>3. TakesBack(c)
      BY <1>1, <1>2, <2>1, Entries DEF TakesBack
    <2>4. OthersAsBefore
      BY <1>1, <1>4 DEF OthersAsBefore
    <2>5. QED
      BY <2>2, <2>3, <2>4, EndStep
  <1>5. QED
    BY <1>1, <1>3, <1>4 DEF Write

LEMMA PanicStep == ASSUME Inv, NEW c \in Callers, WritePanics(c) PROVE Inv'
  <1>1. /\ pc[c] = "registered" /\ c # Reader /\ pc' = [pc EXCEPT ![c] = "panicked"]
        /\ outbox' \in {outbox, Sent(c)}
        /\ UNCHANGED <<conn, ready, seq, pending, runs, msg, num, chan, run, result,
                       inbox, greeted, progress>>
    BY Names DEF WritePanics, Goto
  <1>2. /\ run \in [Callers -> {"empty"} \cup Messages]
        /\ (\A m \in DOMAIN runs : runs[m] # c) /\ DOMAIN runs \subseteq Messages
        /\ \A r \in outbox' : r \in outbox \/ r = Request(num[c], msg[c], c)
    BY <1>1, Entries DEF Inv, Shapes, Sent, Key
  <1>3. QED
    BY <1>1, <1>2, LateStep

LEMMA CallStep == ASSUME Inv, NEW c \in Callers, CallReturns(c) \/ CallTimesOut(c) PROVE Inv'
  <1>1. /\ pc[c] = "waiting"
        /\ UNCHANGED <<conn, ready, seq, runs, msg, num, chan, result,
                       outbox, inbox, greeted, progress>>
    BY DEF CallReturns, CallTimesOut, shared, wire
  <1>2. /\ run \in [Callers -> {"empty"} \cup Messages]
        /\ (\A m \in DOMAIN runs : runs[m] # c) /\ DOMAIN runs \subseteq Messages
    BY <1>1, Entries DEF Inv, Shapes
  <1>3. CASE CallReturns(c)
    <2>1. UNCHANGED pending /\ \A n \in DOMAIN pending : pending[n] # c
      BY <1>3, Entries DEF CallReturns, shared
    <2>2. CASE pc' = [pc EXCEPT ![c] = "failed"] /\ UNCHANGED run
      <3>1. Ends(c, "failed") /\ TakesBack(c) /\ OthersAsBefore
        BY <1>1, <1>2, <2>1, <2>2 DEF Ends, TakesBack, OthersAsBefore
      <3>2. QED
        BY <3>1, EndStep
    <2>3. CASE pc' = [pc EXCEPT ![c] = "accepted"] /\ run' = [run EXCEPT ![c] = chan[c]]
               /\ chan[c] \notin {"empty", "refused"}
      <3>1. chan[c] \in Messages /\ Asked(chan[c], num[c])
        BY <2>3 DEF Inv, OriginInv
      <3>2. /\ run'[c] = chan[c] /\ (\A d \in Callers : d # c => run'[d] = run[d])
            /\ run' \in [Callers -> {"empty"} \cup Messages]
        BY <1>2, <2>3, <3>1
      <3>3. run'[c] \in Messages /\ Asked(run'[c], num[c])
        BY <3>1, <3>2
      <3>4. pc[c] = "waiting" /\ pc' = [pc EXCEPT ![c] = "accepted"]
        BY <1>1, <2>3
      <3>5. /\ DOMAIN pending' \subseteq DOMAIN pending
            /\ \A n \in DOMAIN pending' : pending'[n] = pending[n] /\ pending[n] # c
        BY <2>1
      <3>6. /\ DOMAIN runs' \subseteq Messages
            /\ \A m \in DOMAIN runs' : m \in DOMAIN runs /\ runs'[m] = runs[m] /\ runs[m] # c
        BY <1>1, <1>2
      <3>7. UNCHANGED <<conn, ready, seq, msg, num, chan, result, inbox, greeted, progress, outbox>>
        BY <1>1
      <3>8. QED
        BY <3>2, <3>3, <3>4, <3>5, <3>6, <3>7, LateStep
    <2>4. QED
      BY <1>3, <2>2, <2>3 DEF CallReturns, Goto
  <1>4. CASE CallTimesOut(c)
    <2>1. /\ DOMAIN pending' \subseteq DOMAIN pending
          /\ \A n \in DOMAIN pending' : pending'[n] = pending[n] /\ pending[n] # c
          /\ UNCHANGED run /\ pc' = [pc EXCEPT ![c] = "failed"]
      <3>1. \A n \in DOMAIN pending : pending[n] = c => n = num[c]
        BY Entries
      <3>2. QED
        BY <1>4, <3>1 DEF CallTimesOut, Goto, Delete
    <2>2. Ends(c, "failed") /\ TakesBack(c) /\ OthersAsBefore
      BY <1>1, <1>2, <2>1 DEF Ends, TakesBack, OthersAsBefore
    <2>3. QED
      BY <2>2, EndStep
  <1>5. QED
    BY <1>3, <1>4

LEMMA RunStep ==
    ASSUME Inv, NEW c \in Callers, EnterRun(c) \/ RunReturns(c) \/ RunTimesOut(c) PROVE Inv'
  <1>1. /\ pc[c] \in {"accepted", "running"}
        /\ run[c] \in Messages /\ Asked(run[c], num[c])
        /\ UNCHANGED <<conn, ready, seq, pending, msg, num, chan, run, result,
                       outbox, inbox, greeted, progress>>
    BY DEF EnterRun, RunReturns, RunTimesOut, wire, Inv, PcOK, OriginInv
  <1>2. /\ run \in [Callers -> {"empty"} \cup Messages] /\ DOMAIN runs \subseteq Messages
        /\ \A n \in DOMAIN pending : pending[n] # c
    BY <1>1, Entries DEF Inv, Shapes
  <1>3. CASE EnterRun(c)
    <2>1. /\ pc[c] = "accepted" /\ pc' = [pc EXCEPT ![c] = "running"]
          /\ runs' = Put(runs, run[c], c)
      BY <1>3 DEF EnterRun, Goto
    <2>2. /\ DOMAIN runs' \subseteq Messages
          /\ \A m \in DOMAIN runs' : \/ m \in DOMAIN runs /\ runs'[m] = runs[m] /\ runs[m] # c
                                     \/ runs'[m] = c /\ run[c] = m
      <3>1. \A m \in DOMAIN runs : runs[m] # c
        BY <2>1, Entries
      <3>2. QED
        BY <1>1, <1>2, <2>1, <3>1 DEF Put
    <2>3. QED
      BY <1>1, <1>2, <2>1, <2>2, LateStep
  <1>4. CASE RunReturns(c) \/ RunTimesOut(c)
    <2>1. pc[c] = "running" /\ \E l : Ends(c, l)
      BY <1>4 DEF RunReturns, RunTimesOut, Goto, Ends
    <2>2. /\ DOMAIN runs' \subseteq Messages
          /\ \A m \in DOMAIN runs' : m \in DOMAIN runs /\ runs'[m] = runs[m] /\ runs[m] # c
      <3>1. \A m \in DOMAIN runs : runs[m] = c => m = run[c]
        BY Entries
      <3>2. runs' = Delete(runs, run[c])
        BY <1>4 DEF RunReturns, RunTimesOut
      <3>3. QED
        BY <1>2, <3>1, <3>2 DEF Delete
    <2>3. TakesBack(c)
      BY <1>1, <1>2, <2>2 DEF TakesBack
    <2>4. OthersAsBefore
      BY <1>1 DEF OthersAsBefore
    <2>5. QED
      BY <2>1, <2>3, <2>4, EndStep
  <1>5. QED
    BY <1>3, <1>4

(* A goroutine enters pending, under a number another call may hold too.   *)
LEMMA EnterStep == ASSUME Inv, NEW a \in Requesters, Enter(a) PROVE Inv'
  <1>1. /\ pc[a] = "drawn" /\ pc' = [pc EXCEPT ![a] = "registered"]
        /\ pending' = Put(pending, Key(a), a)
        /\ UNCHANGED <<conn, ready, seq, runs, msg, num, chan, run, result,
                       outbox, inbox, greeted, progress>>
    BY DEF Enter, Goto, wire
  <1>2. /\ a \in Goroutines /\ a # Boot /\ (a \in Callers => msg[a] \in Messages)
        /\ Key(a) \in Nat /\ (a # Reader => Key(a) = num[a] /\ num[a] > 0) /\ chan[a] = "empty"
    BY <1>1, Names DEF Inv, PcOK, Key, ValuesOK, NumberInv, PendingInv, ChallengeInv, Early
  <1>3. /\ PcOK' /\ pc' \in [Goroutines -> Labels]
        /\ pc'[a] = "registered" /\ \A b \in Goroutines : b # a => pc'[b] = pc[b]
    <2>1. PICK l \in {"registered"} : pc' = [pc EXCEPT ![a] = l]
      BY <1>1
    <2>2. l \in CallerLabels
      BY DEF CallerLabels
    <2>3. QED
      BY <1>1, <1>2, <2>1, <2>2, Moved
  <1>4. /\ DOMAIN pending' = DOMAIN pending \cup {Key(a)} /\ pending'[Key(a)] = a
        /\ \A n \in DOMAIN pending \ {Key(a)} : pending'[n] = pending[n]
    BY <1>1 DEF Put
  <1>5. SharedOK' /\ ValuesOK' /\ WireOK' /\ Shapes'
    BY <1>1, <1>2, <1>3, <1>4 DEF Inv, SharedOK, ValuesOK, WireOK, Shapes
  <1>6. ConnInv'
    BY <1>1, <1>2, <1>3, Names DEF Inv, ConnInv
  <1>7. ChallengeInv'
    <2>1. pc'[Reader] \in {"off"} \cup Early =>
             a # Reader /\ pc'[Reader] = pc[Reader]
      BY <1>3, Names DEF Early
    <2>2. Challenged => a # Reader
      BY <1>1 DEF Inv, ChallengeInv
    <2>3. QED
      BY <1>1, <1>2, <1>3, <1>4, <2>1, <2>2, Names DEF Inv, ChallengeInv, Challenged
  <1>8. NumberInv'
    BY <1>1, <1>2, <1>3, Names DEF Inv, NumberInv
  <1>9. PendingInv'
    <2>1. \A n \in DOMAIN pending' : pending'[n] \in Requesters
      BY <1>5 DEF SharedOK
    <2>2. \A n \in DOMAIN pending' :
             /\ n = Key(pending'[n]) /\ chan[pending'[n]] = "empty"
             /\ \/ pending'[n] = Reader
                \/ n > 0 /\ pc'[pending'[n]] \in {"registered", "waiting", "panicked"}
      BY <1>2, <1>3, <1>4, <2>1, Names DEF Inv, PendingInv
    <2>3. \A d \in Callers : pc'[d] \in Early => chan[d] = "empty"
      BY <1>1, <1>3, Names DEF Inv, PendingInv, Early
    <2>4. \A b : Key(b)' = Key(b)
      BY <1>1 DEF Key
    <2>5. QED
      BY <1>1, <2>2, <2>3, <2>4 DEF PendingInv, Key
  <1>10. RunsInv'
    BY <1>1, <1>3, Names DEF Inv, RunsInv, SharedOK
  <1>11. OriginInv'
    <2>1. ASSUME NEW m, NEW n, Asked(m, n) PROVE Asked(m, n)'
      BY <1>1, <1>3, <2>1, Names DEF Asked, Early
    <2>2. \A d \in Callers : pc'[d] \in {"accepted", "running", "answered"} => pc[d] = pc'[d]
      BY <1>3, Names
    <2>3. QED
      BY <1>1, <2>1, <2>2 DEF Inv, OriginInv
  <1>12. EndInv'
    <2>1. \A d \in Callers : d # a => pc'[d] = pc[d]
      BY <1>3, Names
    <2>2. QED
      BY <1>1, <1>3, <2>1 DEF Inv, EndInv, Done
  <1>13. QED
    BY <1>3, <1>5, <1>6, <1>7, <1>8, <1>9, <1>10, <1>11, <1>12 DEF Inv

-----------------------------------------------------------------------------
(* The reader moves, or stays where it is.                                 *)
LEMMA ReaderMoves ==
    ASSUME Inv, NEW l \in {"reading", "numbering", "stopped"},
           pc[Reader] \notin {"off", "panicked"}, pc' = [pc EXCEPT ![Reader] = l],
           UNCHANGED <<conn, seq, msg, num, run>>
    PROVE  /\ PcOK' /\ Shapes' /\ ConnInv' /\ NumberInv'
           /\ pc'[Reader] = l /\ \A c \in Callers : pc'[c] = pc[c]
           /\ \A m, n : Asked(m, n) => Asked(m, n)'
  <1>1. Reader \in Goroutines /\ Reader # Boot /\ Reader \notin Callers
    BY Names
  <1>2. /\ PcOK' /\ pc' \in [Goroutines -> Labels]
        /\ pc'[Reader] = l /\ \A b \in Goroutines : b # Reader => pc'[b] = pc[b]
    BY <1>1, Moved
  <1>3. Shapes'
    BY <1>2 DEF Inv, Shapes
  <1>4. ConnInv'
    BY <1>1, <1>2, Names DEF Inv, ConnInv
  <1>5. NumberInv'
    BY <1>1, <1>2, Names DEF Inv, NumberInv
  <1>6. \A m, n : Asked(m, n) => Asked(m, n)'
    BY <1>1, <1>2, Names DEF Asked
  <1>7. QED
    BY <1>1, <1>2, <1>3, <1>4, <1>5, <1>6, Names

(* sendConnect writes its request.                                         *)
LEMMA ConnectWritten == ASSUME Inv, Write(Reader) PROVE Inv'
  <1>1. /\ pc[Reader] = "registered" /\ pc' = [pc EXCEPT ![Reader] = "reading"]
        /\ \A r \in outbox' : r \in outbox \/ r = Request(0, "connect", Reader)
        /\ UNCHANGED <<conn, ready, seq, pending, runs, msg, num, chan, run, result,
                       inbox, greeted, progress>>
    BY DEF Write, Goto, Sent, Key
  <1>2. PICK l \in {"reading"} : pc' = [pc EXCEPT ![Reader] = l]
    BY <1>1
  <1>3. /\ PcOK' /\ Shapes' /\ ConnInv' /\ NumberInv'
        /\ pc'[Reader] = "reading" /\ \A c \in Callers : pc'[c] = pc[c]
        /\ \A m, n : Asked(m, n) => Asked(m, n)'
    BY <1>1, <1>2, ReaderMoves
  <1>4. SharedOK' /\ ValuesOK'
    BY <1>1 DEF Inv, SharedOK, ValuesOK
  <1>5. WireOK' /\ \A r \in outbox' : r \in outbox \/ (r.msg = "connect" /\ r.num = 0)
    <2>1. /\ Request(0, "connect", Reader).msg = "connect" /\ Request(0, "connect", Reader).num = 0
          /\ Request(0, "connect", Reader)
                \in [num : Nat, msg : Messages \cup {"connect"}, from : Requesters]
      BY Names DEF Request
    <2>2. QED
      BY <1>1, <2>1 DEF Inv, WireOK
  <1>6. ChallengeInv'
    BY <1>1, <1>3 DEF Inv, ChallengeInv, Challenged, Early
  <1>7. PendingInv' /\ RunsInv'
    BY <1>1, <1>3, Names DEF Inv, PendingInv, RunsInv, SharedOK, Key
  <1>8. OriginInv'
    BY <1>1, <1>3, <1>5 DEF Inv, OriginInv
  <1>9. EndInv'
    BY <1>1, <1>3 DEF Inv, EndInv
  <1>10. QED
    BY <1>3, <1>4, <1>5, <1>6, <1>7, <1>8, <1>9 DEF Inv

(* A panic of the reader ends the process.                                 *)
LEMMA ProcessPanics == ASSUME Inv, WritePanics(Reader) PROVE Inv'
  <1>1. /\ pc[Reader] = "registered" /\ pc' = [b \in DOMAIN pc |-> "panicked"]
        /\ conn' = "dead" /\ outbox' = {}
        /\ UNCHANGED <<ready, seq, pending, runs, msg, num, chan, run, result,
                       inbox, greeted, progress>>
    BY DEF WritePanics, Disconnect
  <1>2. /\ pc' \in [Goroutines -> Labels] /\ \A b \in Goroutines : pc'[b] = "panicked"
    BY <1>1 DEF Inv, Shapes, Labels, Done
  <1>3. \A c \in Callers : pc'[c] = "panicked"
    BY <1>2, Names
  <1>4. pc'[Boot] = "panicked" /\ pc'[Reader] = "panicked"
    BY <1>2, Names
  <1>5. SharedOK' /\ PcOK' /\ ValuesOK' /\ WireOK' /\ Shapes'
    BY <1>1, <1>2, <1>3, <1>4 DEF Inv, SharedOK, PcOK, ValuesOK, WireOK, Shapes, Done
  <1>6. ConnInv' /\ ChallengeInv' /\ NumberInv'
    BY <1>1, <1>2, <1>3, <1>4, Names
       DEF Inv, ConnInv, ChallengeInv, NumberInv, Challenged, Early
  <1>7. PendingInv' /\ RunsInv'
    BY <1>1, <1>3, Names DEF Inv, PendingInv, RunsInv, SharedOK, Key, Early
  <1>8. OriginInv'
    <2>1. ASSUME NEW m, NEW n, Asked(m, n) PROVE Asked(m, n)'
      BY <1>1, <1>3, <2>1 DEF Asked, Early
    <2>2. QED
      BY <1>1, <1>3, <2>1 DEF Inv, OriginInv
  <1>9. EndInv'
    BY <1>1, <1>3 DEF Inv, EndInv, Done
  <1>10. QED
    BY <1>5, <1>6, <1>7, <1>8, <1>9 DEF Inv

(* What is left in inbox when a frame has been received.                   *)
LEMMA FrameTaken ==
    ASSUME Inv, NEW kinds, Receive(kinds)
    PROVE  /\ WireOK' <=> /\ outbox' \subseteq [num : Nat, msg : Messages \cup {"connect"},
                                               from : Requesters]
                          /\ greeted' \in BOOLEAN
                          /\ progress' \in [Messages -> {"new", "running", "spoken", "ended"}]
           /\ pc[Reader] = "reading" /\ Head(inbox).kind \in kinds
           /\ Head(inbox) \in FrameType /\ 1 \in DOMAIN inbox /\ Head(inbox) = inbox[1]
           /\ \A i \in DOMAIN inbox' :
                 /\ \E j \in DOMAIN inbox : inbox'[i] = inbox[j]
                 /\ inbox'[i].kind # "challenge"
  <1>1. /\ pc[Reader] = "reading" /\ inbox # <<>> /\ Head(inbox).kind \in kinds
        /\ inbox' = Tail(inbox)
    BY DEF Receive
  <1>2. /\ inbox' \in Seq(FrameType)
        /\ 1 \in DOMAIN inbox /\ Head(inbox) = inbox[1] /\ inbox[1] \in FrameType
        /\ \A i \in DOMAIN inbox' : i + 1 \in DOMAIN inbox /\ i + 1 # 1 /\ inbox'[i] = inbox[i + 1]
    BY <1>1, Received DEF Inv
  <1>3. \A i \in DOMAIN inbox' : inbox'[i].kind # "challenge"
    BY <1>2 DEF Inv, ChallengeInv
  <1>4. QED
    BY <1>1, <1>2, <1>3 DEF WireOK

(* The facts about frames, of what is left.                                *)
LEMMA FramesLeft ==
    ASSUME Inv, NEW kinds, Receive(kinds), UNCHANGED progress,
           \A m, n : Asked(m, n) => Asked(m, n)'
    PROVE  /\ ~Challenged'
           /\ \A i \in DOMAIN inbox' : inbox'[i].kind = "res" =>
                 \/ inbox'[i].body = "hello" /\ inbox'[i].num = 0
                 \/ inbox'[i].body = "refused"
                 \/ inbox'[i].body \in Messages /\ Asked(inbox[i].body, inbox[i].num)'
           /\ \A i \in DOMAIN inbox' : inbox'[i].kind \in {"text", "end"} =>
                 /\ inbox'[i].body \in Messages
                 /\ inbox'[i].kind = "end" => progress'[inbox'[i].body] = "ended"
  <1>1. /\ \A i \in DOMAIN inbox' : /\ \E j \in DOMAIN inbox : inbox'[i] = inbox[j]
                                  /\ inbox'[i].kind # "challenge"
    BY FrameTaken
  <1>2. ~Challenged'
    BY <1>1 DEF Challenged
  <1>3. \A i \in DOMAIN inbox' : inbox'[i].kind = "res" =>
           \/ inbox'[i].body = "hello" /\ inbox'[i].num = 0
           \/ inbox'[i].body = "refused"
           \/ inbox'[i].body \in Messages /\ Asked(inbox[i].body, inbox[i].num)'
    BY <1>1 DEF Inv, OriginInv
  <1>4. \A i \in DOMAIN inbox' : inbox'[i].kind \in {"text", "end"} =>
           /\ inbox'[i].body \in Messages
           /\ inbox'[i].kind = "end" => progress'[inbox'[i].body] = "ended"
    BY <1>1 DEF Inv, EndInv
  <1>5. QED
    BY <1>2, <1>3, <1>4

LEMMA ChallengeStep == ASSUME Inv, Challenge PROVE Inv'
  <1>1. /\ Receive({"challenge"}) /\ pc' = [pc EXCEPT ![Reader] = "numbering"]
        /\ UNCHANGED <<conn, ready, seq, pending, runs, msg, num, chan, run, result,
                       outbox, greeted, progress>>
    BY DEF Challenge, Goto, shared
  <1>2. /\ pc[Reader] = "reading" /\ Challenged /\ WireOK'
    BY <1>1, FrameTaken DEF Challenged, Inv, WireOK
  <1>3. PICK l \in {"numbering"} : pc' = [pc EXCEPT ![Reader] = l]
    BY <1>1
  <1>4. /\ PcOK' /\ Shapes' /\ ConnInv' /\ NumberInv'
        /\ pc'[Reader] = "numbering" /\ \A c \in Callers : pc'[c] = pc[c]
        /\ \A m, n : Asked(m, n) => Asked(m, n)'
    BY <1>1, <1>2, <1>3, ReaderMoves
  <1>5. SharedOK' /\ ValuesOK'
    BY <1>1 DEF Inv, SharedOK, ValuesOK
  <1>6. ChallengeInv'
    <2>1. ~Challenged' /\ \A i \in DOMAIN inbox' : inbox'[i].kind # "challenge"
      BY <1>1, <1>4, FramesLeft, FrameTaken
    <2>2. QED
      BY <1>1, <1>2, <2>1 DEF Inv, ChallengeInv
  <1>7. PendingInv' /\ RunsInv'
    BY <1>1, <1>4, Names DEF Inv, PendingInv, RunsInv, SharedOK, Key
  <1>8. OriginInv'
    BY <1>1, <1>4, FramesLeft DEF Inv, OriginInv
  <1>9. EndInv'
    BY <1>1, <1>4, FramesLeft DEF Inv, EndInv
  <1>10. QED
    BY <1>2, <1>4, <1>5, <1>6, <1>7, <1>8, <1>9 DEF Inv

(* An answer is passed on: nobody else is in pending under its number.     *)
LEMMA ResponseStep == ASSUME Inv, Response PROVE Inv'
  <1> DEFINE f == Head(inbox)
  <1>1. /\ Receive({"res"})
        /\ ready' = (ready \/ f.body = "hello")
        /\ UNCHANGED <<conn, seq, runs, pc, msg, num, run, result, outbox, greeted, progress>>
        /\ f.num \in DOMAIN pending => /\ chan' = [chan EXCEPT ![pending[f.num]] = f.body]
                                       /\ pending' = Delete(pending, f.num)
        /\ f.num \notin DOMAIN pending => UNCHANGED <<chan, pending>>
    BY DEF Response
  <1>2. /\ pc[Reader] = "reading" /\ WireOK'
        /\ f \in FrameType /\ 1 \in DOMAIN inbox /\ f = inbox[1] /\ f.kind = "res"
    BY <1>1, FrameTaken DEF Inv, WireOK
  <1>3. PICK l \in {"reading"} : pc' = [pc EXCEPT ![Reader] = l]
    BY <1>1, <1>2 DEF Inv, Shapes
  <1>4. /\ PcOK' /\ Shapes' /\ ConnInv' /\ NumberInv'
        /\ \A m, n : Asked(m, n) => Asked(m, n)'
    BY <1>1, <1>2, <1>3, ReaderMoves
  <1>5. /\ ~Challenged' /\ \A i \in DOMAIN inbox' : inbox'[i].kind # "challenge"
    BY <1>1, <1>4, FramesLeft, FrameTaken
  <1>6. \/ f.body = "hello" /\ f.num = 0
        \/ f.body = "refused"
        \/ f.body \in Messages /\ Asked(f.body, f.num)
    BY <1>2 DEF Inv, OriginInv
  <1>7. /\ f.num \in Nat /\ f.body \in {"empty", "refused", "hello"} \cup Messages
        /\ chan \in [Requesters -> {"empty", "refused", "hello"} \cup Messages]
    BY <1>2 DEF FrameType, Inv, ValuesOK
  <1> HIDE DEF f
  <1>8. /\ DOMAIN pending' = DOMAIN pending \ {f.num}
        /\ \A n \in DOMAIN pending' : pending'[n] = pending[n] /\ n # f.num
    BY <1>1 DEF Delete
  <1>9. /\ chan' \in [Requesters -> {"empty", "refused", "hello"} \cup Messages]
        /\ \A a \in Requesters : \/ chan'[a] = chan[a]
                                 \/ /\ f.num \in DOMAIN pending /\ a = pending[f.num]
                                    /\ chan'[a] = f.body
    BY <1>1, <1>7
  <1>10. \A n \in DOMAIN pending : pending[n] \in Requesters /\ n = Key(pending[n])
    BY DEF Inv, SharedOK, PendingInv
  <1>11. SharedOK' /\ ValuesOK'
    BY <1>1, <1>8, <1>9 DEF Inv, SharedOK, ValuesOK
  <1>12. ChallengeInv'
    BY <1>1, <1>2, <1>5 DEF Inv, ChallengeInv, Early
  <1>13. PendingInv'
    <2>1. \A n \in DOMAIN pending' : chan'[pending'[n]] = chan[pending[n]]
      BY <1>8, <1>9, <1>10
    <2>2. \A c \in Callers : pc[c] \in Early => chan'[c] = chan[c]
      <3>1. \A n \in DOMAIN pending : pending[n] \in Callers => pc[pending[n]] \notin Early
        BY Names DEF Inv, PendingInv, Early
      <3>2. QED
        BY <1>9, <3>1, Names
    <2>3. QED
      BY <1>1, <1>8, <2>1, <2>2 DEF Inv, PendingInv, Key
  <1>14. RunsInv'
    BY <1>1 DEF Inv, RunsInv
  <1>15. OriginInv'
    <2>1. \A c \in Callers : \/ chan'[c] \in {"empty", "refused"}
                             \/ chan'[c] \in Messages /\ Asked(chan'[c], num[c])
      <3>1. ASSUME NEW c \in Callers, f.num \in DOMAIN pending, c = pending[f.num], chan'[c] = f.body
            PROVE  \/ chan'[c] \in {"empty", "refused"}
                   \/ chan'[c] \in Messages /\ Asked(chan'[c], num[c])
        <4>1. f.num = num[c] /\ f.num > 0
          BY <3>1, Names DEF Inv, PendingInv, Key
        <4>2. QED
          BY <1>6, <3>1, <4>1
      <3>2. \A c \in Callers : c \in Requesters
        BY Names
      <3>3. QED
        BY <1>9, <3>1, <3>2 DEF Inv, OriginInv
    <2>2. QED
      BY <1>1, <1>4, <2>1, FramesLeft DEF Inv, OriginInv
  <1>16. EndInv'
    BY <1>1, <1>4, FramesLeft DEF Inv, EndInv
  <1>17. QED
    BY <1>2, <1>4, <1>11, <1>12, <1>13, <1>14, <1>15, <1>16 DEF Inv

(* An event reaches the call that has entered its run.                     *)
LEMMA EventStep == ASSUME Inv, AgentEvent PROVE Inv'
  <1> DEFINE f == Head(inbox)
  <1>1. /\ Receive({"text", "end"})
        /\ result' = IF f.body \notin DOMAIN runs THEN result
                     ELSE IF f.kind = "text"
                     THEN [result EXCEPT ![runs[f.body]].text = TRUE]
                     ELSE [result EXCEPT ![runs[f.body]].done = TRUE]
        /\ UNCHANGED <<conn, ready, seq, pending, runs, pc, msg, num, chan, run,
                       outbox, greeted, progress>>
    BY DEF AgentEvent, shared
  <1>2. /\ pc[Reader] = "reading" /\ WireOK'
        /\ f \in FrameType /\ 1 \in DOMAIN inbox /\ f = inbox[1] /\ f.kind \in {"text", "end"}
    BY <1>1, FrameTaken DEF Inv, WireOK
  <1>3. PICK l \in {"reading"} : pc' = [pc EXCEPT ![Reader] = l]
    BY <1>1, <1>2 DEF Inv, Shapes
  <1>4. /\ PcOK' /\ Shapes' /\ ConnInv' /\ NumberInv'
        /\ \A m, n : Asked(m, n) => Asked(m, n)'
    BY <1>1, <1>2, <1>3, ReaderMoves
  <1>5. /\ ~Challenged' /\ \A i \in DOMAIN inbox' : inbox'[i].kind # "challenge"
    BY <1>1, <1>4, FramesLeft, FrameTaken
  <1>6. f.body \in Messages /\ (f.kind = "end" => progress[f.body] = "ended")
    BY <1>2 DEF Inv, EndInv
  <1> HIDE DEF f
  <1>7. /\ result' \in [Callers -> [text : BOOLEAN, done : BOOLEAN, err : BOOLEAN]]
        /\ \A c \in Callers :
              \/ result'[c].done = result[c].done /\ result'[c].err = result[c].err
              \/ f.kind = "end" /\ f.body \in DOMAIN runs /\ c = runs[f.body]
    <2>1. result \in [Callers -> [text : BOOLEAN, done : BOOLEAN, err : BOOLEAN]]
      BY DEF Inv, ValuesOK
    <2>2. CASE f.body \notin DOMAIN runs
      BY <1>1, <2>1, <2>2
    <2>3. CASE f.body \in DOMAIN runs
      <3>1. PICK c \in Callers : c = runs[f.body]
        BY <2>3 DEF Inv, SharedOK
      <3>2. PICK r \in [text : BOOLEAN, done : BOOLEAN, err : BOOLEAN] :
               /\ result' = [result EXCEPT ![c] = r]
               /\ r.err = result[c].err
               /\ f.kind = "text" => r.done = result[c].done
        <4>1. CASE f.kind = "text"
          <5>1. LET r == [result[c] EXCEPT !.text = TRUE]
                IN  /\ r \in [text : BOOLEAN, done : BOOLEAN, err : BOOLEAN]
                    /\ r.err = result[c].err /\ r.done = result[c].done
            BY <2>1
          <5>2. result' = [result EXCEPT ![c] = [result[c] EXCEPT !.text = TRUE]]
            BY <1>1, <2>3, <3>1, <4>1
          <5>3. QED
            BY <5>1, <5>2
        <4>2. CASE f.kind = "end"
          <5>1. LET r == [result[c] EXCEPT !.done = TRUE]
                IN  /\ r \in [text : BOOLEAN, done : BOOLEAN, err : BOOLEAN]
                    /\ r.err = result[c].err
            BY <2>1
          <5>2. result' = [result EXCEPT ![c] = [result[c] EXCEPT !.done = TRUE]]
            BY <1>1, <2>3, <3>1, <4>2
          <5>3. QED
            BY <4>2, <5>1, <5>2
        <4>3. QED
          BY <1>2, <4>1, <4>2
      <3>3. /\ result'[c] = r /\ \A d \in Callers : d # c => result'[d] = result[d]
            /\ result' \in [Callers -> [text : BOOLEAN, done : BOOLEAN, err : BOOLEAN]]
        BY <2>1, <3>2
      <3>4. QED
        BY <1>2, <2>3, <3>1, <3>2, <3>3
    <2>4. QED
      BY <2>2, <2>3
  <1>8. SharedOK' /\ ValuesOK'
    BY <1>1, <1>7 DEF Inv, SharedOK, ValuesOK
  <1>9. ChallengeInv'
    BY <1>1, <1>2, <1>5 DEF Inv, ChallengeInv, Early
  <1>10. PendingInv' /\ RunsInv'
    BY <1>1 DEF Inv, PendingInv, RunsInv, Key
  <1>11. OriginInv'
    BY <1>1, <1>4, FramesLeft DEF Inv, OriginInv
  <1>12. EndInv'
    <2>1. \A c \in Callers : result'[c].done /\ ~result'[c].err =>
             /\ pc[c] \in {"running"} \cup Done
             /\ run[c] \in Messages /\ progress[run[c]] = "ended"
      <3>1. ASSUME f.kind = "end", f.body \in DOMAIN runs, NEW c \in Callers, c = runs[f.body]
            PROVE  /\ pc[c] \in {"running"} \cup Done
                   /\ run[c] \in Messages /\ progress[run[c]] = "ended"
        BY <1>6, <3>1 DEF Inv, RunsInv, Done
      <3>2. QED
        BY <1>7, <3>1 DEF Inv, EndInv
    <2>2. QED
      BY <1>1, <1>4, <2>1, FramesLeft DEF Inv, EndInv
  <1>13. QED
    BY <1>2, <1>4, <1>8, <1>9, <1>10, <1>11, <1>12 DEF Inv

(* The connection is lost: everybody who waits is told.                    *)
LEMMA StopStep == ASSUME Inv, ReaderStops PROVE Inv'
  <1>1. /\ pc[Reader] = "reading" /\ pc' = [pc EXCEPT ![Reader] = "stopped"]
        /\ chan' = [a \in Requesters |-> IF a \in Told(pending) THEN "refused" ELSE chan[a]]
        /\ pending' = EmptyMap
        /\ result' = [c \in Callers |-> IF c \in Told(runs)
                        THEN [result[c] EXCEPT !.done = TRUE, !.err = TRUE] ELSE result[c]]
        /\ inbox' = <<>>
        /\ UNCHANGED <<conn, ready, seq, runs, msg, num, run, outbox, greeted, progress>>
    BY DEF ReaderStops, Goto
  <1>2. PICK l \in {"stopped"} : pc' = [pc EXCEPT ![Reader] = l]
    BY <1>1
  <1>3. /\ PcOK' /\ Shapes' /\ ConnInv' /\ NumberInv'
        /\ pc'[Reader] = "stopped" /\ \A c \in Callers : pc'[c] = pc[c]
        /\ \A m, n : Asked(m, n) => Asked(m, n)'
    BY <1>1, <1>2, ReaderMoves
  <1>4. DOMAIN pending' = {} /\ DOMAIN inbox' = {} /\ inbox' \in Seq(FrameType)
    <2>1. DOMAIN pending' = {}
      BY <1>1 DEF EmptyMap
    <2>2. inbox' = <<>> => DOMAIN inbox' = {} /\ inbox' \in Seq(FrameType)
      OBVIOUS
    <2>3. QED
      BY <1>1, <2>1, <2>2
  <1>5. \A a \in Requesters : chan'[a] = IF a \in Told(pending) THEN "refused" ELSE chan[a]
    BY <1>1
  <1>6. /\ result' \in [Callers -> [text : BOOLEAN, done : BOOLEAN, err : BOOLEAN]]
        /\ \A c \in Callers : result'[c].done /\ ~result'[c].err =>
              result[c].done /\ ~result[c].err
    <2>1. result \in [Callers -> [text : BOOLEAN, done : BOOLEAN, err : BOOLEAN]]
      BY DEF Inv, ValuesOK
    <2>2. \A c \in Callers :
             LET r == [result[c] EXCEPT !.done = TRUE, !.err = TRUE]
             IN  r \in [text : BOOLEAN, done : BOOLEAN, err : BOOLEAN] /\ r.err = TRUE
      BY <2>1
    <2>3. QED
      BY <1>1, <2>1, <2>2
  <1>7. SharedOK' /\ ValuesOK' /\ WireOK'
    BY <1>1, <1>4, <1>6 DEF Inv, SharedOK, ValuesOK, WireOK
  <1>8. ChallengeInv'
    BY <1>3, <1>4 DEF ChallengeInv, Challenged, Early
  <1>9. PendingInv'
    <2>1. \A c \in Callers : pc[c] \in Early => c \notin Told(pending)
      BY Names DEF Inv, PendingInv, Told, Early
    <2>2. QED
      BY <1>3, <1>4, <1>5, <2>1, Names DEF Inv, PendingInv
  <1>10. RunsInv'
    <2>1. \A m \in DOMAIN runs : runs[m] \in Callers
      BY DEF Inv, SharedOK
    <2>2. UNCHANGED <<runs, run>>
      BY <1>1
    <2>3. QED
      BY <1>3, <2>1, <2>2 DEF Inv, RunsInv
  <1>11. OriginInv'
    <2>1. \A c \in Callers : chan'[c] = chan[c] \/ chan'[c] = "refused"
      BY <1>5, Names
    <2>2. QED
      BY <1>1, <1>3, <1>4, <2>1 DEF Inv, OriginInv
  <1>12. EndInv'
    BY <1>1, <1>3, <1>4, <1>6 DEF Inv, EndInv
  <1>13. QED
    BY <1>3, <1>7, <1>8, <1>9, <1>10, <1>11, <1>12 DEF Inv

-----------------------------------------------------------------------------
(* The gateway sends a frame.                                              *)
LEMMA FrameSent ==
    ASSUME Inv, NEW f \in FrameType, f.kind # "challenge", inbox' = Append(inbox, f),
           UNCHANGED <<shared, local>>, outbox' \subseteq outbox, greeted' \in BOOLEAN,
           progress' \in [Messages -> {"new", "running", "spoken", "ended"}],
           \A m \in Messages : progress[m] = "ended" => progress'[m] = "ended",
           f.kind = "res" => \/ f.body = "hello" /\ f.num = 0
                             \/ f.body = "refused"
                             \/ f.body \in Messages /\ Asked(f.body, f.num),
           f.kind \in {"text", "end"} => /\ f.body \in Messages
                                         /\ f.kind = "end" => progress'[f.body] = "ended"
    PROVE  Inv'
  <1>1. UNCHANGED <<conn, ready, seq, pending, runs, pc, msg, num, chan, run, result>>
    BY DEF shared, local
  <1>2. /\ inbox' \in Seq(FrameType)
        /\ \A i \in DOMAIN inbox' : \/ inbox'[i] = f
                                    \/ i \in DOMAIN inbox /\ inbox'[i] = inbox[i]
    BY Appended DEF Inv
  <1>3. SharedOK' /\ PcOK' /\ ValuesOK' /\ WireOK' /\ Shapes'
    BY <1>1, <1>2 DEF Inv, SharedOK, PcOK, ValuesOK, WireOK, Shapes
  <1>4. ConnInv' /\ NumberInv'
    BY <1>1 DEF Inv, ConnInv, NumberInv
  <1>5. ChallengeInv'
    <2>1. /\ \A i \in DOMAIN inbox' : inbox'[i].kind = "challenge" => i = 1
          /\ Challenged' => Challenged
      BY <1>2 DEF Inv, ChallengeInv, Challenged
    <2>2. QED
      BY <1>1, <2>1 DEF Inv, ChallengeInv
  <1>6. PendingInv' /\ RunsInv'
    BY <1>1 DEF Inv, PendingInv, RunsInv, Key
  <1>7. OriginInv'
    <2>1. \A m, n : Asked(m, n)' <=> Asked(m, n)
      BY <1>1 DEF Asked
    <2>2. \A i \in DOMAIN inbox' : inbox'[i].kind = "res" =>
             \/ inbox'[i].body = "hello" /\ inbox'[i].num = 0
             \/ inbox'[i].body = "refused"
             \/ inbox'[i].body \in Messages /\ Asked(inbox'[i].body, inbox'[i].num)
      BY <1>2 DEF Inv, OriginInv
    <2>3. QED
      BY <1>1, <2>1, <2>2 DEF Inv, OriginInv, Asked
  <1>8. EndInv'
    <2>1. \A i \in DOMAIN inbox' : inbox'[i].kind \in {"text", "end"} =>
             /\ inbox'[i].body \in Messages
             /\ inbox'[i].kind = "end" => progress'[inbox'[i].body] = "ended"
      BY <1>2 DEF Inv, EndInv
    <2>2. \A c \in Callers : pc[c] = "answered" => run[c] \in Messages
      BY DEF Inv, PcOK
    <2>3. QED
      BY <1>1, <2>1, <2>2 DEF Inv, EndInv
  <1>9. QED
    BY <1>3, <1>4, <1>5, <1>6, <1>7, <1>8 DEF Inv

LEMMA AcceptStep == ASSUME Inv, NEW r \in outbox, Accept(r) PROVE Inv'
  <1>1. /\ r.num \in Nat /\ r.msg \in Messages \cup {"connect"}
        /\ progress \in [Messages -> {"new", "running", "spoken", "ended"}] /\ greeted \in BOOLEAN
        /\ IF r.msg = "connect" THEN r.num = 0 ELSE Asked(r.msg, r.num)
    BY DEF Inv, WireOK, OriginInv
  <1>2. UNCHANGED <<shared, local>> /\ outbox' \subseteq outbox
    BY DEF Accept
  <1>3. CASE r.msg = "connect"
    <2>1. PICK f : f = Frame("res", r.num, "hello")
      OBVIOUS
    <2>2. f \in FrameType /\ f.kind = "res" /\ f.body = "hello" /\ f.num = 0
      BY <1>1, <1>3, <2>1 DEF Frame, FrameType
    <2>3. inbox' = Append(inbox, f) /\ greeted' = TRUE /\ UNCHANGED progress
      BY <1>3, <2>1 DEF Accept, Emit
    <2>4. QED
      BY <1>1, <1>2, <2>2, <2>3, FrameSent
  <1>4. CASE r.msg # "connect"
    <2>1. PICK f : f = Frame("res", r.num, r.msg)
      OBVIOUS
    <2>2. /\ f \in FrameType /\ f.kind = "res"
          /\ f.body \in Messages /\ Asked(f.body, f.num)
      BY <1>1, <1>4, <2>1 DEF Frame, FrameType
    <2>3. /\ inbox' = Append(inbox, f) /\ UNCHANGED greeted
          /\ progress' = [progress EXCEPT ![r.msg] = IF @ = "new" THEN "running" ELSE @]
      BY <1>4, <2>1 DEF Accept, Emit
    <2>4. /\ progress' \in [Messages -> {"new", "running", "spoken", "ended"}]
          /\ \A m \in Messages : progress[m] = "ended" => progress'[m] = "ended"
      BY <1>1, <1>4, <2>3
    <2>5. QED
      BY <1>1, <1>2, <2>2, <2>3, <2>4, FrameSent
  <1>5. QED
    BY <1>3, <1>4

LEMMA RefuseStep == ASSUME Inv, NEW r \in outbox, Refuse(r) PROVE Inv'
  <1>1. /\ r.num \in Nat /\ greeted \in BOOLEAN
        /\ progress \in [Messages -> {"new", "running", "spoken", "ended"}]
    BY DEF Inv, WireOK
  <1>2. PICK f : f = Frame("res", r.num, "refused")
    OBVIOUS
  <1>3. f \in FrameType /\ f.kind = "res" /\ f.body = "refused"
    BY <1>1, <1>2 DEF Frame, FrameType
  <1>4. /\ UNCHANGED <<shared, local>> /\ outbox' \subseteq outbox
        /\ inbox' = Append(inbox, f) /\ UNCHANGED <<greeted, progress>>
    BY <1>2 DEF Refuse, Emit
  <1>5. QED
    BY <1>1, <1>3, <1>4, FrameSent

LEMMA RunEventStep == ASSUME Inv, NEW m \in Messages, Speak(m) \/ EndRun(m) PROVE Inv'
  <1>1. PICK k \in {"text", "end"}, p \in {"spoken", "ended"} :
           /\ progress' = [progress EXCEPT ![m] = p] /\ progress[m] # "ended"
           /\ k = "end" => p = "ended"
           /\ inbox' = Append(inbox, Frame(k, 0, m))
    BY DEF Speak, EndRun, Emit
  <1>2. PICK f : f = Frame(k, 0, m)
    OBVIOUS
  <1>3. f \in FrameType /\ f.kind = k /\ f.body = m
    BY <1>2 DEF Frame, FrameType
  <1>4. /\ progress \in [Messages -> {"new", "running", "spoken", "ended"}] /\ greeted \in BOOLEAN
        /\ UNCHANGED <<shared, local, greeted>> /\ outbox' \subseteq outbox
    BY DEF Inv, WireOK, Speak, EndRun
  <1>5. /\ progress' \in [Messages -> {"new", "running", "spoken", "ended"}]
        /\ \A n \in Messages : progress[n] = "ended" => progress'[n] = "ended"
        /\ k = "end" => progress'[m] = "ended"
    BY <1>1, <1>4
  <1>6. QED
    BY <1>1, <1>2, <1>3, <1>4, <1>5, FrameSent

LEMMA LostStep == ASSUME Inv, ConnLost PROVE Inv'
  <1>1. /\ conn = "open" /\ conn' = "dead" /\ outbox' = {}
        /\ UNCHANGED <<ready, seq, pending, runs, pc, msg, num, chan, run, result,
                       inbox, greeted, progress>>
    BY DEF ConnLost, Disconnect, local
  <1>2. SharedOK' /\ PcOK' /\ ValuesOK' /\ WireOK' /\ Shapes'
    BY <1>1 DEF Inv, SharedOK, PcOK, ValuesOK, WireOK, Shapes
  <1>3. ConnInv' /\ ChallengeInv' /\ NumberInv'
    BY <1>1 DEF Inv, ConnInv, ChallengeInv, NumberInv, Challenged
  <1>4. PendingInv' /\ RunsInv' /\ EndInv'
    BY <1>1 DEF Inv, PendingInv, RunsInv, EndInv, Key
  <1>5. OriginInv'
    BY <1>1 DEF Inv, OriginInv, Asked
  <1>6. QED
    BY <1>2, <1>3, <1>4, <1>5 DEF Inv

LEMMA Stutter == ASSUME Inv, UNCHANGED vars PROVE Inv'
  <1>1. UNCHANGED <<conn, ready, seq, pending, runs, pc, msg, num, chan, run, result,
                    outbox, inbox, greeted, progress>>
    BY DEF vars, shared, local, wire
  <1>2. SharedOK' /\ PcOK' /\ ValuesOK' /\ WireOK' /\ Shapes'
    BY <1>1 DEF Inv, SharedOK, PcOK, ValuesOK, WireOK, Shapes
  <1>3. ConnInv' /\ ChallengeInv' /\ NumberInv'
    BY <1>1 DEF Inv, ConnInv, ChallengeInv, NumberInv, Challenged
  <1>4. PendingInv' /\ RunsInv' /\ EndInv'
    BY <1>1 DEF Inv, PendingInv, RunsInv, EndInv, Key
  <1>5. OriginInv'
    BY <1>1 DEF Inv, OriginInv, Asked
  <1>6. QED
    BY <1>2, <1>3, <1>4, <1>5 DEF Inv

-----------------------------------------------------------------------------
LEMMA InvStep == Inv /\ [Next]_vars => Inv'
  <1> SUFFICES ASSUME Inv, [Next]_vars PROVE Inv'
    OBVIOUS
  <1>1. CASE Connect(Boot)
    BY <1>1, ConnectStep
  <1>2. CASE ReadLoop
    <2>1. CASE SendRequest(Reader)
      <3>1. Reader \in Requesters
        BY Names
      <3>2. QED
        BY <2>1, <3>1, NumberStep, EnterStep, ConnectWritten, ProcessPanics DEF SendRequest
    <2>2. QED
      BY <1>2, <2>1, ChallengeStep, ResponseStep, EventStep, StopStep DEF ReadLoop
  <1>3. CASE Gateway
    BY <1>3, AcceptStep, RefuseStep, RunEventStep, LostStep DEF Gateway
  <1>4. ASSUME NEW c \in Callers, Begin(c) \/ Call(c) PROVE Inv'
    <2>1. c \in Requesters /\ c \in Callers \cup {Boot}
      BY Names
    <2>2. CASE Begin(c)
      BY <2>2, BeginStep
    <2>3. CASE Connect(c)
      BY <2>1, <2>3, ConnectStep
    <2>4. CASE SendRequest(c)
      BY <2>1, <2>4, NumberStep, EnterStep, WriteStep, PanicStep DEF SendRequest
    <2>5. QED
      BY <1>4, <2>2, <2>3, <2>4, CallStep, RunStep DEF Call
  <1>5. CASE UNCHANGED vars
    BY <1>5, Stutter
  <1>6. QED
    BY <1>1, <1>2, <1>3, <1>4, <1>5 DEF Next

LEMMA InvHolds == Spec => []Inv
  BY InvInit, InvStep, PTL DEF Spec

-----------------------------------------------------------------------------
(* The type invariant: every entry of pending and of runs is a goroutine's *)
(* own channel, and every frame and request is of a known form.            *)
THEOREM TypeCorrect == Spec => []TypeOK
  <1>1. Inv => TypeOK
    BY TypeParts DEF Inv
  <1>2. QED
    BY <1>1, InvHolds, PTL

(* The reader and whoever else sends to a channel of pending finds it      *)
(* empty, and each channel there once: no send blocks with the lock held,  *)
(* for any number of calls, even when several have drawn the same number.  *)
THEOREM LockIsReleased == Spec => []SendNeverBlocks
  <1>1. Inv => SendNeverBlocks
    BY DEF Inv, PendingInv, SendNeverBlocks
  <1>2. QED
    BY <1>1, InvHolds, PTL

(* pending and runs hold calls under way only, and calls that panicked.    *)
THEOREM EntriesAreTakenBack == Spec => []NoLeak
  <1>1. Inv => NoLeak
    BY DEF Inv, PendingInv, RunsInv, NoLeak
  <1>2. QED
    BY <1>1, InvHolds, PTL

(* An answer is about the caller's own message unless another call has the *)
(* same number - which the unlocked counter allows.                        *)
THEOREM AnswersAreOwn == Spec => []OwnAnswer
  <1>1. Inv => OwnAnswer
    <2> SUFFICES ASSUME Inv, NEW c \in Callers, pc[c] = "answered",
                        \A b \in Callers \ {c} : num[b] # num[c]
                 PROVE  run[c] = msg[c]
      BY DEF OwnAnswer
    <2>1. PICK b \in Callers : msg[b] = run[c] /\ num[b] = num[c]
      BY DEF Inv, OriginInv, Asked
    <2>2. QED
      BY <2>1
  <1>2. QED
    BY <1>1, InvHolds, PTL

(* A call that answers has seen its run end: a lost connection is never    *)
(* taken for the end of a run.                                             *)
THEOREM AnswersAreWhole == Spec => []WholeAnswer
  <1>1. Inv => WholeAnswer
    BY DEF Inv, EndInv, WholeAnswer
  <1>2. QED
    BY <1>1, InvHolds, PTL
=============================================================================
