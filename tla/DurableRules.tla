---------------------------- MODULE DurableRules ----------------------------
(***************************************************************************)
(* What the rule API promises a client that waits for each of its answers: *)
(* a list in force and a list in store, each request one change of the     *)
(* first and then, before the answer 201 or 204, one indivisible copy of   *)
(* it into the second.  Files, locks, temporary names and half-written     *)
(* data are not part of the promise.  RuleStore keeps it.                  *)
(*                                                                         *)
(* Two clauses are as weak as the code: a request that is answered 500 has *)
(* still changed the list in force, so that the next save stores its       *)
(* change too; and a start may find nothing, in which case the store keeps *)
(* its rules until a save replaces them by the little there is.            *)
(***************************************************************************)
EXTENDS Naturals, Sequences

VARIABLES
    up,         \* the service is running
    list,       \* the rules in force
    stored,     \* the rules a start finds
    drawn,      \* the rules ever accepted: no rule is accepted twice
    request     \* "none", "changed" or "kept": how far the request is

vars == <<up, list, stored, drawn, request>>

Init ==
    /\ up = TRUE
    /\ list = <<>> /\ stored = <<>>
    /\ drawn = {}
    /\ request = "none"

(* A new rule comes last: it never takes precedence over an older one.     *)
Accept ==
    /\ up /\ request = "none"
    /\ \E rule \in drawn' \ drawn :
         drawn' = drawn \cup {rule} /\ list' = Append(list, rule)
    /\ request' = "changed"
    /\ UNCHANGED <<up, stored>>

(* The rules that stay keep their order.                                   *)
TakeOut ==
    /\ up /\ request = "none"
    /\ \E i \in DOMAIN list :
         list' = SubSeq(list, 1, i - 1) \o SubSeq(list, i + 1, Len(list))
    /\ request' = "changed"
    /\ UNCHANGED <<up, stored, drawn>>

Keep ==
    /\ up /\ request = "changed"
    /\ stored' = list
    /\ request' = "kept"
    /\ UNCHANGED <<up, list, drawn>>

AnswerOK ==
    /\ up /\ request = "kept"
    /\ request' = "none"
    /\ UNCHANGED <<up, list, stored, drawn>>

AnswerError ==
    /\ up /\ request = "changed"
    /\ request' = "none"
    /\ UNCHANGED <<up, list, stored, drawn>>

Crash ==
    /\ up
    /\ up' = FALSE
    /\ list' = <<>>
    /\ request' = "none"
    /\ UNCHANGED <<stored, drawn>>

Restart ==
    /\ ~up
    /\ up' = TRUE
    /\ list' = stored \/ list' = <<>>
    /\ UNCHANGED <<stored, drawn, request>>

Next ==
    \/ Accept \/ TakeOut \/ Keep \/ AnswerOK \/ AnswerError
    \/ Crash \/ Restart

Spec == Init /\ [][Next]_vars
=============================================================================
