------------------------------ MODULE RuleStore ------------------------------
(***************************************************************************)
(* The routing rules of the coordinator and their copy on disk:            *)
(* internal/coordinator/router.go (AddRule, RemoveRule), store.go          *)
(* (SaveRules, LoadRules) and the two handlers of api.go that call them.   *)
(*                                                                         *)
(* A handler changes the list and copies it while it holds Router.mu, and  *)
(* saves the copy after it has let go of Router.mu, under Store.mu.  The   *)
(* order in which copies are taken and the order in which they reach the   *)
(* disk are therefore two different orders.                                *)
(*                                                                         *)
(* A rule is the number of its acceptance: rule n is the n-th rule that    *)
(* AddRule appended.  The program draws a random identifier (id.go); all   *)
(* that matters here is that it is fresh.  A DELETE of an unknown rule     *)
(* answers 404 and changes nothing, so it is not a step.                   *)
(*                                                                         *)
(* There is a store.  When NewStore fails, the server only warns           *)
(* (server.go:45-50) and runs without one: persistRules then does nothing  *)
(* (router.go:83-85), and what is answered 201 is in memory only.          *)
(***************************************************************************)
EXTENDS Naturals, Sequences

CONSTANTS
    Handlers,   \* the HTTP requests the server can be working on at a time
    MaxRules    \* bound on the number of rules ever added

ASSUME MaxRulesAssumption == MaxRules \in Nat

VARIABLES
    up,         \* the coordinator process is running
    rules,      \* Router.rules
    disk,       \* rules.json
    tmp,        \* the temporary file of the save in progress
    lock,       \* the handlers (at most one) inside Store.mu
    pc,         \* where each handler is
    op,         \* the request each handler works on
    snap,       \* the copy of the list each handler will save
    next,       \* history: the number the next rule gets
    acked,      \* history: rules whose POST was answered 201
    dropped,    \* history: rules some DELETE has taken out of the list
    gone,       \* history: rules whose DELETE was answered 204
    solo,       \* history: handlers that have had no concurrent change
    lost        \* history: some start could not read rules.json

vars == <<up, rules, disk, tmp, lock, pc, op, snap, next,
          acked, dropped, gone, solo, lost>>

history == <<next, acked, dropped, gone, lost>>

-----------------------------------------------------------------------------
RuleId == 1..MaxRules
List   == Seq(RuleId)
Elems(list) == {list[i] : i \in DOMAIN list}

(* A file, and whether everything meant for it has been written.           *)
File  == [whole : BOOLEAN, rules : List]
Torn  == [whole |-> FALSE, rules |-> <<>>]
Whole(list) == [whole |-> TRUE, rules |-> list]

(* Mutant of Without: the last rule moves into the hole.                   *)
WithoutBySwap(list, i) ==
    SubSeq([list EXCEPT ![i] = list[Len(list)]], 1, Len(list) - 1)

(* append(rules[:i], rules[i+1:]...)                                       *)
Without(list, i) == SubSeq(list, 1, i - 1) \o SubSeq(list, i + 1, Len(list))

Op   == [kind : {"add", "remove"}, rule : RuleId]
NoOp == [kind |-> "none", rule |-> 0]

TypeOK ==
    /\ up \in BOOLEAN
    /\ rules \in List
    /\ disk \in File
    /\ tmp \in File
    /\ lock \subseteq Handlers
    /\ pc \in [Handlers -> {"idle", "queued", "writing", "written", "saved", "failed"}]
    /\ op \in [Handlers -> Op \cup {NoOp}]
    /\ snap \in [Handlers -> List]
    /\ next \in 1..(MaxRules + 1)
    /\ acked \subseteq RuleId
    /\ dropped \subseteq RuleId
    /\ gone \subseteq RuleId
    /\ solo \subseteq Handlers
    /\ lost \in BOOLEAN

Init ==
    /\ up = TRUE
    /\ rules = <<>>
    /\ disk = Whole(<<>>)
    /\ tmp = Torn
    /\ lock = {}
    /\ pc = [h \in Handlers |-> "idle"]
    /\ op = [h \in Handlers |-> NoOp]
    /\ snap = [h \in Handlers |-> <<>>]
    /\ next = 1
    /\ acked = {}
    /\ dropped = {}
    /\ gone = {}
    /\ solo = {}
    /\ lost = FALSE

-----------------------------------------------------------------------------
(* Mutant of Change: the list is copied before it is changed.              *)
ChangeCopiedEarly(h, request, list) ==
    /\ rules' = list
    /\ snap' = [snap EXCEPT ![h] = rules]
    /\ op' = [op EXCEPT ![h] = request]
    /\ pc' = [pc EXCEPT ![h] = "queued"]
    /\ solo' = IF \A g \in Handlers : pc[g] = "idle" THEN {h} ELSE {}

(* The critical section of Router.mu: the change, and the copy of the      *)
(* list as it is after the change.  It is one step because nobody else     *)
(* reads or writes the list in between.                                    *)
Change(h, request, list) ==
    /\ rules' = list
    /\ snap' = [snap EXCEPT ![h] = list]
    /\ op' = [op EXCEPT ![h] = request]
    /\ pc' = [pc EXCEPT ![h] = "queued"]
    /\ solo' = IF \A g \in Handlers : pc[g] = "idle" THEN {h} ELSE {}

(* Mutants of Add: the rule goes to the front; its identifier is empty.    *)
AddInFront(h) ==
    /\ up /\ pc[h] = "idle"
    /\ next <= MaxRules
    /\ Change(h, [kind |-> "add", rule |-> next], <<next>> \o rules)
    /\ next' = next + 1
    /\ UNCHANGED <<up, disk, tmp, lock, acked, dropped, gone, lost>>

AddUnnamed(h) ==
    /\ up /\ pc[h] = "idle"
    /\ next <= MaxRules
    /\ Change(h, [kind |-> "add", rule |-> 0], Append(rules, 0))
    /\ next' = next + 1
    /\ UNCHANGED <<up, disk, tmp, lock, acked, dropped, gone, lost>>

(* AddRule up to rt.mu.Unlock().                                           *)
Add(h) ==
    /\ up /\ pc[h] = "idle"
    /\ next <= MaxRules
    /\ Change(h, [kind |-> "add", rule |-> next], Append(rules, next))
    /\ next' = next + 1
    /\ UNCHANGED <<up, disk, tmp, lock, acked, dropped, gone, lost>>

(* Mutant of Remove: the handler answers without saving.                   *)
RemoveUnsaved(h) ==
    /\ up /\ pc[h] = "idle"
    /\ \E i \in DOMAIN rules :
         /\ rules' = Without(rules, i)
         /\ op' = [op EXCEPT ![h] = [kind |-> "remove", rule |-> rules[i]]]
         /\ dropped' = dropped \cup {rules[i]}
    /\ pc' = [pc EXCEPT ![h] = "saved"]
    /\ UNCHANGED <<up, disk, tmp, lock, snap, solo, next, acked, gone, lost>>

(* RemoveRule up to rt.mu.Unlock(), for a rule that is in the list.        *)
Remove(h) ==
    /\ up /\ pc[h] = "idle"
    /\ \E i \in DOMAIN rules :
         /\ Change(h, [kind |-> "remove", rule |-> rules[i]], Without(rules, i))
         /\ dropped' = dropped \cup {rules[i]}
    /\ UNCHANGED <<up, disk, tmp, lock, next, acked, gone, lost>>

(* Mutant of OpenTmp: rules.json itself is truncated and written.          *)
OpenInPlace(h) ==
    /\ up /\ pc[h] = "queued" /\ lock = {}
    /\ lock' = {h}
    /\ tmp' = Torn /\ disk' = Torn
    /\ pc' = [pc EXCEPT ![h] = "writing"]
    /\ UNCHANGED <<up, rules, op, snap, solo, history>>

(* SaveRules takes Store.mu and opens a temporary file of its own.         *)
OpenTmp(h) ==
    /\ up /\ pc[h] = "queued" /\ lock = {}
    /\ lock' = {h}
    /\ tmp' = Torn
    /\ pc' = [pc EXCEPT ![h] = "writing"]
    /\ UNCHANGED <<up, rules, disk, op, snap, solo, history>>

(* Write, Sync and Close have succeeded.                                   *)
WriteTmp(h) ==
    /\ up /\ pc[h] = "writing"
    /\ tmp' = Whole(snap[h])
    /\ pc' = [pc EXCEPT ![h] = "written"]
    /\ UNCHANGED <<up, rules, disk, lock, op, snap, solo, history>>

(* The rename, and the deferred Store.mu.Unlock().                         *)
RenameTmp(h) ==
    /\ up /\ pc[h] = "written"
    /\ disk' = tmp
    /\ tmp' = Torn
    /\ lock' = {}
    /\ pc' = [pc EXCEPT ![h] = "saved"]
    /\ UNCHANGED <<up, rules, op, snap, solo, history>>

(* Mutants of SaveFails: the error is dropped; the lock is kept.           *)
SaveFailsSilently(h) ==
    /\ up /\ pc[h] \in {"writing", "written"}
    /\ tmp' = Torn
    /\ lock' = {}
    /\ pc' = [pc EXCEPT ![h] = "saved"]
    /\ UNCHANGED <<up, rules, disk, op, snap, solo, history>>

SaveFailsLocked(h) ==
    /\ up /\ pc[h] \in {"writing", "written"}
    /\ tmp' = Torn
    /\ pc' = [pc EXCEPT ![h] = "failed"]
    /\ UNCHANGED <<up, rules, disk, lock, op, snap, solo, history>>

(* Opening, writing, syncing or renaming fails: the temporary file goes,   *)
(* the lock is released, the list in memory keeps the change.              *)
SaveFails(h) ==
    /\ up /\ pc[h] \in {"writing", "written"}
    /\ tmp' = Torn
    /\ lock' = {}
    /\ pc' = [pc EXCEPT ![h] = "failed"]
    /\ UNCHANGED <<up, rules, disk, op, snap, solo, history>>

(* The handler is done; its request and its copy are garbage.              *)
Finish(h) ==
    /\ pc' = [pc EXCEPT ![h] = "idle"]
    /\ op' = [op EXCEPT ![h] = NoOp]
    /\ snap' = [snap EXCEPT ![h] = <<>>]

(* handleAddRule answers 201, handleDeleteRule 204.                        *)
AnswerOK(h) ==
    /\ up /\ pc[h] = "saved"
    /\ Finish(h)
    /\ acked' = acked \cup {r \in RuleId : op[h] = [kind |-> "add", rule |-> r]}
    /\ gone' = gone \cup {r \in RuleId : op[h] = [kind |-> "remove", rule |-> r]}
    /\ UNCHANGED <<up, rules, disk, tmp, lock, next, dropped, solo, lost>>

(* Both handlers answer 500.                                               *)
AnswerError(h) ==
    /\ up /\ pc[h] = "failed"
    /\ Finish(h)
    /\ UNCHANGED <<up, rules, disk, tmp, lock, solo, history>>

(* The process dies.  A temporary file it leaves behind is never read:     *)
(* its name carries the time of the call that made it.                     *)
Crash ==
    /\ up
    /\ up' = FALSE
    /\ rules' = <<>>
    /\ tmp' = Torn
    /\ lock' = {}
    /\ pc' = [h \in Handlers |-> "idle"]
    /\ op' = [h \in Handlers |-> NoOp]
    /\ snap' = [h \in Handlers |-> <<>>]
    /\ solo' = {}
    /\ UNCHANGED <<disk, history>>

(* NewRouter: a file that cannot be read or parsed leaves the list empty   *)
(* and the server starts all the same.                                     *)
Restart ==
    /\ ~up
    /\ up' = TRUE
    /\ \/ disk.whole /\ rules' = disk.rules /\ lost' = lost
       \/ rules' = <<>> /\ lost' = TRUE
    /\ UNCHANGED <<disk, tmp, lock, pc, op, snap, solo, next, acked, dropped, gone>>

Save(h) == OpenTmp(h) \/ WriteTmp(h) \/ RenameTmp(h)

Next ==
    \/ \E h \in Handlers :
         Add(h) \/ Remove(h) \/ Save(h) \/ SaveFails(h) \/ AnswerOK(h) \/ AnswerError(h)
    \/ Crash
    \/ Restart

(* A handler that has started goes on.  Waiting for Store.mu is strongly   *)
(* fair: Go's mutex hands itself to a waiter that has starved for 1 ms.    *)
Fairness ==
    \A h \in Handlers :
        /\ SF_vars(OpenTmp(h))
        /\ WF_vars(WriteTmp(h) \/ RenameTmp(h) \/ AnswerOK(h) \/ AnswerError(h))

Spec == Init /\ [][Next]_vars
FairSpec == Spec /\ Fairness

-----------------------------------------------------------------------------
(* The file a start would read is always a complete list, whatever the     *)
(* moment of a crash and whatever step of a save failed (SaveRules:        *)
(* "Atomic write").                                                        *)
DiskWhole == disk.whole

(* First match wins in Route, so order is meaning.  Memory, every copy on  *)
(* its way to the disk and the disk list rules in the order in which they  *)
(* were accepted, each once: a restart may lose or revive a rule but never *)
(* changes the precedence of two rules.                                    *)
InOrder(list) == \A i, j \in DOMAIN list : i < j => list[i] < list[j]
SamePrecedence == InOrder(rules) /\ InOrder(disk.rules)

(* Whatever earlier requests did, raced with or failed to save, a save     *)
(* that ran alone leaves on disk the very list that is in force.           *)
SoloSaveSyncs == \A h \in solo : pc[h] = "saved" => disk = Whole(rules)

(* An answer 201 is a promise: the rule is on disk, and in force, until a  *)
(* DELETE takes it out (or a start that could not read the file).          *)
AckedDurable ==
    ~lost => \A r \in acked \ dropped :
               r \in Elems(disk.rules) /\ (up => r \in Elems(rules))

(* An answer 204 is a promise: no restart brings the rule back.            *)
DeletedStaysDeleted ==
    gone \cap (Elems(disk.rules) \cup Elems(rules)) = {}

(* Every request that changes the rules is answered, or the process dies.  *)
EveryRequestAnswered ==
    \A h \in Handlers : pc[h] # "idle" ~> pc[h] = "idle"

(* How far the one request of a client that waits for its answers is.      *)
Progress ==
    IF \A h \in Handlers : pc[h] = "idle" THEN "none"
    ELSE IF \E h \in Handlers : pc[h] = "saved" THEN "kept" ELSE "changed"

(* To such a client the list and its file are one durable list that every  *)
(* request changes at once and for good: locks, copies, temporary files,   *)
(* failed saves and crashes in the midst of one do not show.  What a start *)
(* that cannot read rules.json costs is part of the promise: the file      *)
(* keeps its rules until a later request is saved over them.               *)
Promise == INSTANCE DurableRules WITH
    list <- rules, stored <- disk.rules, drawn <- 1..(next - 1), request <- Progress
PromiseKept == Promise!Spec

=============================================================================
