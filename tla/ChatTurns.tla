------------------------------ MODULE ChatTurns ------------------------------
(***************************************************************************)
(* The turns of one conversation.  A message of the user starts a turn     *)
(* unless one it started is in flight (channels/channel.py); the end of an *)
(* arc starts one that nobody tracks (core/workflows/arc_notify_handler).  *)
(* A turn reads the rows of the conversation once, goes round the loop of  *)
(* tool calls in memory and writes its own rows one by one                 *)
(* (agent/invocation.py, invoke_for_chat); the rows become the messages of *)
(* an API call in agent/conversation.py, format_messages_for_api.          *)
(***************************************************************************)
EXTENDS Integers, Sequences, SequencesExt

CONSTANTS
    MaxInbound,     \* bound on messages of the user
    Arcs,           \* arcs whose end is told; each names the turn it starts
    Nobody,         \* no turn
    MaxTools,       \* chat_tool_iterations
    Preserve,       \* compaction_preserve_recent, an even number (8)
    MaxMishaps      \* bound on raised exceptions and ends of the process

(* Preserve is even, so that what a compaction keeps begins with an         *)
(* assistant's message.                                                    *)
Parameters ==
    /\ MaxInbound \in Nat /\ MaxTools \in Nat /\ MaxMishaps \in Nat
    /\ Preserve \in Nat /\ Preserve % 2 = 0
    /\ Arcs \cap (1 .. MaxInbound) = {} /\ Nobody \notin Arcs \cup (1 .. MaxInbound)

VARIABLES
    context,    \* the messages table, as format_messages_for_api gives it:
                \* it folds the rows from the left, and rows are only added
    turn,       \* the turns
    tracked,    \* InvocationTracker: the turn that holds the conversation
    running,    \* the process
    mishaps,
    answered,   \* history: messages in the context of a reply
    passed,     \* history: messages a window named below left unanswered
    muffled,    \* history: messages saved while a turn was executing tools
    torn        \* history: a tool_use row without its result behind it

vars == <<context, turn, tracked, running, mishaps, answered, passed, muffled, torn>>

(* Messages in the order they come in; each names the turn it may start.   *)
Inbound == 1 .. MaxInbound
Turns   == Inbound \cup Arcs
NoTurn  == [at |-> "none", ctx |-> <<>>, tools |-> 0, clear |-> TRUE]

Text(role, holds) == [role |-> role, list |-> FALSE, tool |-> Nobody, holds |-> holds]
Said(m)   == Text("user", {m})
Notice    == Text("user", {})           \* a system row
Reply     == Text("assistant", {})
Use(t)    == [role |-> "assistant", list |-> TRUE, tool |-> t, holds |-> {}]
Result(t) == [role |-> "user", list |-> TRUE, tool |-> t, holds |-> {}]

Messages == [role : {"user", "assistant"}, list : BOOLEAN,
             tool : Turns \cup {Nobody}, holds : SUBSET Inbound]

Places == {"none", "queued", "waiting", "start", "calling", "tool", "finish", "done", "lost"}

TypeOK ==
    /\ context \in Seq(Messages)
    /\ turn \in [Turns -> [at : Places, ctx : Seq(Messages), tools : 0 .. MaxTools, clear : BOOLEAN]]
    /\ \A t \in Turns : turn[t].ctx # <<>> => turn[t].at \in {"calling", "tool"}
    /\ tracked \in Inbound \cup {Nobody}
    /\ running \in BOOLEAN /\ mishaps \in 0 .. MaxMishaps /\ torn \in BOOLEAN
    /\ answered \cup passed \cup muffled \subseteq Inbound

Init ==
    /\ context = <<>> /\ turn = [t \in Turns |-> NoTurn] /\ tracked = Nobody
    /\ running = TRUE /\ mishaps = 0
    /\ answered = {} /\ passed = {} /\ muffled = {} /\ torn = FALSE

-----------------------------------------------------------------------------
(* _merge_consecutive_roles, one message at a time.  Text followed by a    *)
(* list of blocks of the same role is dropped.                             *)
JoinedSlip(prev, msg) == [prev EXCEPT !.holds = msg.holds]
Joined(prev, msg)     == [prev EXCEPT !.holds = @ \cup msg.holds]

MergeSlip(merged, msg) ==
    IF merged = <<>> \/ Last(merged).role # msg.role \/ msg.list
    THEN Append(merged, msg)
    ELSE Append(Front(merged), Joined(Last(merged), msg))

Merge(merged, msg) ==
    IF merged = <<>> \/ Last(merged).role # msg.role \/ (Last(merged).list /\ msg.list)
    THEN Append(merged, msg)
    ELSE Append(Front(merged), IF msg.list THEN msg ELSE Joined(Last(merged), msg))

(* What the provider takes, by the docstring of _merge_consecutive_roles:  *)
(* roles alternate, and a tool_use is followed at once by its tool_result. *)
WellFormed(ctx) ==
    \A i \in 1 .. Len(ctx) :
        /\ i > 1 => ctx[i - 1].role # ctx[i].role
        /\ (ctx[i].role = "assistant" /\ ctx[i].list) =>
              i < Len(ctx) /\ ctx[i + 1].tool = ctx[i].tool
        /\ (ctx[i].role = "user" /\ ctx[i].list) =>
              i > 1 /\ ctx[i - 1].tool = ctx[i].tool

At(t, place)     == turn[t].at = place
MidTool(t)       == \E u \in Turns \ {t} : At(u, "tool")
InFlight(t)      == turn[t].at \in {"start", "calling", "tool", "finish"}
Goes(t, place)   == [turn EXCEPT ![t].at = place]
Holds(ctx)       == UNION {ctx[i].holds : i \in 1 .. Len(ctx)}

-----------------------------------------------------------------------------
(* deliver_inbound: the loop runs it without giving way.  The row is saved *)
(* always, a turn started only if none is tracked.                         *)
Deliver(m) ==
    /\ running /\ At(m, "none") /\ \A k \in 1 .. m - 1 : ~At(k, "none")
    /\ context' = Merge(context, Said(m))
    /\ muffled' = IF \E t \in Turns : At(t, "tool") THEN muffled \cup {m} ELSE muffled
    /\ \/ tracked = Nobody /\ turn' = Goes(m, "start") /\ tracked' = m
       \/ tracked # Nobody /\ turn' = Goes(m, "waiting") /\ UNCHANGED tracked
    /\ passed' = IF \E t \in Inbound : InFlight(t) THEN passed \cup {m} ELSE passed
    /\ UNCHANGED <<running, mishaps, answered, torn>>

(* An arc ends: arc.chat_notify is enqueued.                               *)
ArcEnds(a) ==
    /\ running /\ At(a, "none") /\ turn' = Goes(a, "queued")
    /\ UNCHANGED <<context, tracked, running, mishaps, answered, passed, muffled, torn>>

(* handle_arc_chat_notify saves a notice and runs a turn.                  *)
Notify(a) ==
    /\ running /\ At(a, "queued")
    /\ context' = Merge(context, Notice)
    /\ turn' = Goes(a, "start")
    /\ UNCHANGED <<tracked, running, mishaps, answered, passed, muffled, torn>>

Read(t) ==
    /\ At(t, "start")
    /\ turn' = [turn EXCEPT ![t] = [@ EXCEPT !.at = "calling", !.ctx = context,
                    !.clear = ~MidTool(t) /\ Last(context).role = "user"]]
    /\ UNCHANGED <<context, tracked, running, mishaps, answered, passed, muffled, torn>>

(* _compact_messages: all but the last Preserve messages become a summary, *)
(* which is also saved.                                                    *)
CompactedSlip(ctx) == <<Text("user", Holds(ctx))>> \o SubSeq(ctx, Len(ctx) - Preserve, Len(ctx))
Compacted(ctx) ==
    LET cut == Len(ctx) - Preserve
    IN  <<Text("user", Holds(SubSeq(ctx, 1, cut)))>> \o SubSeq(ctx, cut + 1, Len(ctx))

Compact(t) ==
    /\ At(t, "calling") /\ Len(turn[t].ctx) > Preserve
    /\ turn' = [turn EXCEPT ![t].ctx = Compacted(@)]
    /\ context' = Merge(context, Notice)
    /\ UNCHANGED <<tracked, running, mishaps, answered, passed, muffled, torn>>

(* The turn ends: with a row of its own or not, having replied or not.     *)
Ends(t, replied) ==
    /\ turn' = [turn EXCEPT ![t] = [NoTurn EXCEPT !.at = IF t \in Arcs THEN "done" ELSE "finish"]]
    /\ answered' = IF replied THEN answered \cup Holds(turn[t].ctx) ELSE answered
    /\ passed' = IF replied THEN passed ELSE passed \cup ({t} \cap Inbound)

(* The model asks for tools: the assistant's row is saved before they run. *)
CallTools(t) ==
    /\ At(t, "calling") /\ WellFormed(turn[t].ctx) /\ turn[t].tools < MaxTools
    /\ context' = Merge(context, Use(t))
    /\ torn' = (torn \/ MidTool(t))
    /\ turn' = Goes(t, "tool")
    /\ UNCHANGED <<tracked, running, mishaps, answered, passed, muffled>>

(* Their results are saved in one row, and both go round the loop.         *)
ToolsReturn(t) ==
    /\ At(t, "tool")
    /\ context' = Merge(context, Result(t))
    /\ torn' = (torn \/ MidTool(t))
    /\ turn' = [turn EXCEPT ![t].at = "calling", ![t].tools = @ + 1,
                            ![t].ctx = @ \o <<Use(t), Result(t)>>]
    /\ UNCHANGED <<tracked, running, mishaps, answered, passed, muffled>>

(* The turn ends on the text beside asynchronous tools, or on a reply a    *)
(* tool has given.                                                         *)
ToolsEnd(t) ==
    /\ At(t, "tool")
    /\ LET done == Merge(context, Result(t))
       IN  context' \in {done, Merge(done, Reply)}
    /\ torn' = (torn \/ MidTool(t))
    /\ Ends(t, TRUE)
    /\ UNCHANGED <<tracked, running, mishaps, muffled>>

CallReplies(t) ==
    /\ At(t, "calling") /\ WellFormed(turn[t].ctx)
    /\ context' = Merge(context, Reply)
    /\ torn' = (torn \/ MidTool(t))
    /\ Ends(t, TRUE)
    /\ UNCHANGED <<tracked, running, mishaps, muffled>>

(* An error, always so on a context the provider refuses, is saved as a    *)
(* system row; beside text of an earlier call it is not.                   *)
CallFails(t) ==
    /\ At(t, "calling")
    /\ \/ context' = Merge(context, Notice)
       \/ turn[t].tools > 0 /\ UNCHANGED context
    /\ Ends(t, FALSE)
    /\ UNCHANGED <<tracked, running, mishaps, muffled, torn>>

(* invoke_for_chat raises: _run_and_respond saves a notice as a reply; the *)
(* work item of a notification is tried again.                             *)
Raises(t) ==
    /\ turn[t].at \in {"start", "calling", "tool"} /\ mishaps < MaxMishaps
    /\ mishaps' = mishaps + 1
    /\ torn' = (torn \/ At(t, "tool") \/ (t \in Inbound /\ MidTool(t)))
    /\ \/ /\ t \in Inbound
          /\ context' = Merge(context, Reply)
          /\ Ends(t, FALSE)
       \/ /\ t \in Arcs
          /\ turn' = [turn EXCEPT ![t] = [NoTurn EXCEPT !.at = "queued"]]
          /\ UNCHANGED <<context, answered, passed>>
    /\ UNCHANGED <<tracked, running, muffled>>

(* The answer has been sent; the done callback of the task frees the       *)
(* conversation.                                                           *)
FreedSlip(t) == IF t \in passed THEN tracked ELSE Nobody
Freed(t)     == Nobody

TaskDone(t) ==
    /\ running /\ t \in Inbound /\ At(t, "finish")
    /\ turn' = Goes(t, "done")
    /\ tracked' = Freed(t)
    /\ UNCHANGED <<context, running, mishaps, answered, passed, muffled, torn>>

(* The process ends.  Turns are gone, but for the work items of            *)
(* notifications, which are given back.                                    *)
Crash ==
    /\ running /\ mishaps < MaxMishaps
    /\ running' = FALSE /\ mishaps' = mishaps + 1
    /\ torn' = (torn \/ \E t \in Turns : At(t, "tool"))
    /\ passed' = passed \cup {m \in Inbound : InFlight(m)}
    /\ turn' = [t \in Turns |->
                   IF ~InFlight(t) THEN turn[t]
                   ELSE [NoTurn EXCEPT !.at = IF t \in Arcs THEN "queued" ELSE "lost"]]
    /\ tracked' = Nobody
    /\ UNCHANGED <<context, answered, muffled>>

Start ==
    /\ ~running /\ running' = TRUE
    /\ UNCHANGED <<context, turn, tracked, mishaps, answered, passed, muffled, torn>>

Step(t) ==
    \/ Read(t) \/ Compact(t) \/ CallTools(t) \/ ToolsReturn(t) \/ ToolsEnd(t)
    \/ CallReplies(t) \/ CallFails(t) \/ TaskDone(t)

Next ==
    \/ \E m \in Inbound : Deliver(m)
    \/ \E a \in Arcs : ArcEnds(a) \/ Notify(a)
    \/ \E t \in Turns : Step(t) \/ Raises(t)
    \/ Crash \/ Start

Spec == Init /\ [][Next]_vars

(* Threads and the loop go on, and a process that ends is started again.   *)
ChatGoesOn == (\E t \in Turns : Step(t)) \/ (\E a \in Arcs : Notify(a)) \/ Start

Fairness == WF_vars(ChatGoesOn)

FairSpec == Spec /\ Fairness

-----------------------------------------------------------------------------
(* Properties                                                              *)

(* A context that goes to the provider is one it takes, whatever arrived   *)
(* while tools ran and wherever it was compacted: unless it was read while *)
(* another turn ran its tools or after it had replied, or the rows hold a  *)
(* tool_use that somebody else's row or the end of its turn has cut from   *)
(* its result (invoke_for_chat, _compact_messages,                         *)
(* _merge_consecutive_roles).                                              *)
ContextsWellFormed ==
    \A t \in Turns : (turn[t].ctx # <<>> /\ turn[t].clear /\ ~torn) => WellFormed(turn[t].ctx)

(* The conversation is held by the one turn of the user that is in flight, *)
(* and by no other; a message that has no turn in flight was in the        *)
(* context of a reply or fell into a window that Heard names               *)
(* (deliver_inbound, InvocationTracker, _run_and_respond).                 *)
Attended ==
    /\ tracked # Nobody => InFlight(tracked)
    /\ \A m \in Inbound : InFlight(m) => tracked = m
    /\ \A m \in Inbound :
          ~At(m, "none") /\ ~InFlight(m) => m \in answered \cup passed \cup muffled

(* A turn knows every message the user had sent when it started, answered, *)
(* failed or never looked at, also behind a summary: unless the message    *)
(* was saved while tools ran (_merge_consecutive_roles).                   *)
Remembered ==
    [][\A t \in Turns : Read(t) =>
          {m \in Inbound : ~At(m, "none")} \subseteq Holds(turn'[t].ctx) \cup muffled]_vars

(* The docstring of _merge_consecutive_roles joins texts and prepends them *)
(* to blocks: no message of the user drops out of the conversation.        *)
UserMessagesKept ==
    [][\A t \in Turns : Read(t) => {m \in Inbound : ~At(m, "none")} \subseteq Holds(turn'[t].ctx)]_vars

(* A message is in the context of a reply in the end, unless it was saved  *)
(* while tools ran or a turn the user had started was in flight, or its    *)
(* own turn failed, raised or died: no turn keeps the conversation to      *)
(* itself after its end (InvocationTracker).                               *)
Heard == <>[](\A m \in Inbound : ~At(m, "none") => m \in answered \cup passed \cup muffled)
=============================================================================
