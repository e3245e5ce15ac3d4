---------------------------- MODULE Notifications ---------------------------
(***************************************************************************)
(* How webhooks are told about things: the Kafka consumer of topic "torch" *)
(* (internal/logic/consumer/torch.go, internal/handler/consumer), the      *)
(* handler of POST /profile/webhooks (internal/logic/http/profile.go), the *)
(* two bounded channels (internal/logic/chatbot/channels.go) and the one   *)
(* goroutine that reads both and posts to the endpoints                    *)
(* (internal/handler/chatbot, internal/logic/chatbot/webhooks.go).         *)
(*                                                                         *)
(* The consumer runs one goroutine per partition.  What sarama and the     *)
(* broker do is modelled from how the code configures them: offsets that   *)
(* were marked are committed from time to time and once more when a        *)
(* session ends, a session starts at the committed offset, or at the end   *)
(* of the partition while none is committed (the default of NewConfig).    *)
(***************************************************************************)
EXTENDS Integers, Sequences, FiniteSets, SequencesExt

CONSTANTS
    Partitions,     \* of topic "torch"
    MaxOffset,      \* bound: the number of signals published on each partition
    Undecodable,    \* the signals whose value is not the JSON of a TorchSignal
    Existing,       \* the ids of the webhooks there are at the start
    Creators,       \* the POST requests, each named by the id its webhook will get
    TorchCap,       \* capacity of the torch signal channel
    CreatedCap,     \* capacity of the created webhook channel
    MaxFaults       \* bound: crashes, stops and failed commits together

Webhooks == Existing \cup Creators
Signals == UNION {{p} \X (1 .. MaxOffset[p]) : p \in Partitions}
NoOffset == -1

ASSUME CapacityAssumption == TorchCap \in Nat \ {0} /\ CreatedCap \in Nat \ {0}
ASSUME BoundAssumption == MaxOffset \in [Partitions -> Nat] /\ MaxFaults \in Nat
ASSUME InputAssumption ==
    /\ Undecodable \subseteq Signals
    /\ Webhooks \subseteq Nat
    /\ Existing \cap Creators = {}

VARIABLES
    rows,           \* the webhooks in table chatbot_webhooks
    cpc,            \* where each POST request is
    createdChan,    \* the channel of created webhooks
    torchChan,      \* the channel of torch signals
    published,      \* the broker: the number of signals on each partition
    committed,      \* the broker: the committed offset of each partition
    session,        \* the consumer group session: "none", "open" or "ending"
    kpc,            \* where the ConsumeClaim of each partition is
    position,       \* the last offset each ConsumeClaim received
    marked,         \* the last offset each ConsumeClaim marked
    wpc,            \* where the webhook server is
    greeting,       \* the created webhook the server is handling, if any
    signal,         \* the torch signal the server is handling, if any
    todo,           \* the webhooks it has still to post that signal to
    up, cancelled,  \* the process runs; its context is cancelled
    faults,         \* how many crashes, stops and failed commits there were
    queued,         \* history: the signals put in the channel, in order
    handled,        \* history: the signals posted to all the webhooks listed
    dropped,        \* history: the signals given up as the list could not be read
    cut,            \* history: the signals for which the list was read in part
    skipped,        \* history: the signals a session started after
    tried,          \* history: the pairs of webhook and signal posted or attempted
    greeted,        \* history: the webhooks whose greeting was posted or attempted
    unmet           \* history: the webhooks that were not found when their turn came

http == <<rows, cpc>>
broker == <<published, committed>>
consumer == <<session, kpc, position, marked>>
server == <<wpc, greeting, signal, todo>>
process == <<up, cancelled, faults>>
history == <<queued, handled, dropped, cut, skipped, tried, greeted, unmet>>
vars == <<http, createdChan, torchChan, broker, consumer, server, process, history>>

Offset == {NoOffset} \cup Nat

TypeOK ==
    /\ rows \subseteq Webhooks
    /\ cpc \in [Creators -> {"idle", "send", "201", "500", "gone"}]
    /\ createdChan \in Seq(Creators) /\ Len(createdChan) <= CreatedCap
    /\ torchChan \in Seq(Signals) /\ Len(torchChan) <= TorchCap
    /\ published \in [Partitions -> Nat]
    /\ committed \in [Partitions -> Offset]
    /\ session \in {"none", "open", "ending"}
    /\ kpc \in [Partitions -> {"receive", "send", "mark", "left"}]
    /\ position \in [Partitions -> Nat]
    /\ marked \in [Partitions -> Offset]
    /\ wpc \in {"select", "lookup", "greet", "list", "post", "stopped"}
    /\ greeting \subseteq Creators
    /\ signal \subseteq Signals
    /\ todo \subseteq Webhooks
    /\ up \in BOOLEAN /\ cancelled \in BOOLEAN
    /\ faults \in 0 .. MaxFaults
    /\ queued \in Seq(Signals)
    /\ handled \cup dropped \cup cut \cup skipped \subseteq Signals
    /\ tried \subseteq Webhooks \X Signals
    /\ greeted \cup unmet \subseteq Creators

Init ==
    /\ rows = Existing
    /\ cpc = [c \in Creators |-> "idle"]
    /\ createdChan = <<>> /\ torchChan = <<>>
    /\ published = [p \in Partitions |-> 0]
    /\ committed = [p \in Partitions |-> NoOffset]
    /\ session = "none"
    /\ kpc = [p \in Partitions |-> "left"]
    /\ position = [p \in Partitions |-> 0]
    /\ marked = [p \in Partitions |-> NoOffset]
    /\ wpc = "select"
    /\ greeting = {} /\ signal = {} /\ todo = {}
    /\ up = TRUE /\ cancelled = FALSE /\ faults = 0
    /\ queued = <<>>
    /\ handled = {} /\ dropped = {} /\ cut = {} /\ skipped = {}
    /\ tried = {} /\ greeted = {} /\ unmet = {}

-----------------------------------------------------------------------------
(* The HTTP handlers *)

\* The INSERT; it may take effect and its answer be lost.
CreateWebhook(c) ==
    /\ up /\ cpc[c] = "idle"
    /\ \/ rows' = rows \cup {c} /\ cpc' = [cpc EXCEPT ![c] = "send"]
       \/ rows' \in {rows, rows \cup {c}} /\ cpc' = [cpc EXCEPT ![c] = "500"]
    /\ UNCHANGED <<createdChan, torchChan, broker, consumer, server, process, history>>

\* Fault: while the channel is full the signal is dropped.
SendCreatedOrDrop(c) ==
    /\ cpc[c] = "send"
    /\ createdChan' = IF Len(createdChan) < CreatedCap
                      THEN Append(createdChan, c) ELSE createdChan
    /\ cpc' = [cpc EXCEPT ![c] = "201"]
    /\ UNCHANGED <<rows, torchChan, broker, consumer, server, process, history>>

\* A plain channel send: while the channel is full the request waits, and
\* nothing but room in it ends the wait.
SendCreated(c) ==
    /\ cpc[c] = "send"
    /\ Len(createdChan) < CreatedCap
    /\ createdChan' = Append(createdChan, c)
    /\ cpc' = [cpc EXCEPT ![c] = "201"]
    /\ UNCHANGED <<rows, torchChan, broker, consumer, server, process, history>>

DeleteWebhook(w) ==
    /\ up /\ w \in rows
    /\ rows' = rows \ {w}
    /\ UNCHANGED <<cpc, createdChan, torchChan, broker, consumer, server, process, history>>

-----------------------------------------------------------------------------
(* The broker and the consumer group *)

Publish(p) ==
    /\ published[p] < MaxOffset[p]
    /\ published' = [published EXCEPT ![p] = @ + 1]
    /\ UNCHANGED <<http, createdChan, torchChan, committed, consumer, server, process, history>>

\* Consume joins the group: each claim starts at the committed offset, or at
\* the newest one while none was ever committed.
OpenSession ==
    /\ up /\ session = "none" /\ ~cancelled
    /\ session' = "open"
    /\ kpc' = [p \in Partitions |-> "receive"]
    /\ position' = [p \in Partitions |->
                      IF committed[p] = NoOffset THEN published[p] ELSE committed[p]]
    /\ marked' = [p \in Partitions |-> NoOffset]
    /\ skipped' = skipped \cup {s \in Signals : /\ committed[s[1]] = NoOffset
                                                /\ s[2] <= published[s[1]]}
    /\ UNCHANGED <<http, createdChan, torchChan, broker, server, process, queued, handled,
                   dropped, cut, tried, greeted, unmet>>

\* A rebalance, or the cancelled context, ends the session.
LeaveSession ==
    /\ session = "open"
    /\ session' = "ending"
    /\ UNCHANGED <<http, createdChan, torchChan, broker, kpc, position, marked, server,
                   process, history>>

\* Fault: the message is marked before it is handed on.
ReceiveAndMark(p) ==
    /\ kpc[p] = "receive"
    /\ position[p] < published[p]
    /\ position' = [position EXCEPT ![p] = @ + 1]
    /\ marked' = [marked EXCEPT ![p] = position'[p]]
    /\ kpc' = [kpc EXCEPT ![p] = IF <<p, position'[p]>> \in Undecodable
                                 THEN "receive" ELSE "send"]
    /\ UNCHANGED <<http, createdChan, torchChan, broker, session, server, process, history>>

\* A message is received; one that does not decode is passed over unmarked.
Receive(p) ==
    /\ kpc[p] = "receive"
    /\ position[p] < published[p]
    /\ position' = [position EXCEPT ![p] = @ + 1]
    /\ kpc' = [kpc EXCEPT ![p] = IF <<p, position'[p]>> \in Undecodable
                                 THEN "receive" ELSE "send"]
    /\ UNCHANGED <<http, createdChan, torchChan, broker, session, marked, server, process,
                   history>>

\* Fault: the channel takes whatever is sent.
EnqueueUnbounded(p) ==
    /\ kpc[p] = "send"
    /\ torchChan' = Append(torchChan, <<p, position[p]>>)
    /\ queued' = Append(queued, <<p, position[p]>>)
    /\ kpc' = [kpc EXCEPT ![p] = "mark"]
    /\ UNCHANGED <<http, createdChan, broker, session, position, marked, server, process,
                   handled, dropped, cut, skipped, tried, greeted, unmet>>

\* The send is outside the select: it does not watch the session.
Enqueue(p) ==
    /\ kpc[p] = "send"
    /\ Len(torchChan) < TorchCap
    /\ torchChan' = Append(torchChan, <<p, position[p]>>)
    /\ queued' = Append(queued, <<p, position[p]>>)
    /\ kpc' = [kpc EXCEPT ![p] = "mark"]
    /\ UNCHANGED <<http, createdChan, broker, session, position, marked, server, process,
                   handled, dropped, cut, skipped, tried, greeted, unmet>>

MarkMessage(p) ==
    /\ kpc[p] = "mark"
    /\ marked' = [marked EXCEPT ![p] = position[p]]
    /\ kpc' = [kpc EXCEPT ![p] = "receive"]
    /\ UNCHANGED <<http, createdChan, torchChan, broker, session, position, server, process,
                   history>>

\* Fault: the select watches the server's context, not the session's.
LeaveClaimWhenStopped(p) ==
    /\ kpc[p] = "receive" /\ cancelled
    /\ kpc' = [kpc EXCEPT ![p] = "left"]
    /\ UNCHANGED <<http, createdChan, torchChan, broker, session, position, marked, server,
                   process, history>>

\* The select sees the end of the session, or the closed message channel.
LeaveClaim(p) ==
    /\ kpc[p] = "receive" /\ session = "ending"
    /\ kpc' = [kpc EXCEPT ![p] = "left"]
    /\ UNCHANGED <<http, createdChan, torchChan, broker, session, position, marked, server,
                   process, history>>

Newer(p) == IF marked[p] > committed[p] THEN marked[p] ELSE committed[p]

AutoCommit(p) ==
    /\ session # "none"
    /\ marked[p] > committed[p]
    /\ committed' = [committed EXCEPT ![p] = marked[p]]
    /\ UNCHANGED <<http, createdChan, torchChan, published, consumer, server, process, history>>

\* Fault: the marks are not flushed.
CloseSessionUnflushed ==
    /\ session = "ending"
    /\ \A p \in Partitions : kpc[p] = "left"
    /\ session' = "none"
    /\ UNCHANGED <<http, createdChan, torchChan, broker, kpc, position, marked, server,
                   process, history>>

\* Every claim has returned: the marks are flushed, which may fail, and
\* Consume returns; unless the context is cancelled it is called again.
CloseSession ==
    /\ session = "ending"
    /\ \A p \in Partitions : kpc[p] = "left"
    /\ session' = "none"
    /\ \/ committed' = [p \in Partitions |-> Newer(p)] /\ UNCHANGED faults
       \/ UNCHANGED committed /\ faults < MaxFaults /\ faults' = faults + 1
    /\ UNCHANGED <<http, createdChan, torchChan, published, kpc, position, marked, server,
                   up, cancelled, history>>

-----------------------------------------------------------------------------
(* The webhook server *)

TakeCreated ==
    /\ wpc = "select" /\ createdChan # <<>>
    /\ greeting' = {Head(createdChan)}
    /\ createdChan' = Tail(createdChan)
    /\ wpc' = "lookup"
    /\ UNCHANGED <<http, torchChan, broker, consumer, signal, todo, process, history>>

\* GetWebhook: the row may be gone by now, or the query fail.
Lookup ==
    /\ wpc = "lookup"
    /\ \/ greeting \subseteq rows /\ wpc' = "greet" /\ UNCHANGED <<greeting, unmet>>
       \/ wpc' = "select" /\ greeting' = {} /\ unmet' = unmet \cup greeting
    /\ UNCHANGED <<http, createdChan, torchChan, broker, consumer, signal, todo, process,
                   queued, handled, dropped, cut, skipped, tried, greeted>>

\* The POST returns, with whatever status or error: nothing is retried.
Greet ==
    /\ wpc = "greet"
    /\ greeted' = greeted \cup greeting
    /\ greeting' = {}
    /\ wpc' = "select"
    /\ UNCHANGED <<http, createdChan, torchChan, broker, consumer, signal, todo, process,
                   queued, handled, dropped, cut, skipped, tried, unmet>>

\* Fault: the signal is looked at and not taken.
TakeTorchPeeks ==
    /\ wpc = "select" /\ torchChan # <<>>
    /\ signal' = {Head(torchChan)}
    /\ wpc' = "list"
    /\ UNCHANGED <<http, createdChan, torchChan, broker, consumer, greeting, todo, process,
                   history>>

TakeTorch ==
    /\ wpc = "select" /\ torchChan # <<>>
    /\ signal' = {Head(torchChan)}
    /\ torchChan' = Tail(torchChan)
    /\ wpc' = "list"
    /\ UNCHANGED <<http, createdChan, broker, consumer, greeting, todo, process, history>>

\* GetWebhooksAll, in the order of the ids.  Its loop does not look at
\* rows.Err: when the connection breaks, the rows read so far are the list.
List ==
    /\ wpc = "list"
    /\ \/ todo' = rows /\ wpc' = "post" /\ UNCHANGED <<signal, dropped, cut>>
       \/ /\ \E w \in rows : todo' = {v \in rows : v < w}
          /\ cut' = cut \cup signal
          /\ wpc' = "post" /\ UNCHANGED <<signal, dropped>>
       \/ /\ dropped' = dropped \cup signal
          /\ signal' = {}
          /\ wpc' = "select" /\ UNCHANGED <<todo, cut>>
    /\ UNCHANGED <<http, createdChan, torchChan, broker, consumer, greeting, process, queued,
                   handled, skipped, tried, greeted, unmet>>

\* Fault: an endpoint that fails ends the loop.
PostUntilFailure ==
    /\ wpc = "post"
    /\ \E w \in todo :
         /\ \A v \in todo : w <= v
         /\ todo' = todo \ {w} \/ todo' = {}
         /\ tried' = tried \cup ({w} \X signal)
    /\ UNCHANGED <<http, createdChan, torchChan, broker, consumer, wpc, greeting, signal,
                   process, queued, handled, dropped, cut, skipped, greeted, unmet>>

\* Fault: a POST is repeated until the endpoint accepts it.
PostRepeatedly ==
    /\ wpc = "post"
    /\ \E w \in todo : tried' = tried \cup ({w} \X signal)
    /\ UNCHANGED <<http, createdChan, torchChan, broker, consumer, wpc, greeting, signal, todo,
                   process, queued, handled, dropped, cut, skipped, greeted, unmet>>

\* One POST returns, in the order of the list; a failed one is passed over.
Post ==
    /\ wpc = "post"
    /\ \E w \in todo :
         /\ \A v \in todo : w <= v
         /\ todo' = todo \ {w}
         /\ tried' = tried \cup ({w} \X signal)
    /\ UNCHANGED <<http, createdChan, torchChan, broker, consumer, wpc, greeting, signal,
                   process, queued, handled, dropped, cut, skipped, greeted, unmet>>

PostedAll ==
    /\ wpc = "post" /\ todo = {}
    /\ handled' = handled \cup signal
    /\ signal' = {}
    /\ wpc' = "select"
    /\ UNCHANGED <<http, createdChan, torchChan, broker, consumer, greeting, todo, process,
                   queued, dropped, cut, skipped, tried, greeted, unmet>>

\* The select also sees the cancelled context.
StopServer ==
    /\ wpc = "select" /\ cancelled
    /\ wpc' = "stopped"
    /\ UNCHANGED <<http, createdChan, torchChan, broker, consumer, greeting, signal, todo,
                   process, history>>

-----------------------------------------------------------------------------
(* The process *)

\* OnStop cancels the context of the three servers; the session's is a child.
Cancel ==
    /\ up /\ ~cancelled /\ faults < MaxFaults
    /\ cancelled' = TRUE
    /\ session' = IF session = "open" THEN "ending" ELSE session
    /\ UNCHANGED <<http, createdChan, torchChan, broker, kpc, position, marked, server, up,
                   faults, history>>

\* The process exits after a stop, or is killed: what was in memory is gone.
Die ==
    /\ up /\ faults < MaxFaults
    /\ up' = FALSE /\ cancelled' = FALSE /\ faults' = faults + 1
    /\ createdChan' = <<>> /\ torchChan' = <<>>
    /\ cpc' = [c \in Creators |-> IF cpc[c] = "send" THEN "gone" ELSE cpc[c]]
    /\ session' = "none"
    /\ kpc' = [p \in Partitions |-> "left"]
    /\ wpc' = "stopped" /\ greeting' = {} /\ signal' = {} /\ todo' = {}
    /\ UNCHANGED <<rows, broker, position, marked, history>>

Restart ==
    /\ ~up
    /\ up' = TRUE
    /\ wpc' = "select"
    /\ UNCHANGED <<http, createdChan, torchChan, broker, consumer, greeting, signal, todo,
                   cancelled, faults, history>>

-----------------------------------------------------------------------------
Serve ==
    \/ TakeCreated \/ Lookup \/ Greet \/ TakeTorch \/ List \/ Post \/ PostedAll \/ StopServer

Claim(p) == Receive(p) \/ Enqueue(p) \/ MarkMessage(p) \/ LeaveClaim(p)

Next ==
    \/ \E c \in Creators : CreateWebhook(c) \/ SendCreated(c)
    \/ \E w \in Webhooks : DeleteWebhook(w)
    \/ \E p \in Partitions : Publish(p) \/ Claim(p) \/ AutoCommit(p)
    \/ OpenSession \/ LeaveSession \/ CloseSession
    \/ Serve
    \/ Cancel \/ Die \/ Restart

Spec == Init /\ [][Next]_vars

\* Every goroutine that can go on does, and every POST returns at some time
\* (http.DefaultClient has no timeout: that is the endpoints' doing).  Senders
\* blocked on a full channel are served in the order they came, so that each
\* gets its place; a select that finds both channels ready chooses at random,
\* so that neither is passed over for ever.
FairSpec ==
    /\ Spec
    /\ \A c \in Creators : SF_vars(SendCreated(c))
    /\ \A p \in Partitions : SF_vars(Enqueue(p)) /\ WF_vars(Claim(p))
    /\ WF_vars(OpenSession) /\ WF_vars(CloseSession)
    /\ WF_vars(Serve) /\ SF_vars(TakeCreated) /\ SF_vars(TakeTorch)

-----------------------------------------------------------------------------
(* Properties *)

InFlight == ToSet(torchChan) \cup signal

\* A committed offset never passes over a signal that the consumer did not
\* hand on: whatever rebalance, crash or failed commit comes between, each
\* signal below it was put in the channel, does not decode, or was published
\* before the group had a committed offset.
CommitPassesNothing ==
    \A s \in Signals :
        s[2] <= committed[s[1]] => s \in ToSet(queued) \cup Undecodable \cup skipped

\* While no process died and no commit failed, rebalances alone never make a
\* signal be handed on twice, nor out of the order of its partition.
OnceAndInOrder ==
    faults = 0 =>
        \A i, j \in 1 .. Len(queued) :
            i < j /\ queued[i][1] = queued[j][1] => queued[i][2] < queued[j][2]

\* Until a process dies, a signal handed on is in exactly one place: it waits
\* in the channel, is being posted, was posted, or its list could not be read.
QueuedIsAccountedFor ==
    faults = 0 =>
        /\ ToSet(queued) = InFlight \cup handled \cup dropped
        /\ InFlight \cap (handled \cup dropped) = {}
        /\ handled \cap dropped = {}
        /\ ToSet(torchChan) \cap signal = {}

\* A signal that was handled was tried on every webhook that was there all
\* along, whatever the other endpoints answered; only a list that broke off
\* while it was read leaves some out.
EveryWebhookTried ==
    \A s \in handled \ cut : \A w \in Existing \cap rows : <<w, s>> \in tried

\* The same for the webhooks that POST /profile/webhooks answered 201 for:
\* until the process dies each of them waits in the channel, is the one being
\* greeted, was greeted, or was not found any more; none is greeted twice and
\* none is greeted for a request that was answered otherwise.
CreatedIsAccountedFor ==
    LET waiting == ToSet(createdChan) IN
    /\ waiting \cup greeting \cup greeted \cup unmet \subseteq
           {c \in Creators : cpc[c] = "201"}
    /\ faults = 0 => {c \in Creators : cpc[c] = "201"} \subseteq
                         waiting \cup greeting \cup greeted \cup unmet
    /\ waiting \cap greeting = {} /\ greeted \cap unmet = {}
    /\ (waiting \cup greeting) \cap (greeted \cup unmet) = {}

\* ConsumeClaim watches the session's context, "Important during
\* rebalance/shutdown": a session that is to end does end.
SessionEnds == session = "ending" ~> session = "none"

\* Every signal handed on is posted, or given up for want of the list.
SignalsAreHandled ==
    \A s \in Signals : s \in ToSet(queued) ~> s \in handled \cup dropped

\* Every POST /profile/webhooks that waits for room in the channel is answered.
CreatorsAreAnswered ==
    \A c \in Creators : cpc[c] = "send" ~> cpc[c] = "201"
=============================================================================
