------------------------- MODULE Notifications_proofs -------------------------
(***************************************************************************)
(* Theorems about Notifications, for any partitions, signals, webhooks and *)
(* requests, any capacities of the channels, and any number of faults.     *)
(***************************************************************************)
EXTENDS Notifications, SequenceTheorems, TLAPS

-----------------------------------------------------------------------------
(* The inductive invariant *)

Handed(p, n) == <<p, n>> \in ToSet(queued) \cup Undecodable \cup skipped

\* Nothing up to offset n of partition p is passed over.
Passed(p, n) == \A m \in 1 .. n : Handed(p, m)

\* Whatever offset a claim holds, it passes over nothing below it, except for
\* the message it has received and not yet put in the channel.
OffsetInv ==
    \A p \in Partitions :
        /\ position[p] <= published[p] /\ published[p] <= MaxOffset[p]
        /\ committed[p] <= published[p] /\ marked[p] <= published[p]
        /\ Passed(p, committed[p]) /\ Passed(p, marked[p])
        /\ kpc[p] \in {"receive", "mark"} => Passed(p, position[p])
        /\ kpc[p] = "send" => Passed(p, position[p] - 1)
        /\ kpc[p] \in {"send", "mark"} => position[p] >= 1
        /\ session = "none" => kpc[p] = "left"

\* The last offset of a partition that may be in the queue.
LastQueued(p) == IF kpc[p] = "mark" THEN position[p] ELSE Newer(p)

\* Until something fails, what was queued is marked or about to be, and a
\* session leaves no mark uncommitted.
OrderInv ==
    faults = 0 =>
        /\ \A p \in Partitions :
             /\ session = "none" => marked[p] <= committed[p]
             /\ session # "none" =>
                  Newer(p) <= IF kpc[p] = "send" THEN position[p] - 1 ELSE position[p]
             /\ \A i \in 1 .. Len(queued) :
                  queued[i][1] = p => queued[i][2] <= LastQueued(p)
        /\ OnceAndInOrder

Distinct(s) == \A i, j \in 1 .. Len(s) : s[i] = s[j] => i = j

\* The server has a signal, or a created webhook, only while it handles it.
ServerInv ==
    /\ wpc \notin {"list", "post"} => signal = {}
    /\ wpc \notin {"lookup", "greet"} => greeting = {}
    /\ ~up => wpc = "stopped"

TorchInv == faults = 0 => Distinct(torchChan) /\ QueuedIsAccountedFor

\* While a signal is being posted, who was not tried is still to be.
TriedInv ==
    /\ wpc = "post" => \A s \in signal \ cut : \A w \in Existing \cap rows :
                          <<w, s>> \in tried \/ w \in todo
    /\ EveryWebhookTried

CreatedInv == Distinct(createdChan) /\ CreatedIsAccountedFor

IInv == TypeOK /\ OffsetInv /\ OrderInv /\ ServerInv /\ TorchInv /\ TriedInv /\ CreatedInv

-----------------------------------------------------------------------------
(* Lemmas on the channels *)

\* What a channel holds once one more is sent to it.
LEMMA Sending ==
  ASSUME NEW S, NEW s \in Seq(S), NEW x \in S
  PROVE  /\ Append(s, x) \in Seq(S) /\ Len(Append(s, x)) = Len(s) + 1 /\ Len(s) \in Nat
         /\ \A i \in 1 .. Len(s) : Append(s, x)[i] = s[i]
         /\ Append(s, x)[Len(s) + 1] = x
         /\ ToSet(Append(s, x)) = ToSet(s) \cup {x}
         /\ Distinct(s) /\ x \notin ToSet(s) => Distinct(Append(s, x))
<1>1. /\ Append(s, x) \in Seq(S) /\ Len(Append(s, x)) = Len(s) + 1 /\ Len(s) \in Nat
      /\ \A i \in 1 .. Len(s) : Append(s, x)[i] = s[i]
      /\ Append(s, x)[Len(s) + 1] = x
  OBVIOUS
<1>2. DOMAIN s = 1 .. Len(s) /\ DOMAIN Append(s, x) = 1 .. Len(s) + 1
  BY <1>1, LenProperties
<1>3. ToSet(s) = {s[i] : i \in 1 .. Len(s)} BY <1>2 DEF ToSet
<1>4. ToSet(Append(s, x)) = {Append(s, x)[i] : i \in 1 .. Len(s) + 1} BY <1>2 DEF ToSet
<1>5. 1 .. Len(s) + 1 = (1 .. Len(s)) \cup {Len(s) + 1} BY <1>1
<1>6. ToSet(Append(s, x)) = ToSet(s) \cup {x} BY <1>1, <1>3, <1>4, <1>5
<1>7. ASSUME Distinct(s), x \notin ToSet(s) PROVE Distinct(Append(s, x))
  <2>1. \A i \in 1 .. Len(s) : s[i] # x BY <1>3, <1>7
  <2>2. QED BY <1>1, <1>5, <1>7, <2>1 DEF Distinct
<1>8. QED BY <1>1, <1>6, <1>7

\* What it holds once the first is received from it.
LEMMA Receiving ==
  ASSUME NEW S, NEW s \in Seq(S), s # <<>>
  PROVE  /\ ToSet(s) = {Head(s)} \cup ToSet(Tail(s))
         /\ Distinct(s) => Distinct(Tail(s)) /\ Head(s) \notin ToSet(Tail(s))
         /\ Head(s) \in S /\ Tail(s) \in Seq(S) /\ Len(Tail(s)) <= Len(s)
<1>1. /\ Head(s) \in S /\ Tail(s) \in Seq(S) /\ Len(s) \in Nat \ {0}
      /\ Len(Tail(s)) = Len(s) - 1 /\ Head(s) = s[1]
      /\ \A i \in 1 .. Len(Tail(s)) : Tail(s)[i] = s[i + 1]
  BY HeadTailProperties, EmptySeq
<1>2. DOMAIN s = 1 .. Len(s) /\ DOMAIN Tail(s) = 1 .. Len(Tail(s)) BY <1>1, LenProperties
<1>3. ToSet(s) = {s[i] : i \in 1 .. Len(s)} BY <1>2 DEF ToSet
<1>4. ToSet(Tail(s)) = {Tail(s)[i] : i \in 1 .. Len(Tail(s))} BY <1>2 DEF ToSet
<1>5. ASSUME NEW x PROVE x \in ToSet(s) <=> x \in {Head(s)} \cup ToSet(Tail(s))
  <2>1. ASSUME x \in ToSet(s) PROVE x \in {Head(s)} \cup ToSet(Tail(s))
    <3>1. PICK i \in 1 .. Len(s) : x = s[i] BY <1>3, <2>1
    <3>2. CASE i = 1 BY <1>1, <3>1, <3>2
    <3>3. CASE i # 1
      <4>1. i - 1 \in 1 .. Len(Tail(s)) /\ Tail(s)[i - 1] = s[i] BY <1>1, <3>1, <3>3
      <4>2. QED BY <1>4, <3>1, <4>1
    <3>4. QED BY <3>2, <3>3
  <2>2. ASSUME x \in {Head(s)} \cup ToSet(Tail(s)) PROVE x \in ToSet(s)
    <3>1. CASE x = Head(s)
      <4>1. 1 \in 1 .. Len(s) BY <1>1
      <4>2. QED BY <1>1, <1>3, <3>1, <4>1
    <3>2. CASE x \in ToSet(Tail(s))
      <4>1. PICK i \in 1 .. Len(Tail(s)) : x = Tail(s)[i] BY <1>4, <3>2
      <4>2. i + 1 \in 1 .. Len(s) /\ x = s[i + 1] BY <1>1, <4>1
      <4>3. QED BY <1>3, <4>2
    <3>3. QED BY <2>2, <3>1, <3>2
  <2>3. QED BY <2>1, <2>2
<1>6. ASSUME Distinct(s) PROVE Distinct(Tail(s)) /\ Head(s) \notin ToSet(Tail(s))
  <2>1. \A i \in 1 .. Len(Tail(s)) : i + 1 \in 1 .. Len(s) /\ i + 1 # 1 /\ Tail(s)[i] = s[i + 1]
    BY <1>1
  <2>2. Distinct(Tail(s))
    <3> SUFFICES ASSUME NEW i \in 1 .. Len(Tail(s)), NEW j \in 1 .. Len(Tail(s)),
                        Tail(s)[i] = Tail(s)[j]
                 PROVE  i = j
      BY DEF Distinct
    <3>1. i + 1 = j + 1 BY <1>6, <2>1 DEF Distinct
    <3>2. QED BY <3>1
  <2>3. \A i \in 1 .. Len(Tail(s)) : Tail(s)[i] # Head(s)
    <3>1. 1 \in 1 .. Len(s) BY <1>1
    <3>2. QED BY <1>1, <1>6, <2>1, <3>1 DEF Distinct
  <2>4. QED BY <1>4, <2>2, <2>3
<1>7. QED BY <1>1, <1>5, <1>6

\* An empty channel.
LEMMA EmptyChannel ==
  /\ \A S : <<>> \in Seq(S)
  /\ Len(<<>>) = 0 /\ ToSet(<<>>) = {} /\ Distinct(<<>>)
BY DEF ToSet, Distinct

-----------------------------------------------------------------------------
(* What a step leaves alone keeps the parts of the invariant that are about it *)

LEMMA OffsetKept ==
  ASSUME OffsetInv,
         UNCHANGED <<published, committed, session, kpc, position, marked, queued, skipped>>
  PROVE  OffsetInv'
BY DEF OffsetInv, Passed, Handed

LEMMA OrderKept ==
  ASSUME OrderInv, UNCHANGED <<faults, committed, session, kpc, position, marked, queued>>
  PROVE  OrderInv'
BY DEF OrderInv, OnceAndInOrder, LastQueued, Newer

LEMMA TorchKept ==
  ASSUME TorchInv, UNCHANGED <<faults, torchChan, signal, queued, handled, dropped>>
  PROVE  TorchInv'
BY DEF TorchInv, QueuedIsAccountedFor, InFlight, Distinct

LEMMA TriedKept ==
  ASSUME TriedInv, UNCHANGED <<wpc, signal, cut, todo, tried, handled>>,
         Existing \cap rows' \subseteq rows
  PROVE  TriedInv'
BY DEF TriedInv, EveryWebhookTried

LEMMA CreatedKept ==
  ASSUME CreatedInv, UNCHANGED <<faults, cpc, createdChan, greeting, greeted, unmet>>
  PROVE  CreatedInv'
BY DEF CreatedInv, CreatedIsAccountedFor, Distinct

\* A signal that was handed on stays so.
LEMMA PassedKept ==
  ASSUME ToSet(queued) \subseteq ToSet(queued'), skipped \subseteq skipped'
  PROVE  \A p, n : Passed(p, n) => Passed(p, n)'
BY DEF Passed, Handed

LEMMA InitIInv == Init => IInv
<1> SUFFICES ASSUME Init PROVE IInv OBVIOUS
<1> USE DEF Init
<1>1. TypeOK
  <2>1. /\ createdChan \in Seq(Creators) /\ Len(createdChan) <= CreatedCap
        /\ torchChan \in Seq(Signals) /\ Len(torchChan) <= TorchCap
        /\ queued \in Seq(Signals)
    BY EmptyChannel, CapacityAssumption
  <2>2. /\ rows \subseteq Webhooks /\ NoOffset \in Offset /\ faults \in 0 .. MaxFaults
    BY BoundAssumption DEF Webhooks, Offset
  <2>3. QED BY <2>1, <2>2 DEF TypeOK
<1>2. OffsetInv BY BoundAssumption DEF OffsetInv, Passed, Handed, NoOffset
<1>3. OrderInv BY EmptyChannel DEF OrderInv, OnceAndInOrder, NoOffset
<1>4. ServerInv /\ TriedInv BY DEF ServerInv, TriedInv, EveryWebhookTried
<1>5. TorchInv BY EmptyChannel DEF TorchInv, QueuedIsAccountedFor, InFlight
<1>6. CreatedInv BY EmptyChannel DEF CreatedInv, CreatedIsAccountedFor
<1>7. QED BY <1>1, <1>2, <1>3, <1>4, <1>5, <1>6 DEF IInv
-----------------------------------------------------------------------------
(* One lemma per action: the HTTP handlers *)

LEMMA CreateWebhookStep ==
  ASSUME IInv, NEW c \in Creators, CreateWebhook(c)
  PROVE  IInv'
<1> USE DEF IInv, broker, consumer, server, process, history
<1>1. /\ cpc[c] = "idle" /\ rows \subseteq rows' /\ rows' \subseteq rows \cup {c}
      /\ cpc' = [cpc EXCEPT ![c] = "send"] \/ cpc' = [cpc EXCEPT ![c] = "500"]
      /\ UNCHANGED <<createdChan, torchChan, broker, consumer, server, process, history>>
  BY DEF CreateWebhook
<1>2. TypeOK' BY <1>1 DEF TypeOK, Webhooks
<1>3. OffsetInv' /\ OrderInv' /\ TorchInv' BY <1>1, OffsetKept, OrderKept, TorchKept
<1>4. ServerInv' BY <1>1 DEF ServerInv
<1>5. TriedInv' BY <1>1, TriedKept, InputAssumption
<1>6. CreatedInv'
  <2>1. {d \in Creators : cpc'[d] = "201"} = {d \in Creators : cpc[d] = "201"}
    BY <1>1 DEF TypeOK
  <2>2. QED BY <1>1, <2>1 DEF CreatedInv, CreatedIsAccountedFor, Distinct
<1>7. QED BY <1>2, <1>3, <1>4, <1>5, <1>6

LEMMA SendCreatedStep ==
  ASSUME IInv, NEW c \in Creators, SendCreated(c)
  PROVE  IInv'
<1> USE DEF IInv, broker, consumer, server, process, history
<1>1. /\ cpc[c] = "send" /\ Len(createdChan) < CreatedCap
      /\ createdChan' = Append(createdChan, c)
      /\ cpc' = [cpc EXCEPT ![c] = "201"]
      /\ UNCHANGED <<rows, torchChan, broker, consumer, server, process, history>>
  BY DEF SendCreated
<1>2. /\ createdChan' \in Seq(Creators) /\ Len(createdChan') = Len(createdChan) + 1
      /\ Len(createdChan) \in Nat /\ ToSet(createdChan') = ToSet(createdChan) \cup {c}
      /\ Distinct(createdChan) /\ c \notin ToSet(createdChan) => Distinct(createdChan')
  BY <1>1, Sending DEF TypeOK
<1>3. TypeOK' BY <1>1, <1>2, CapacityAssumption DEF TypeOK
<1>4. OffsetInv' /\ OrderInv' /\ TorchInv' BY <1>1, OffsetKept, OrderKept, TorchKept
<1>5. ServerInv' /\ TriedInv' BY <1>1, TriedKept DEF ServerInv
<1>6. CreatedInv'
  <2>1. c \notin ToSet(createdChan) \cup greeting \cup greeted \cup unmet
    BY <1>1 DEF CreatedInv, CreatedIsAccountedFor
  <2>2. {d \in Creators : cpc'[d] = "201"} = {d \in Creators : cpc[d] = "201"} \cup {c}
    BY <1>1 DEF TypeOK
  <2>3. Distinct(createdChan)' BY <1>2, <2>1 DEF CreatedInv, Distinct
  <2>4. CreatedIsAccountedFor' BY <1>1, <1>2, <2>1, <2>2 DEF CreatedInv, CreatedIsAccountedFor
  <2>5. QED BY <2>3, <2>4 DEF CreatedInv
<1>7. QED BY <1>3, <1>4, <1>5, <1>6

LEMMA DeleteWebhookStep ==
  ASSUME IInv, NEW w \in Webhooks, DeleteWebhook(w)
  PROVE  IInv'
<1> USE DEF IInv, DeleteWebhook, broker, consumer, server, process, history
<1>1. TypeOK' BY DEF TypeOK
<1>2. OffsetInv' /\ OrderInv' /\ TorchInv' /\ CreatedInv'
  BY OffsetKept, OrderKept, TorchKept, CreatedKept
<1>3. ServerInv' /\ TriedInv' BY TriedKept DEF ServerInv
<1>4. QED BY <1>1, <1>2, <1>3

-----------------------------------------------------------------------------
(* The broker and the consumer group *)

LEMMA PublishStep ==
  ASSUME IInv, NEW p \in Partitions, Publish(p)
  PROVE  IInv'
<1> USE DEF IInv, http, consumer, server, process, history
<1>1. /\ published[p] < MaxOffset[p] /\ published' = [published EXCEPT ![p] = @ + 1]
      /\ UNCHANGED <<http, createdChan, torchChan, committed, consumer, server, process, history>>
  BY DEF Publish
<1>2. TypeOK' BY <1>1 DEF TypeOK
<1>3. OffsetInv'
  <2>1. \A q, n : Passed(q, n)' <=> Passed(q, n) BY <1>1 DEF Passed, Handed
  <2>2. \A q \in Partitions : published[q] <= published'[q] /\ published'[q] <= MaxOffset[q]
    <3> SUFFICES ASSUME NEW q \in Partitions
                 PROVE  published[q] <= published'[q] /\ published'[q] <= MaxOffset[q]
      OBVIOUS
    <3>1. published[q] \in Nat /\ MaxOffset[q] \in Nat /\ published[q] <= MaxOffset[q]
      BY BoundAssumption DEF TypeOK, OffsetInv
    <3>2. published'[q] = IF q = p THEN published[q] + 1 ELSE published[q] BY <1>1 DEF TypeOK
    <3>3. QED BY <1>1, <3>1, <3>2
  <2>3. \A q \in Partitions : /\ published[q] \in Nat /\ published'[q] \in Nat /\ position[q] \in Nat
                              /\ committed[q] \in Int /\ marked[q] \in Int
    BY <1>1, <1>2 DEF TypeOK, Offset, NoOffset
  <2>4. QED BY <1>1, <2>1, <2>2, <2>3 DEF OffsetInv, Passed, Handed
<1>4. OrderInv' /\ TorchInv' /\ TriedInv' /\ CreatedInv'
  BY <1>1, OrderKept, TorchKept, TriedKept, CreatedKept
<1>5. ServerInv' BY <1>1 DEF ServerInv
<1>6. QED BY <1>2, <1>3, <1>4, <1>5

\* A claim starts at an offset that passes over nothing but what is skipped.
LEMMA OpenSessionStep ==
  ASSUME IInv, OpenSession
  PROVE  IInv'
<1> USE DEF IInv, http, broker, server, process
<1>1. /\ session = "none" /\ session' = "open"
      /\ kpc' = [q \in Partitions |-> "receive"]
      /\ position' = [q \in Partitions |->
                        IF committed[q] = NoOffset THEN published[q] ELSE committed[q]]
      /\ marked' = [q \in Partitions |-> NoOffset]
      /\ skipped' = skipped \cup {s \in Signals : /\ committed[s[1]] = NoOffset
                                                  /\ s[2] <= published[s[1]]}
      /\ UNCHANGED <<http, createdChan, torchChan, broker, server, process, queued, handled,
                     dropped, cut, tried, greeted, unmet>>
  BY DEF OpenSession
<1>2. \A q \in Partitions : committed[q] \in Offset /\ published[q] \in Nat BY DEF TypeOK
<1>3. TypeOK' BY <1>1, <1>2 DEF TypeOK, Offset
<1>4. OffsetInv'
  <2> SUFFICES ASSUME NEW q \in Partitions
               PROVE  /\ position'[q] <= published'[q] /\ published'[q] <= MaxOffset[q]
                      /\ committed'[q] <= published'[q] /\ marked'[q] <= published'[q]
                      /\ Passed(q, committed[q])' /\ Passed(q, marked[q])'
                      /\ Passed(q, position[q])'
    BY <1>1 DEF OffsetInv
  <2>1. \A m, n : Passed(m, n) => Passed(m, n)' BY <1>1, PassedKept
  <2>2. position'[q] <= published'[q] /\ committed'[q] <= published'[q] /\ marked'[q] = NoOffset
    BY <1>1, <1>2 DEF OffsetInv
  <2>3. published'[q] <= MaxOffset[q] BY <1>1 DEF OffsetInv
  <2>4. Passed(q, committed[q]) BY DEF OffsetInv
  <2>5. Passed(q, committed[q])' BY <1>1, <2>1, <2>4 DEF Passed, Handed
  <2>6. Passed(q, marked[q])' BY <2>2 DEF Passed, NoOffset
  <2>7. Passed(q, position[q])'
    <3>1. CASE committed[q] # NoOffset
      <4>1. position'[q] = committed'[q] BY <1>1, <3>1
      <4>2. QED BY <2>5, <4>1 DEF Passed, Handed
    <3>2. CASE committed[q] = NoOffset
      <4> SUFFICES ASSUME NEW m \in 1 .. published[q] PROVE <<q, m>> \in skipped'
        BY <1>1, <3>2 DEF Passed, Handed
      <4>1. m \in 1 .. MaxOffset[q] BY <1>1, <1>2, <2>3, BoundAssumption
      <4>2. <<q, m>> \in Signals BY <4>1 DEF Signals
      <4>3. m <= published[q] BY <1>2
      <4>4. QED BY <1>1, <3>2, <4>2, <4>3
    <3>3. QED BY <3>1, <3>2
  <2>8. QED BY <1>1, <1>2, <2>2, <2>3, <2>5, <2>6, <2>7 DEF NoOffset
<1>5. OrderInv'
  <2> SUFFICES ASSUME faults = 0 PROVE OrderInv' BY <1>1 DEF OrderInv
  <2>1. \A q \in Partitions : marked[q] <= committed[q] /\ kpc[q] = "left"
    BY <1>1 DEF OrderInv, OffsetInv
  <2>2. \A q \in Partitions : Newer(q) = committed[q]
    BY <2>1 DEF Newer, TypeOK, Offset, NoOffset
  <2>3. \A q \in Partitions : Newer(q)' = committed[q]
    BY <1>1, <1>2 DEF Newer, Offset, NoOffset
  <2>4. \A q \in Partitions : LastQueued(q)' = LastQueued(q)
    BY <1>1, <2>1, <2>2, <2>3 DEF LastQueued
  <2>6. \A q \in Partitions, i \in 1 .. Len(queued) :
           queued[i][1] = q => queued[i][2] <= LastQueued(q)'
    BY <2>4 DEF OrderInv
  <2>7. \A q \in Partitions : Newer(q)' <= position'[q] /\ kpc'[q] = "receive"
    BY <1>1, <1>2, <2>3 DEF Offset, NoOffset
  <2>8. OnceAndInOrder' BY <1>1 DEF OrderInv, OnceAndInOrder
  <2>9. QED BY <1>1, <2>6, <2>7, <2>8 DEF OrderInv, LastQueued, Newer
<1>6. TorchInv' /\ TriedInv' /\ CreatedInv' BY <1>1, TorchKept, TriedKept, CreatedKept
<1>7. ServerInv' BY <1>1 DEF ServerInv
<1>8. QED BY <1>3, <1>4, <1>5, <1>6, <1>7

LEMMA LeaveSessionStep ==
  ASSUME IInv, LeaveSession
  PROVE  IInv'
<1> USE DEF IInv, LeaveSession, http, broker, server, process, history
<1>1. TypeOK' BY DEF TypeOK
<1>2. OffsetInv' BY DEF OffsetInv, Passed, Handed
<1>3. OrderInv' BY DEF OrderInv, OnceAndInOrder, LastQueued, Newer
<1>4. TorchInv' /\ TriedInv' /\ CreatedInv' BY TorchKept, TriedKept, CreatedKept
<1>5. ServerInv' BY DEF ServerInv
<1>6. QED BY <1>1, <1>2, <1>3, <1>4, <1>5

\* The message that is received is the only one beyond what was passed.
LEMMA ReceiveStep ==
  ASSUME IInv, NEW p \in Partitions, Receive(p)
  PROVE  IInv'
<1> USE DEF IInv, http, broker, server, process, history
<1>1. /\ kpc[p] = "receive" /\ position[p] < published[p]
      /\ position' = [position EXCEPT ![p] = position[p] + 1]
      /\ kpc' = [kpc EXCEPT ![p] = IF <<p, position'[p]>> \in Undecodable
                                   THEN "receive" ELSE "send"]
      /\ UNCHANGED <<http, createdChan, torchChan, broker, session, marked, server, process,
                     history>>
  BY DEF Receive
<1>2. /\ \A q \in Partitions \ {p} : position'[q] = position[q] /\ kpc'[q] = kpc[q]
      /\ position'[p] = position[p] + 1 /\ position[p] \in Nat /\ published[p] \in Nat
      /\ \/ kpc'[p] = "send"
         \/ kpc'[p] = "receive" /\ <<p, position[p] + 1>> \in Undecodable
  BY <1>1 DEF TypeOK
<1>3. TypeOK' BY <1>1 DEF TypeOK
<1>4. \A q, n : Passed(q, n)' <=> Passed(q, n) BY <1>1 DEF Passed, Handed
<1>5. OffsetInv'
  <2>1. ASSUME NEW q \in Partitions, q # p
        PROVE  /\ position'[q] <= published[q]
               /\ kpc'[q] \in {"receive", "mark"} => Passed(q, position'[q])
               /\ kpc'[q] = "send" => Passed(q, position'[q] - 1)
               /\ kpc'[q] \in {"send", "mark"} => position'[q] >= 1
               /\ session = "none" => kpc'[q] = "left"
    BY <1>2, <2>1 DEF OffsetInv
  <2>2. /\ position'[p] <= published[p] /\ position'[p] >= 1 /\ session # "none"
        /\ kpc'[p] = "send" => Passed(p, position'[p] - 1)
    BY <1>1, <1>2 DEF OffsetInv
  <2>3. kpc'[p] = "receive" => Passed(p, position'[p])
    <3> SUFFICES ASSUME kpc'[p] = "receive", NEW m \in 1 .. position[p] + 1
                 PROVE  Handed(p, m)
      BY <1>2 DEF Passed
    <3>1. CASE m = position[p] + 1 BY <1>2, <3>1 DEF Handed
    <3>2. CASE m # position[p] + 1
      <4>1. m \in 1 .. position[p] BY <1>2, <3>2
      <4>2. QED BY <1>1, <4>1 DEF OffsetInv, Passed
    <3>3. QED BY <3>1, <3>2
  <2>4. ASSUME NEW q \in Partitions
        PROVE  /\ position'[q] <= published[q]
               /\ kpc'[q] \in {"receive", "mark"} => Passed(q, position'[q])
               /\ kpc'[q] = "send" => Passed(q, position'[q] - 1)
               /\ kpc'[q] \in {"send", "mark"} => position'[q] >= 1
               /\ session = "none" => kpc'[q] = "left"
    BY <1>2, <2>1, <2>2, <2>3
  <2>5. QED BY <1>1, <2>4 DEF OffsetInv, Passed, Handed
<1>6. OrderInv'
  <2> SUFFICES ASSUME faults = 0 PROVE OrderInv' BY <1>1 DEF OrderInv
  <2>1. \A q \in Partitions : Newer(q)' = Newer(q) /\ LastQueued(q)' = LastQueued(q)
    BY <1>1, <1>2 DEF Newer, LastQueued
  <2>2. Newer(p) <= position[p] /\ session # "none" BY <1>1 DEF OrderInv, OffsetInv
  <2>3. \A q \in Partitions : session # "none" =>
          Newer(q) <= IF kpc'[q] = "send" THEN position'[q] - 1 ELSE position'[q]
    <3> SUFFICES ASSUME NEW q \in Partitions, session # "none"
                 PROVE  Newer(q) <= IF kpc'[q] = "send" THEN position'[q] - 1 ELSE position'[q]
      OBVIOUS
    <3>1. Newer(q) \in Int /\ position[q] \in Nat BY DEF Newer, TypeOK, Offset, NoOffset
    <3>2. Newer(q) <= IF kpc[q] = "send" THEN position[q] - 1 ELSE position[q] BY DEF OrderInv
    <3>3. CASE q = p BY <1>2, <2>2, <3>1, <3>3
    <3>4. CASE q # p BY <1>2, <3>2, <3>4
    <3>5. QED BY <3>3, <3>4
  <2>4. OnceAndInOrder' BY <1>1 DEF OrderInv, OnceAndInOrder
  <2>5. QED BY <1>1, <2>1, <2>3, <2>4 DEF OrderInv
<1>7. TorchInv' /\ TriedInv' /\ CreatedInv' BY <1>1, TorchKept, TriedKept, CreatedKept
<1>8. ServerInv' BY <1>1 DEF ServerInv
<1>9. QED BY <1>3, <1>5, <1>6, <1>7, <1>8

\* Of its partition, what is put in the channel is newer than all that was.
LEMMA EnqueueStep ==
  ASSUME IInv, NEW p \in Partitions, Enqueue(p)
  PROVE  IInv'
<1> USE DEF IInv, http, broker, server, process
<1>0. PICK x : x = <<p, position[p]>> OBVIOUS
<1>1. /\ kpc[p] = "send" /\ Len(torchChan) < TorchCap
      /\ torchChan' = Append(torchChan, x) /\ queued' = Append(queued, x)
      /\ kpc' = [kpc EXCEPT ![p] = "mark"]
      /\ UNCHANGED <<http, createdChan, broker, session, position, marked, server, process,
                     handled, dropped, cut, skipped, tried, greeted, unmet>>
  BY <1>0 DEF Enqueue
<1>2. /\ \A q \in Partitions \ {p} : kpc'[q] = kpc[q]
      /\ kpc'[p] = "mark" /\ position[p] \in Nat
  BY <1>1 DEF TypeOK
<1>3. x \in Signals
  <2>1. position[p] <= published[p] /\ published[p] <= MaxOffset[p] /\ 1 <= position[p]
    BY <1>1 DEF OffsetInv
  <2>2. published[p] \in Nat /\ MaxOffset[p] \in Nat BY BoundAssumption DEF TypeOK
  <2>3. position[p] \in 1 .. MaxOffset[p] BY <1>2, <2>1, <2>2
  <2>4. QED BY <1>0, <2>3 DEF Signals
<1>4. /\ torchChan' \in Seq(Signals) /\ Len(torchChan') = Len(torchChan) + 1
      /\ Len(torchChan) \in Nat /\ ToSet(torchChan') = ToSet(torchChan) \cup {x}
      /\ Distinct(torchChan) /\ x \notin ToSet(torchChan) => Distinct(torchChan')
  BY <1>1, <1>3, Sending DEF TypeOK
<1>5. /\ queued' \in Seq(Signals) /\ Len(queued') = Len(queued) + 1 /\ Len(queued) \in Nat
      /\ \A i \in 1 .. Len(queued) : queued'[i] = queued[i]
      /\ queued'[Len(queued) + 1] = x /\ ToSet(queued') = ToSet(queued) \cup {x}
  BY <1>1, <1>3, Sending DEF TypeOK
<1>6. TypeOK' BY <1>1, <1>4, <1>5, CapacityAssumption DEF TypeOK
<1>7. OffsetInv'
  <2>1. \A q, n : Passed(q, n) => Passed(q, n)' BY <1>1, <1>5, PassedKept
  <2>2. ASSUME NEW q \in Partitions
        PROVE  Passed(q, committed[q])' /\ Passed(q, marked[q])'
    <3>1. Passed(q, committed[q]) /\ Passed(q, marked[q]) BY DEF OffsetInv
    <3>2. QED BY <1>1, <2>1, <3>1 DEF Passed, Handed
  <2>3. ASSUME NEW q \in Partitions
        PROVE  /\ kpc'[q] \in {"receive", "mark"} => Passed(q, position[q])'
               /\ kpc'[q] = "send" => Passed(q, position[q] - 1)'
               /\ kpc'[q] \in {"send", "mark"} => position[q] >= 1
               /\ session = "none" => kpc'[q] = "left"
    <3>1. CASE q # p
      <4>1. /\ kpc[q] \in {"receive", "mark"} => Passed(q, position[q])
            /\ kpc[q] = "send" => Passed(q, position[q] - 1)
            /\ kpc[q] \in {"send", "mark"} => position[q] >= 1
            /\ session = "none" => kpc[q] = "left"
        BY DEF OffsetInv
      <4>2. kpc'[q] = kpc[q] BY <1>2, <3>1
      <4>3. QED BY <1>1, <2>1, <4>1, <4>2 DEF Passed, Handed
    <3>2. CASE q = p
      <4>1. Passed(p, position[p] - 1) /\ position[p] >= 1 /\ session # "none"
        BY <1>1 DEF OffsetInv
      <4>2. Handed(p, position[p])' BY <1>0, <1>1, <1>5 DEF Handed
      <4>3. ASSUME NEW m \in 1 .. position[p] PROVE Handed(p, m)'
        <5>1. CASE m = position[p] BY <1>1, <4>2, <5>1 DEF Handed
        <5>2. CASE m # position[p]
          <6>1. m \in 1 .. position[p] - 1 BY <1>2, <5>2
          <6>2. Handed(p, m) BY <4>1, <6>1 DEF Passed
          <6>3. QED BY <1>1, <1>5, <6>2 DEF Handed
        <5>3. QED BY <5>1, <5>2
      <4>4. Passed(p, position[p])' BY <1>1, <4>3 DEF Passed
      <4>5. QED BY <1>2, <3>2, <4>1, <4>4
    <3>3. QED BY <3>1, <3>2
  <2>4. QED BY <1>1, <2>2, <2>3 DEF OffsetInv
<1>8. ASSUME faults = 0
      PROVE  /\ \A i \in 1 .. Len(queued) : queued[i][1] = p => queued[i][2] < position[p]
             /\ x \notin ToSet(queued)
  <2>1. Newer(p) <= position[p] - 1 /\ LastQueued(p) = Newer(p)
    BY <1>1, <1>8 DEF OrderInv, OffsetInv, LastQueued
  <2>2. Newer(p) \in Int BY DEF Newer, TypeOK, Offset, NoOffset
  <2>3. ASSUME NEW i \in 1 .. Len(queued), queued[i][1] = p PROVE queued[i][2] < position[p]
    <3>1. queued[i] \in Signals BY DEF TypeOK
    <3>2. queued[i][2] \in Nat BY <3>1, BoundAssumption DEF Signals
    <3>3. queued[i][2] <= Newer(p) BY <1>8, <2>1, <2>3 DEF OrderInv
    <3>4. QED BY <1>2, <2>1, <2>2, <3>2, <3>3
  <2>4. x \notin ToSet(queued)
    <3> SUFFICES ASSUME x \in ToSet(queued) PROVE FALSE OBVIOUS
    <3>1. PICK i \in 1 .. Len(queued) : queued[i] = x
      BY LenProperties DEF ToSet, TypeOK
    <3>2. queued[i][1] = p /\ queued[i][2] = position[p] BY <1>0, <3>1
    <3>3. QED BY <1>2, <2>3, <3>2
  <2>5. QED BY <2>3, <2>4
<1>9. OrderInv'
  <2> SUFFICES ASSUME faults = 0 PROVE OrderInv' BY <1>1 DEF OrderInv
  <2>1. \A q \in Partitions : Newer(q)' = Newer(q) BY <1>1 DEF Newer
  <2>2. \A q \in Partitions \ {p} : LastQueued(q)' = LastQueued(q)
    BY <1>1, <1>2, <2>1 DEF LastQueued
  <2>3. LastQueued(p)' = position[p] BY <1>1, <1>2 DEF LastQueued
  <2>4. ASSUME NEW q \in Partitions, session # "none"
        PROVE  Newer(q)' <= IF kpc'[q] = "send" THEN position[q] - 1 ELSE position[q]
    <3>1. Newer(q) \in Int /\ position[q] \in Nat BY DEF Newer, TypeOK, Offset, NoOffset
    <3>2. QED BY <1>1, <1>2, <2>1, <2>4, <3>1 DEF OrderInv
  <2>5. ASSUME NEW q \in Partitions, NEW i \in 1 .. Len(queued'), queued'[i][1] = q
        PROVE  queued'[i][2] <= LastQueued(q)'
    <3>1. CASE i = Len(queued) + 1 BY <1>0, <1>2, <1>5, <2>3, <2>5, <3>1
    <3>2. CASE i # Len(queued) + 1
      <4>1. i \in 1 .. Len(queued) /\ queued'[i] = queued[i] BY <1>5, <3>2
      <4>2. queued[i] \in Signals BY <4>1 DEF TypeOK
      <4>3. queued[i][2] \in Nat BY <4>2, BoundAssumption DEF Signals
      <4>4. CASE q = p BY <1>2, <1>8, <2>3, <2>5, <4>1, <4>3, <4>4
      <4>5. CASE q # p BY <2>2, <2>5, <4>1, <4>5 DEF OrderInv
      <4>6. QED BY <4>4, <4>5
    <3>3. QED BY <3>1, <3>2
  <2>6. OnceAndInOrder'
    <3> SUFFICES ASSUME NEW i \in 1 .. Len(queued'), NEW j \in 1 .. Len(queued'),
                        i < j, queued'[i][1] = queued'[j][1]
                 PROVE  queued'[i][2] < queued'[j][2]
      BY DEF OnceAndInOrder
    <3>1. i \in 1 .. Len(queued) /\ queued'[i] = queued[i] BY <1>5
    <3>2. CASE j = Len(queued) + 1 BY <1>0, <1>5, <1>8, <3>1, <3>2
    <3>3. CASE j # Len(queued) + 1
      <4>1. j \in 1 .. Len(queued) /\ queued'[j] = queued[j] BY <1>5, <3>3
      <4>2. QED BY <3>1, <4>1 DEF OrderInv, OnceAndInOrder
    <3>4. QED BY <3>2, <3>3
  <2>7. \A q \in Partitions : session = "none" => marked[q] <= committed[q] BY DEF OrderInv
  <2>8. QED BY <1>1, <2>4, <2>5, <2>6, <2>7 DEF OrderInv
<1>10. TorchInv'
  <2> SUFFICES ASSUME faults = 0 PROVE Distinct(torchChan)' /\ QueuedIsAccountedFor'
    BY <1>1 DEF TorchInv
  <2>1. Distinct(torchChan) /\ QueuedIsAccountedFor BY DEF TorchInv
  <2>2. x \notin InFlight \cup handled \cup dropped BY <1>8, <2>1 DEF QueuedIsAccountedFor
  <2>3. Distinct(torchChan)' BY <1>4, <2>1, <2>2 DEF InFlight, Distinct
  <2>4. InFlight' = InFlight \cup {x} BY <1>1, <1>4 DEF InFlight
  <2>5. ToSet(torchChan') \cap signal' = {}
    BY <1>1, <1>4, <2>1, <2>2 DEF InFlight, QueuedIsAccountedFor
  <2>6. QueuedIsAccountedFor' BY <1>1, <1>5, <2>1, <2>2, <2>4, <2>5 DEF QueuedIsAccountedFor
  <2>7. QED BY <2>3, <2>6
<1>11. TriedInv' /\ CreatedInv' BY <1>1, TriedKept, CreatedKept
<1>12. ServerInv' BY <1>1 DEF ServerInv
<1>13. QED BY <1>6, <1>7, <1>9, <1>10, <1>11, <1>12

\* The message is in the channel before it is marked.
LEMMA MarkMessageStep ==
  ASSUME IInv, NEW p \in Partitions, MarkMessage(p)
  PROVE  IInv'
<1> USE DEF IInv, http, broker, server, process, history
<1>1. /\ kpc[p] = "mark"
      /\ marked' = [marked EXCEPT ![p] = position[p]]
      /\ kpc' = [kpc EXCEPT ![p] = "receive"]
      /\ UNCHANGED <<http, createdChan, torchChan, broker, session, position, server, process,
                     history>>
  BY DEF MarkMessage
<1>2. /\ \A q \in Partitions \ {p} : marked'[q] = marked[q] /\ kpc'[q] = kpc[q]
      /\ marked'[p] = position[p] /\ kpc'[p] = "receive"
  BY <1>1 DEF TypeOK
<1>3. TypeOK' BY <1>1 DEF TypeOK, Offset
<1>4. OffsetInv'
  <2> SUFFICES ASSUME NEW q \in Partitions
               PROVE  /\ marked'[q] <= published[q] /\ Passed(q, marked'[q])
                      /\ kpc'[q] \in {"receive", "mark"} => Passed(q, position[q])
                      /\ kpc'[q] = "send" => Passed(q, position[q] - 1)
                      /\ kpc'[q] \in {"send", "mark"} => position[q] >= 1
                      /\ session = "none" => kpc'[q] = "left"
    BY <1>1 DEF OffsetInv, Passed, Handed
  <2>1. CASE q = p BY <1>1, <1>2, <2>1 DEF OffsetInv
  <2>2. CASE q # p BY <1>2, <2>2 DEF OffsetInv
  <2>3. QED BY <2>1, <2>2
<1>5. OrderInv'
  <2> SUFFICES ASSUME faults = 0 PROVE OrderInv' BY <1>1 DEF OrderInv
  <2>1. \A q \in Partitions \ {p} : Newer(q)' = Newer(q) /\ LastQueued(q)' = LastQueued(q)
    BY <1>1, <1>2 DEF Newer, LastQueued
  <2>2. session # "none" /\ Newer(p) <= position[p] BY <1>1 DEF OffsetInv, OrderInv
  <2>3. Newer(p)' = position[p] /\ LastQueued(p)' = position[p] /\ LastQueued(p) = position[p]
    <3>1. position[p] \in Nat /\ committed[p] \in Int /\ marked[p] \in Int
      BY DEF TypeOK, Offset, NoOffset
    <3>2. committed[p] <= position[p] BY <2>2, <3>1 DEF Newer
    <3>3. Newer(p)' = IF position[p] > committed[p] THEN position[p] ELSE committed[p]
      BY <1>1, <1>2 DEF Newer
    <3>4. Newer(p)' = position[p] BY <3>1, <3>2, <3>3
    <3>5. QED BY <1>1, <1>2, <3>4 DEF LastQueued
  <2>4. ASSUME NEW q \in Partitions
        PROVE  /\ Newer(q)' <= IF kpc'[q] = "send" THEN position[q] - 1 ELSE position[q]
               /\ \A i \in 1 .. Len(queued) : queued[i][1] = q => queued[i][2] <= LastQueued(q)'
    <3>1. CASE q = p BY <1>2, <2>3, <3>1 DEF OrderInv, TypeOK
    <3>2. CASE q # p BY <1>2, <2>1, <2>2, <3>2 DEF OrderInv
    <3>3. QED BY <3>1, <3>2
  <2>5. OnceAndInOrder' BY <1>1 DEF OrderInv, OnceAndInOrder
  <2>6. QED BY <1>1, <2>2, <2>4, <2>5 DEF OrderInv
<1>6. TorchInv' /\ TriedInv' /\ CreatedInv' BY <1>1, TorchKept, TriedKept, CreatedKept
<1>7. ServerInv' BY <1>1 DEF ServerInv
<1>8. QED BY <1>3, <1>4, <1>5, <1>6, <1>7

LEMMA LeaveClaimStep ==
  ASSUME IInv, NEW p \in Partitions, LeaveClaim(p)
  PROVE  IInv'
<1> USE DEF IInv, http, broker, server, process, history
<1>1. /\ kpc[p] = "receive" /\ session = "ending"
      /\ kpc' = [kpc EXCEPT ![p] = "left"]
      /\ UNCHANGED <<http, createdChan, torchChan, broker, session, position, marked, server,
                     process, history>>
  BY DEF LeaveClaim
<1>2. kpc'[p] = "left" /\ \A q \in Partitions \ {p} : kpc'[q] = kpc[q] BY <1>1 DEF TypeOK
<1>3. TypeOK' BY <1>1 DEF TypeOK
<1>4. OffsetInv' BY <1>1, <1>2 DEF OffsetInv, Passed, Handed
<1>5. OrderInv'
  <2>1. \A q \in Partitions : Newer(q)' = Newer(q) /\ LastQueued(q)' = LastQueued(q)
    BY <1>1, <1>2 DEF Newer, LastQueued
  <2>2. OrderInv => OnceAndInOrder' \/ faults # 0 BY <1>1 DEF OrderInv, OnceAndInOrder
  <2>3. QED BY <1>1, <1>2, <2>1, <2>2 DEF OrderInv
<1>6. TorchInv' /\ TriedInv' /\ CreatedInv' BY <1>1, TorchKept, TriedKept, CreatedKept
<1>7. ServerInv' BY <1>1 DEF ServerInv
<1>8. QED BY <1>3, <1>4, <1>5, <1>6, <1>7

\* What is committed was marked.
LEMMA AutoCommitStep ==
  ASSUME IInv, NEW p \in Partitions, AutoCommit(p)
  PROVE  IInv'
<1> USE DEF IInv, http, consumer, server, process, history
<1>1. /\ session # "none" /\ marked[p] > committed[p]
      /\ committed' = [committed EXCEPT ![p] = marked[p]]
      /\ UNCHANGED <<http, createdChan, torchChan, published, consumer, server, process, history>>
  BY DEF AutoCommit
<1>2. committed'[p] = marked[p] /\ \A q \in Partitions \ {p} : committed'[q] = committed[q]
  BY <1>1 DEF TypeOK
<1>3. TypeOK' BY <1>1 DEF TypeOK
<1>4. OffsetInv'
  <2> SUFFICES ASSUME NEW q \in Partitions
               PROVE  committed'[q] <= published[q] /\ Passed(q, committed'[q])
    BY <1>1 DEF OffsetInv, Passed, Handed
  <2>1. CASE q = p BY <1>2, <2>1 DEF OffsetInv
  <2>2. CASE q # p BY <1>2, <2>2 DEF OffsetInv
  <2>3. QED BY <2>1, <2>2
<1>5. OrderInv'
  <2>1. Newer(p)' = marked[p] /\ Newer(p) = marked[p]
    BY <1>1, <1>2 DEF Newer, TypeOK, Offset, NoOffset
  <2>2. \A q \in Partitions : Newer(q)' = Newer(q) BY <1>1, <1>2, <2>1 DEF Newer
  <2>3. \A q \in Partitions : LastQueued(q)' = LastQueued(q) BY <1>1, <2>2 DEF LastQueued
  <2>4. OrderInv => OnceAndInOrder' \/ faults # 0 BY <1>1 DEF OrderInv, OnceAndInOrder
  <2>5. QED BY <1>1, <2>2, <2>3, <2>4 DEF OrderInv
<1>6. TorchInv' /\ TriedInv' /\ CreatedInv' BY <1>1, TorchKept, TriedKept, CreatedKept
<1>7. ServerInv' BY <1>1 DEF ServerInv
<1>8. QED BY <1>3, <1>4, <1>5, <1>6, <1>7

\* A commit that fails is a fault; otherwise no mark is left uncommitted.
LEMMA CloseSessionStep ==
  ASSUME IInv, CloseSession
  PROVE  IInv'
<1> USE DEF IInv, http, server, history
<1>1. /\ session = "ending" /\ session' = "none"
      /\ \A p \in Partitions : kpc[p] = "left"
      /\ \/ committed' = [p \in Partitions |-> Newer(p)] /\ UNCHANGED faults
         \/ UNCHANGED committed /\ faults < MaxFaults /\ faults' = faults + 1
      /\ UNCHANGED <<http, createdChan, torchChan, published, kpc, position, marked, server,
                     up, cancelled, history>>
  BY DEF CloseSession
<1>2. \A p \in Partitions : committed'[p] = Newer(p) \/ committed'[p] = committed[p]
  BY <1>1
<1>3. faults' = 0 => faults = 0 /\ \A p \in Partitions : committed'[p] = Newer(p)
  BY <1>1 DEF TypeOK
<1>4. TypeOK'
  <2>1. \A p \in Partitions : Newer(p) \in Offset BY DEF TypeOK, Newer
  <2>2. committed' \in [Partitions -> Offset] BY <1>1, <2>1 DEF TypeOK
  <2>3. faults' \in 0 .. MaxFaults BY <1>1, BoundAssumption DEF TypeOK
  <2>4. QED BY <1>1, <2>2, <2>3 DEF TypeOK
<1>5. OffsetInv'
  <2> SUFFICES ASSUME NEW q \in Partitions
               PROVE  committed'[q] <= published[q] /\ Passed(q, committed'[q])
    BY <1>1 DEF OffsetInv, Passed, Handed
  <2>1. committed'[q] = marked[q] \/ committed'[q] = committed[q] BY <1>2 DEF Newer
  <2>2. QED BY <2>1 DEF OffsetInv
<1>6. OrderInv'
  <2> SUFFICES ASSUME faults' = 0, faults = 0 PROVE OrderInv' BY <1>3 DEF OrderInv
  <2>1. \A p \in Partitions : Newer(p)' = Newer(p) /\ marked[p] <= committed'[p]
    <3> SUFFICES ASSUME NEW p \in Partitions
                 PROVE  Newer(p)' = Newer(p) /\ marked[p] <= committed'[p]
      OBVIOUS
    <3>1. committed[p] \in Int /\ marked[p] \in Int BY DEF TypeOK, Offset, NoOffset
    <3>2. committed'[p] = IF marked[p] > committed[p] THEN marked[p] ELSE committed[p]
      BY <1>3 DEF Newer
    <3>3. marked' = marked BY <1>1
    <3>4. QED BY <3>1, <3>2, <3>3 DEF Newer
  <2>2. \A p \in Partitions : LastQueued(p)' = LastQueued(p) BY <1>1, <2>1 DEF LastQueued
  <2>3. OnceAndInOrder' BY <1>1 DEF OrderInv, OnceAndInOrder
  <2>4. QED BY <1>1, <2>1, <2>2, <2>3 DEF OrderInv
<1>7. TorchInv' BY <1>1, <1>3 DEF TorchInv, QueuedIsAccountedFor, InFlight, Distinct
<1>8. CreatedInv' BY <1>1, <1>3 DEF CreatedInv, CreatedIsAccountedFor, Distinct
<1>9. TriedInv' /\ ServerInv' BY <1>1, TriedKept DEF ServerInv
<1>10. QED BY <1>4, <1>5, <1>6, <1>7, <1>8, <1>9

-----------------------------------------------------------------------------
(* The webhook server *)

LEMMA TakeCreatedStep ==
  ASSUME IInv, TakeCreated
  PROVE  IInv'
<1> USE DEF IInv, http, broker, consumer, process, history
<1>0. PICK c : c = Head(createdChan) OBVIOUS
<1>1. /\ wpc = "select" /\ createdChan # <<>>
      /\ greeting' = {c} /\ createdChan' = Tail(createdChan) /\ wpc' = "lookup"
      /\ UNCHANGED <<http, torchChan, broker, consumer, signal, todo, process, history>>
  BY <1>0 DEF TakeCreated
<1>2. /\ c \in Creators /\ createdChan' \in Seq(Creators) /\ Len(createdChan') <= Len(createdChan)
      /\ ToSet(createdChan) = {c} \cup ToSet(createdChan')
      /\ Distinct(createdChan) => Distinct(createdChan') /\ c \notin ToSet(createdChan')
  BY <1>0, <1>1, Receiving DEF TypeOK
<1>3. TypeOK'
  <2>1. Len(createdChan') <= CreatedCap
    BY <1>2, LenProperties, CapacityAssumption DEF TypeOK
  <2>2. QED BY <1>1, <1>2, <2>1 DEF TypeOK
<1>4. OffsetInv' /\ OrderInv' /\ TorchInv' BY <1>1, OffsetKept, OrderKept, TorchKept
<1>5. ServerInv' /\ TriedInv' BY <1>1 DEF ServerInv, TriedInv, EveryWebhookTried
<1>6. CreatedInv'
  <2>1. greeting = {} BY <1>1 DEF ServerInv
  <2>2. Distinct(createdChan)' /\ c \notin ToSet(createdChan') BY <1>2 DEF CreatedInv, Distinct
  <2>3. CreatedIsAccountedFor' BY <1>1, <1>2, <2>1, <2>2 DEF CreatedInv, CreatedIsAccountedFor
  <2>4. QED BY <2>2, <2>3 DEF CreatedInv
<1>7. QED BY <1>3, <1>4, <1>5, <1>6

LEMMA LookupStep ==
  ASSUME IInv, Lookup
  PROVE  IInv'
<1> USE DEF IInv, http, broker, consumer, process
<1>1. /\ wpc = "lookup"
      /\ \/ wpc' = "greet" /\ UNCHANGED <<greeting, unmet>>
         \/ wpc' = "select" /\ greeting' = {} /\ unmet' = unmet \cup greeting
      /\ UNCHANGED <<http, createdChan, torchChan, broker, consumer, signal, todo, process,
                     queued, handled, dropped, cut, skipped, tried, greeted>>
  BY DEF Lookup
<1>2. TypeOK' BY <1>1 DEF TypeOK
<1>3. OffsetInv' /\ OrderInv' /\ TorchInv' BY <1>1, OffsetKept, OrderKept, TorchKept
<1>4. ServerInv' /\ TriedInv' BY <1>1 DEF ServerInv, TriedInv, EveryWebhookTried
<1>5. CreatedInv'
  <2>1. greeting' \cup unmet' = greeting \cup unmet BY <1>1
  <2>2. CreatedIsAccountedFor' BY <1>1, <2>1 DEF CreatedInv, CreatedIsAccountedFor
  <2>3. QED BY <1>1, <2>2 DEF CreatedInv, Distinct
<1>6. QED BY <1>2, <1>3, <1>4, <1>5

LEMMA GreetStep ==
  ASSUME IInv, Greet
  PROVE  IInv'
<1> USE DEF IInv, http, broker, consumer, process
<1>1. /\ wpc = "greet" /\ wpc' = "select"
      /\ greeted' = greeted \cup greeting /\ greeting' = {}
      /\ UNCHANGED <<http, createdChan, torchChan, broker, consumer, signal, todo, process,
                     queued, handled, dropped, cut, skipped, tried, unmet>>
  BY DEF Greet
<1>2. TypeOK' BY <1>1 DEF TypeOK
<1>3. OffsetInv' /\ OrderInv' /\ TorchInv' BY <1>1, OffsetKept, OrderKept, TorchKept
<1>4. ServerInv' /\ TriedInv' BY <1>1 DEF ServerInv, TriedInv, EveryWebhookTried
<1>5. CreatedInv'
  <2>1. CreatedIsAccountedFor' BY <1>1 DEF CreatedInv, CreatedIsAccountedFor
  <2>2. QED BY <1>1, <2>1 DEF CreatedInv, Distinct
<1>6. QED BY <1>2, <1>3, <1>4, <1>5

LEMMA TakeTorchStep ==
  ASSUME IInv, TakeTorch
  PROVE  IInv'
<1> USE DEF IInv, http, broker, consumer, process, history
<1>0. PICK s : s = Head(torchChan) OBVIOUS
<1>1. /\ wpc = "select" /\ torchChan # <<>>
      /\ signal' = {s} /\ torchChan' = Tail(torchChan) /\ wpc' = "list"
      /\ UNCHANGED <<http, createdChan, broker, consumer, greeting, todo, process, history>>
  BY <1>0 DEF TakeTorch
<1>2. /\ s \in Signals /\ torchChan' \in Seq(Signals) /\ Len(torchChan') <= Len(torchChan)
      /\ ToSet(torchChan) = {s} \cup ToSet(torchChan')
      /\ Distinct(torchChan) => Distinct(torchChan') /\ s \notin ToSet(torchChan')
  BY <1>0, <1>1, Receiving DEF TypeOK
<1>3. TypeOK'
  <2>1. Len(torchChan') <= TorchCap
    BY <1>2, LenProperties, CapacityAssumption DEF TypeOK
  <2>2. QED BY <1>1, <1>2, <2>1 DEF TypeOK
<1>4. OffsetInv' /\ OrderInv' /\ CreatedInv' BY <1>1, OffsetKept, OrderKept, CreatedKept
<1>5. ServerInv' /\ TriedInv' BY <1>1 DEF ServerInv, TriedInv, EveryWebhookTried
<1>6. TorchInv'
  <2> SUFFICES ASSUME faults = 0 PROVE Distinct(torchChan)' /\ QueuedIsAccountedFor'
    BY <1>1 DEF TorchInv
  <2>1. Distinct(torchChan) /\ QueuedIsAccountedFor BY DEF TorchInv
  <2>2. Distinct(torchChan)' /\ s \notin ToSet(torchChan') BY <1>2, <2>1 DEF Distinct
  <2>3. signal = {} BY <1>1 DEF ServerInv
  <2>4. InFlight' = InFlight BY <1>1, <1>2, <2>3 DEF InFlight
  <2>5. QED BY <1>1, <2>1, <2>2, <2>4 DEF QueuedIsAccountedFor
<1>7. QED BY <1>3, <1>4, <1>5, <1>6

\* The list has every webhook there is, or it broke off and the signal is cut.
LEMMA ListStep ==
  ASSUME IInv, List
  PROVE  IInv'
<1> USE DEF IInv, http, broker, consumer, process
<1>1. /\ wpc = "list"
      /\ UNCHANGED <<http, createdChan, torchChan, broker, consumer, greeting, process, queued,
                     handled, skipped, tried, greeted, unmet>>
      /\ \/ todo' = rows /\ wpc' = "post" /\ UNCHANGED <<signal, dropped, cut>>
         \/ /\ todo' \subseteq rows /\ cut' = cut \cup signal
            /\ wpc' = "post" /\ UNCHANGED <<signal, dropped>>
         \/ /\ dropped' = dropped \cup signal /\ signal' = {}
            /\ wpc' = "select" /\ UNCHANGED <<todo, cut>>
  BY DEF List
<1>2. TypeOK' BY <1>1 DEF TypeOK
<1>3. OffsetInv' /\ OrderInv' /\ CreatedInv' BY <1>1, OffsetKept, OrderKept, CreatedKept
<1>4. ServerInv' BY <1>1 DEF ServerInv
<1>5. TriedInv'
  <2>1. cut \subseteq cut' BY <1>1
  <2>2. EveryWebhookTried' BY <1>1, <2>1 DEF TriedInv, EveryWebhookTried
  <2>3. QED BY <1>1, <2>2 DEF TriedInv
<1>6. TorchInv'
  <2>1. signal' \cup dropped' = signal \cup dropped /\ (signal' = signal \/ signal' = {})
    BY <1>1
  <2>2. QED BY <1>1, <2>1 DEF TorchInv, QueuedIsAccountedFor, InFlight, Distinct
<1>7. QED BY <1>2, <1>3, <1>4, <1>5, <1>6

LEMMA PostStep ==
  ASSUME IInv, Post
  PROVE  IInv'
<1> USE DEF IInv, http, broker, consumer, process
<1>1. PICK w \in todo :
        /\ todo' = todo \ {w}
        /\ tried' = tried \cup ({w} \X signal)
  BY DEF Post
<1>2. /\ wpc = "post"
      /\ UNCHANGED <<http, createdChan, torchChan, broker, consumer, wpc, greeting, signal,
                     process, queued, handled, dropped, cut, skipped, greeted, unmet>>
  BY DEF Post
<1>3. TypeOK' BY <1>1, <1>2 DEF TypeOK
<1>4. OffsetInv' /\ OrderInv' /\ TorchInv' /\ CreatedInv'
  BY <1>2, OffsetKept, OrderKept, TorchKept, CreatedKept
<1>5. ServerInv' BY <1>2 DEF ServerInv
<1>6. TriedInv' BY <1>1, <1>2 DEF TriedInv, EveryWebhookTried
<1>7. QED BY <1>3, <1>4, <1>5, <1>6

LEMMA PostedAllStep ==
  ASSUME IInv, PostedAll
  PROVE  IInv'
<1> USE DEF IInv, http, broker, consumer, process
<1>1. /\ wpc = "post" /\ todo = {} /\ wpc' = "select"
      /\ handled' = handled \cup signal /\ signal' = {}
      /\ UNCHANGED <<http, createdChan, torchChan, broker, consumer, greeting, todo, process,
                     queued, dropped, cut, skipped, tried, greeted, unmet>>
  BY DEF PostedAll
<1>2. TypeOK' BY <1>1 DEF TypeOK
<1>3. OffsetInv' /\ OrderInv' /\ CreatedInv' BY <1>1, OffsetKept, OrderKept, CreatedKept
<1>4. ServerInv' BY <1>1 DEF ServerInv
<1>5. TriedInv' BY <1>1 DEF TriedInv, EveryWebhookTried
<1>6. TorchInv' BY <1>1 DEF TorchInv, QueuedIsAccountedFor, InFlight, Distinct
<1>7. QED BY <1>2, <1>3, <1>4, <1>5, <1>6

LEMMA StopServerStep ==
  ASSUME IInv, StopServer
  PROVE  IInv'
<1> USE DEF IInv, StopServer, http, broker, consumer, process, history
<1>1. TypeOK' BY DEF TypeOK
<1>2. OffsetInv' /\ OrderInv' /\ TorchInv' /\ CreatedInv'
  BY OffsetKept, OrderKept, TorchKept, CreatedKept
<1>3. ServerInv' /\ TriedInv' BY DEF ServerInv, TriedInv, EveryWebhookTried
<1>4. QED BY <1>1, <1>2, <1>3

-----------------------------------------------------------------------------
(* The process *)

LEMMA CancelStep ==
  ASSUME IInv, Cancel
  PROVE  IInv'
<1> USE DEF IInv, http, broker, server, history
<1>1. /\ cancelled' = TRUE
      /\ session' = IF session = "open" THEN "ending" ELSE session
      /\ UNCHANGED <<http, createdChan, torchChan, broker, kpc, position, marked, server, up,
                     faults, history>>
  BY DEF Cancel
<1>2. session' = "none" <=> session = "none" BY <1>1
<1>3. TypeOK' BY <1>1 DEF TypeOK
<1>4. OffsetInv' BY <1>1, <1>2 DEF OffsetInv, Passed, Handed
<1>5. OrderInv' BY <1>1, <1>2 DEF OrderInv, OnceAndInOrder, LastQueued, Newer
<1>6. TorchInv' /\ TriedInv' /\ CreatedInv' BY <1>1, TorchKept, TriedKept, CreatedKept
<1>7. ServerInv' BY <1>1 DEF ServerInv
<1>8. QED BY <1>3, <1>4, <1>5, <1>6, <1>7

\* What is lost with the memory is lost to a fault.
LEMMA DieStep ==
  ASSUME IInv, Die
  PROVE  IInv'
<1> USE DEF IInv, broker, history
<1>1. /\ up' = FALSE /\ cancelled' = FALSE /\ faults < MaxFaults /\ faults' = faults + 1
      /\ createdChan' = <<>> /\ torchChan' = <<>>
      /\ cpc' = [c \in Creators |-> IF cpc[c] = "send" THEN "gone" ELSE cpc[c]]
      /\ session' = "none"
      /\ kpc' = [p \in Partitions |-> "left"]
      /\ wpc' = "stopped" /\ greeting' = {} /\ signal' = {} /\ todo' = {}
      /\ UNCHANGED <<rows, broker, position, marked, history>>
  BY DEF Die
<1>2. faults' # 0 /\ faults' \in 0 .. MaxFaults BY <1>1, BoundAssumption DEF TypeOK
<1>3. TypeOK'
  <2>1. /\ createdChan' \in Seq(Creators) /\ Len(createdChan') <= CreatedCap
        /\ torchChan' \in Seq(Signals) /\ Len(torchChan') <= TorchCap
    BY <1>1, EmptyChannel, CapacityAssumption
  <2>2. QED BY <1>1, <1>2, <2>1 DEF TypeOK
<1>4. OffsetInv' BY <1>1 DEF OffsetInv, Passed, Handed
<1>5. OrderInv' /\ TorchInv' BY <1>2 DEF OrderInv, TorchInv
<1>6. ServerInv' /\ TriedInv' BY <1>1 DEF ServerInv, TriedInv, EveryWebhookTried
<1>7. CreatedInv'
  <2>1. {c \in Creators : cpc'[c] = "201"} = {c \in Creators : cpc[c] = "201"} BY <1>1
  <2>2. ToSet(createdChan') = {} /\ Distinct(createdChan') BY <1>1, EmptyChannel
  <2>3. Distinct(createdChan)' BY <2>2 DEF Distinct
  <2>4. CreatedIsAccountedFor' BY <1>1, <1>2, <2>1, <2>2 DEF CreatedInv, CreatedIsAccountedFor
  <2>5. QED BY <2>3, <2>4 DEF CreatedInv
<1>8. QED BY <1>3, <1>4, <1>5, <1>6, <1>7

LEMMA RestartStep ==
  ASSUME IInv, Restart
  PROVE  IInv'
<1> USE DEF IInv, Restart, http, broker, consumer, history
<1>1. TypeOK' BY DEF TypeOK
<1>2. OffsetInv' /\ OrderInv' /\ TorchInv' /\ CreatedInv'
  BY OffsetKept, OrderKept, TorchKept, CreatedKept
<1>3. ServerInv' /\ TriedInv' BY DEF ServerInv, TriedInv, EveryWebhookTried
<1>4. QED BY <1>1, <1>2, <1>3

LEMMA NextIInv == IInv /\ [Next]_vars => IInv'
<1> SUFFICES ASSUME IInv, [Next]_vars PROVE IInv' OBVIOUS
<1>1. ASSUME NEW c \in Creators, CreateWebhook(c) \/ SendCreated(c) PROVE IInv'
  BY <1>1, CreateWebhookStep, SendCreatedStep
<1>2. ASSUME NEW w \in Webhooks, DeleteWebhook(w) PROVE IInv' BY <1>2, DeleteWebhookStep
<1>3. ASSUME NEW p \in Partitions, Publish(p) \/ Claim(p) \/ AutoCommit(p) PROVE IInv'
  BY <1>3, PublishStep, AutoCommitStep, ReceiveStep, EnqueueStep, MarkMessageStep, LeaveClaimStep
     DEF Claim
<1>4. CASE OpenSession \/ LeaveSession \/ CloseSession
  BY <1>4, OpenSessionStep, LeaveSessionStep, CloseSessionStep
<1>5. CASE Serve
  BY <1>5, TakeCreatedStep, LookupStep, GreetStep, TakeTorchStep, ListStep, PostStep,
     PostedAllStep, StopServerStep DEF Serve
<1>6. CASE Cancel \/ Die \/ Restart BY <1>6, CancelStep, DieStep, RestartStep
<1>7. CASE UNCHANGED vars
  <2> USE <1>7 DEF vars, http, broker, consumer, server, process, history, IInv
  <2>1. TypeOK' BY DEF TypeOK
  <2>2. OffsetInv' /\ OrderInv' /\ TorchInv' /\ TriedInv' /\ CreatedInv'
    BY OffsetKept, OrderKept, TorchKept, TriedKept, CreatedKept
  <2>3. ServerInv' BY DEF ServerInv
  <2>4. QED BY <2>1, <2>2, <2>3
<1>8. QED BY <1>1, <1>2, <1>3, <1>4, <1>5, <1>6, <1>7 DEF Next

-----------------------------------------------------------------------------

\* The inductive invariant holds in every state.
THEOREM Invariance == Spec => []IInv
BY InitIInv, NextIInv, PTL DEF Spec

\* The variables keep their types: neither channel is ever over its capacity,
\* and only signals that were published are in flight.
THEOREM TypeCorrect == Spec => []TypeOK
<1>1. IInv => TypeOK BY DEF IInv
<1>2. QED BY <1>1, Invariance, PTL

\* The consumer commits no offset beyond a signal it did not hand on.
THEOREM NothingPassedOver == Spec => []CommitPassesNothing
<1>1. ASSUME IInv, NEW s \in Signals, s[2] <= committed[s[1]]
      PROVE  s \in ToSet(queued) \cup Undecodable \cup skipped
  <2>0. PICK p \in Partitions : s \in {p} \X (1 .. MaxOffset[p]) BY DEF Signals
  <2>1. PICK m \in 1 .. MaxOffset[p] : s = <<p, m>> BY <2>0
  <2>2. committed[p] \in Int /\ MaxOffset[p] \in Nat
    BY <1>1, BoundAssumption DEF IInv, TypeOK, Offset, NoOffset
  <2>3. m \in 1 .. committed[p] BY <1>1, <2>1, <2>2
  <2>4. Handed(p, m) BY <1>1, <2>3 DEF IInv, OffsetInv, Passed
  <2>5. QED BY <2>1, <2>4 DEF Handed
<1>2. IInv => CommitPassesNothing BY <1>1 DEF CommitPassesNothing
<1>3. QED BY <1>2, Invariance, PTL

\* Rebalances alone neither repeat a signal nor disorder a partition.
THEOREM HandedOnOnce == Spec => []OnceAndInOrder
<1>1. IInv => OnceAndInOrder BY DEF IInv, OrderInv, OnceAndInOrder
<1>2. QED BY <1>1, Invariance, PTL

\* Until a process dies, a signal handed on is in exactly one place.
THEOREM SignalsAccountedFor == Spec => []QueuedIsAccountedFor
<1>1. IInv => QueuedIsAccountedFor BY DEF IInv, TorchInv, QueuedIsAccountedFor
<1>2. QED BY <1>1, Invariance, PTL

\* A webhook that was there all along was tried for every signal handled.
THEOREM AllWebhooksTried == Spec => []EveryWebhookTried
<1>1. IInv => EveryWebhookTried BY DEF IInv, TriedInv
<1>2. QED BY <1>1, Invariance, PTL

\* A created webhook is in one place, from its 201 to its greeting.
THEOREM CreatedAccountedFor == Spec => []CreatedIsAccountedFor
<1>1. IInv => CreatedIsAccountedFor BY DEF IInv, CreatedInv
<1>2. QED BY <1>1, Invariance, PTL
=============================================================================
