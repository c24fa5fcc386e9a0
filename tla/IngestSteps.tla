------------------------------ MODULE IngestSteps ------------------------------
(***************************************************************************)
(* What each operation of Ingest does to the order and to the accounts,    *)
(* whatever takes the events out of the queue.                             *)
(*                                                                         *)
(* P is the set of events that lie behind the queue: what the consumer of  *)
(* IngestSystem has popped, and in Adapter what the Kafka side holds.  The *)
(* order and the accounts need each other: order across a hand-over needs  *)
(* that all that is ahead in the pipeline is older, for each pair of the   *)
(* five places an event can be in; that nothing is settled twice needs     *)
(* that no event is in two places, which follows from the order.           *)
(***************************************************************************)
EXTENDS Ingest, SequenceFacts

(* What a goroutine has in hand.                                           *)
LEMMA InHand ==
  ASSUME NEW s \in Seq(Events), Len(s) <= 1
  PROVE  /\ Increasing(s)
         /\ s # <<>> => Head(s) \in Events /\ Range(s) = {Head(s)}
<1>1. s # <<>> => Len(s) \in Nat \ {0}
  BY EmptySeq
<1>4. ASSUME s # <<>> PROVE Len(s) = 1
  <2> DEFINE n == Len(s)
  <2>1. n \in Nat \ {0} /\ n <= 1
    BY <1>1, <1>4
  <2> HIDE DEF n
  <2>2. n = 1
    BY <2>1
  <2> QED
    BY <2>2 DEF n
<1>2. s # <<>> => Head(s) = s[1] /\ Head(s) \in Events
  BY HeadTailProperties
<1>3. Range(s) = {s[i] : i \in 1..Len(s)}
  BY RangeEquality
<1> QED
  BY <1>2, <1>3, <1>4 DEF Increasing

LEMMA Single ==
  ASSUME NEW e \in Events
  PROVE  /\ <<e>> \in Seq(Events) /\ Len(<<e>>) = 1
         /\ Range(<<e>>) = {e}
         /\ Increasing(<<e>>)
<1> PICK s : s = <<e>>
  OBVIOUS
<1>1. s \in Seq(Events) /\ Len(s) = 1 /\ Len(s) <= 1 /\ s # <<>> /\ Head(s) = e
  OBVIOUS
<1>2. Range(s) = {e} /\ Increasing(s)
  BY <1>1, InHand
<1> QED
  BY <1>1, <1>2

LEMMA Nothing ==
  /\ <<>> \in Seq(Events) /\ Len(<<>>) = 0
  /\ Range(<<>>) = {}
  /\ Increasing(<<>>)
<1> PICK s : s = <<>>
  OBVIOUS
<1>1. s \in Seq(Events) /\ Len(s) = 0 /\ Len(s) <= 1
  OBVIOUS
<1>2. Range(s) = {} /\ Increasing(s)
  BY <1>1, InHand, EmptyRange
<1> QED
  BY <1>1, <1>2

LEMMA Joined ==
  ASSUME NEW s \in Seq(Events), NEW t \in Seq(Events),
         Increasing(s), Increasing(t), Below(Range(s), Range(t))
  PROVE  /\ s \o t \in Seq(Events)
         /\ Increasing(s \o t)
         /\ Range(s \o t) = Range(s) \cup Range(t)
BY ConcatProperties, ConcatOrdered, RangeConcatenation

-----------------------------------------------------------------------------
(* The places of an event, from the oldest to the newest.                  *)
Places(P) ==
  P \cup Range(queue) \cup Range(pushing) \cup Range(streamCh) \cup Range(offered)

Chain(P, Q, U, S, O) ==
  /\ Below(P, Q) /\ Below(P, U) /\ Below(P, S) /\ Below(P, O)
  /\ Below(Q, U) /\ Below(Q, S) /\ Below(Q, O)
  /\ Below(U, S) /\ Below(U, O)
  /\ Below(S, O)

Order(P) ==
  /\ Increasing(queue) /\ Increasing(streamCh)
  /\ Chain(P, Range(queue), Range(pushing), Range(streamCh), Range(offered))

(* Recv returns the events by number.                                      *)
Arrived == \A d \in received, c \in Events : c < d => c \in received

Account(P) ==
  \A e \in Events :
    /\ e \in received => (e \in Places(P) <=> ~Settled(e))
    /\ e \notin received => e \notin Places(P) /\ ~Settled(e)
    /\ Len(ledger[e]) <= 1

IngestInv(P) == IngestTypeOK /\ P \subseteq Events /\ Order(P) /\ Arrived /\ Account(P)

(* The two kinds of steps: events change places, or one leaves them.       *)
HandsOver(P) == Places(P)' = Places(P) /\ ledger' = ledger

Leaves(P, h, f) ==
  /\ h \in Places(P) /\ ledger[h] = <<>>
  /\ Places(P)' = Places(P) \ {h}
  /\ ledger' = [ledger EXCEPT ![h] = <<f>>]

SettlesOne(P, F) == \E h \in Events, f \in F : Leaves(P, h, f)

(* What reader and processEvents may do with an event they give up.        *)
IngestFates ==
  {"streamFull", "queueFull", "sampledOut"}
    \cup (IF ctxDone THEN {"streamCancelled", "pushCancelled"} ELSE {})

LEMMA Facts ==
  ASSUME IngestTypeOK
  PROVE  /\ queue \in Seq(Events) /\ pushing \in Seq(Events)
         /\ streamCh \in Seq(Events) /\ offered \in Seq(Events)
         /\ Len(pushing) <= 1 /\ Len(offered) <= 1
         /\ Range(queue) \subseteq Events /\ Range(pushing) \subseteq Events
         /\ Range(streamCh) \subseteq Events /\ Range(offered) \subseteq Events
BY RangeOfSeq DEF IngestTypeOK

LEMMA Unsettled ==
  ASSUME NEW P, IngestInv(P), NEW h \in Events, h \in Places(P)
  PROVE  h \in received /\ ledger[h] = <<>>
BY DEF IngestInv, Account, Settled

LEMMA DisposeUnsettled ==
  ASSUME LedgerTypeOK, NEW h \in Events, NEW f \in Fates, Dispose(h, f), ledger[h] = <<>>
  PROVE  /\ ledger' = [ledger EXCEPT ![h] = <<f>>]
         /\ ledger' \in [Events -> Seq(Fates)]
         /\ ledger'[h] # <<>> /\ Len(ledger'[h]) = 1
         /\ \A e \in Events \ {h} : ledger'[e] = ledger[e]
<1> PICK l : l = <<f>>
  OBVIOUS
<1>1. l \in Seq(Fates) /\ Len(l) = 1 /\ l # <<>>
  OBVIOUS
<1>2. Append(<<>>, f) = l
  OBVIOUS
<1>3. ledger' = [ledger EXCEPT ![h] = l] /\ ledger \in [Events -> Seq(Fates)]
  BY <1>2 DEF Dispose, LedgerTypeOK
<1> QED
  BY <1>1, <1>3

(* After a step that settles h and takes it out of its place, all is still *)
(* accounted for; Q is what then lies behind the queue.                    *)
LEMMA AccountLeft ==
  ASSUME NEW P, IngestInv(P), NEW Q, NEW h \in Events, NEW f \in Fates, Dispose(h, f),
         h \in Places(P), Places(Q)' = Places(P) \ {h}, received' = received
  PROVE  /\ Account(Q)' /\ ledger' \in [Events -> Seq(Fates)]
         /\ ledger' = [ledger EXCEPT ![h] = <<f>>] /\ ledger[h] = <<>>
<1>1. h \in received /\ ledger[h] = <<>>
  BY Unsettled
<1>2. /\ ledger' = [ledger EXCEPT ![h] = <<f>>]
      /\ ledger' \in [Events -> Seq(Fates)]
      /\ ledger'[h] # <<>> /\ Len(ledger'[h]) = 1
      /\ \A e \in Events \ {h} : ledger'[e] = ledger[e]
  BY <1>1, DisposeUnsettled DEF IngestInv, IngestTypeOK
<1>3. ASSUME NEW e \in Events
      PROVE  /\ e \in received' => (e \in Places(Q)' <=> ledger'[e] = <<>>)
             /\ e \notin received' => e \notin Places(Q)' /\ ledger'[e] = <<>>
             /\ Len(ledger'[e]) <= 1
  <2>1. CASE e = h
    BY <2>1, <1>1, <1>2
  <2>2. CASE e # h
    BY <2>2, <1>2 DEF IngestInv, Account, Settled
  <2> QED
    BY <2>1, <2>2
<1> QED
  BY <1>1, <1>2, <1>3 DEF Account, Settled

LEMMA LetGo ==
  ASSUME NEW P, IngestInv(P), NEW h \in Events, NEW f \in Fates, Dispose(h, f),
         h \in Places(P), Places(P)' = Places(P) \ {h}, received' = received
  PROVE  /\ Account(P)' /\ ledger' \in [Events -> Seq(Fates)]
         /\ SettlesOne(P, {f})
         /\ (f \in IngestFates => SettlesOne(P, IngestFates))
<1>1. /\ Account(P)' /\ ledger' \in [Events -> Seq(Fates)]
      /\ ledger' = [ledger EXCEPT ![h] = <<f>>] /\ ledger[h] = <<>>
  BY AccountLeft
<1>2. Leaves(P, h, f)
  BY <1>1 DEF Leaves
<1> QED
  BY <1>1, <1>2 DEF SettlesOne

(* A step that only hands events over changes nothing in the accounts.     *)
LEMMA HandedOver ==
  ASSUME NEW P, Account(P), NEW Q, ledger' = ledger, received' = received,
         Places(Q)' = Places(P)
  PROVE  Account(Q)'
BY DEF Account, Settled

-----------------------------------------------------------------------------
LEMMA RecvInv ==
  ASSUME NEW P, IngestInv(P), NEW e \in Events, Recv(e)
  PROVE  /\ IngestInv(P)' /\ Places(P)' = Places(P) \cup {e}
         /\ e \notin Places(P) /\ ledger[e] = <<>> /\ ledger' = ledger
<1> USE DEF IngestInv
<1>1. /\ offered = <<>> /\ offered' = <<e>> /\ e \notin received
      /\ received' = received \cup {e}
      /\ \A d \in Events : d < e => d \in received
      /\ UNCHANGED <<ledger, queue, pushing, streamCh>>
  BY DEF Recv, NextArrival, ledgerVars, processorVars
<1>2. IngestTypeOK'
  BY <1>1, Single DEF IngestTypeOK, LedgerTypeOK, Recv, ledgerVars, processorVars
<1>3. Range(offered) = {} /\ Range(offered') = {e}
  BY <1>1, Nothing, Single
<1>4. Places(P) \subseteq received /\ received \subseteq Events
  BY Facts DEF Account, Places, IngestTypeOK
<1>5. \A d \in received : d < e
  <2> SUFFICES ASSUME NEW d \in received PROVE d < e
    OBVIOUS
  <2>1. d \in Nat /\ e \in Nat /\ d # e /\ ~(e < d)
    BY <1>1, <1>4, EventsAssumption DEF Arrived
  <2> QED
    BY <2>1
<1>6. Order(P)'
  BY <1>1, <1>3, <1>4, <1>5 DEF Order, Chain, Below, Places
<1>7. Arrived'
  BY <1>1 DEF Arrived
<1>8. Places(P)' = Places(P) \cup {e}
  BY <1>1, <1>3 DEF Places
<1>9. Account(P)' /\ e \notin Places(P) /\ ledger[e] = <<>>
  BY <1>1, <1>8 DEF Account, Settled
<1> QED
  BY <1>1, <1>2, <1>8, <1>6, <1>7, <1>9

(* One lemma for each way in which an event changes hands or is let go.    *)
LEMMA OfferAcceptedInv ==
  ASSUME NEW P, IngestInv(P), OfferAccepted
  PROVE  IngestInv(P)' /\ HandsOver(P)
<1> USE DEF IngestInv
<1> DEFINE h == Head(offered)
<1>1. /\ offered # <<>>
      /\ offered' = <<>>
      /\ streamCh' = Append(streamCh, h)
      /\ UNCHANGED <<ledger, received, queue, pushing>>
  BY DEF OfferAccepted, ledgerVars, processorVars
<1>2. h \in Events /\ Range(offered) = {h} /\ Range(offered') = {}
  BY <1>1, Facts, InHand, Nothing
<1> HIDE DEF h
<1>3. /\ streamCh' \in Seq(Events) /\ Range(streamCh') = Range(streamCh) \cup {h}
      /\ Increasing(streamCh')
  <2>1. Increasing(streamCh) /\ Below(Range(streamCh), {h})
    BY <1>2 DEF Order, Chain, Below
  <2> QED
    BY <1>1, <1>2, <2>1, Facts, AppendToQueue, AppendOrdered
<1>4. Order(P)' /\ Arrived'
  BY <1>1, <1>2, <1>3 DEF Order, Chain, Below, Arrived
<1>5. Places(P)' = Places(P)
  BY <1>1, <1>2, <1>3 DEF Places
<1>6. Account(P)' /\ HandsOver(P)
  BY <1>1, <1>5, HandedOver DEF HandsOver
<1>7. IngestTypeOK'
  BY <1>1, <1>2, <1>3, Single, Nothing DEF IngestTypeOK, LedgerTypeOK,
    OfferAccepted, ledgerVars, processorVars
<1> QED
  BY <1>4, <1>6, <1>7

LEMMA TakeSampledInv ==
  ASSUME NEW P, IngestInv(P), TakeSampled
  PROVE  IngestInv(P)' /\ HandsOver(P)
<1> USE DEF IngestInv
<1> DEFINE h == Head(streamCh)
<1>1. /\ streamCh # <<>>
      /\ streamCh' = Tail(streamCh)
      /\ pushing = <<>> /\ pushing' = <<h>>
      /\ UNCHANGED <<ledger, received, queue, offered>>
  BY DEF TakeSampled, ledgerVars, readerVars
<1>2. /\ h \in Events /\ streamCh' \in Seq(Events)
      /\ Range(streamCh) = Range(streamCh') \cup {h}
      /\ Increasing(streamCh') /\ Below({h}, Range(streamCh'))
  BY <1>1, Facts, TakeFromQueue, TailOrdered DEF Order
<1> HIDE DEF h
<1>3. Range(pushing) = {} /\ Range(pushing') = {h}
  BY <1>1, <1>2, Single, Nothing
<1>4. Order(P)' /\ Arrived'
  BY <1>1, <1>2, <1>3 DEF Order, Chain, Below, Arrived
<1>5. Places(P)' = Places(P)
  BY <1>1, <1>2, <1>3 DEF Places
<1>6. Account(P)' /\ HandsOver(P)
  BY <1>1, <1>5, HandedOver DEF HandsOver
<1>7. IngestTypeOK'
  BY <1>1, <1>2, <1>3, Single, Nothing DEF IngestTypeOK, LedgerTypeOK,
    TakeSampled, ledgerVars, readerVars
<1> QED
  BY <1>4, <1>6, <1>7

LEMMA PushAcceptedInv ==
  ASSUME NEW P, IngestInv(P), PushAccepted
  PROVE  IngestInv(P)' /\ HandsOver(P)
<1> USE DEF IngestInv
<1> DEFINE h == Head(pushing)
<1>1. /\ pushing # <<>>
      /\ pushing' = <<>>
      /\ queue' = Append(queue, h)
      /\ UNCHANGED <<ledger, received, streamCh, offered>>
  BY DEF PushAccepted, ledgerVars, readerVars
<1>2. h \in Events /\ Range(pushing) = {h} /\ Range(pushing') = {}
  BY <1>1, Facts, InHand, Nothing
<1> HIDE DEF h
<1>3. /\ queue' \in Seq(Events) /\ Range(queue') = Range(queue) \cup {h}
      /\ Increasing(queue')
  <2>1. Increasing(queue) /\ Below(Range(queue), {h})
    BY <1>2 DEF Order, Chain, Below
  <2> QED
    BY <1>1, <1>2, <2>1, Facts, AppendToQueue, AppendOrdered
<1>4. Order(P)' /\ Arrived'
  BY <1>1, <1>2, <1>3 DEF Order, Chain, Below, Arrived
<1>5. Places(P)' = Places(P)
  BY <1>1, <1>2, <1>3 DEF Places
<1>6. Account(P)' /\ HandsOver(P)
  BY <1>1, <1>5, HandedOver DEF HandsOver
<1>7. IngestTypeOK'
  BY <1>1, <1>2, <1>3, Single, Nothing DEF IngestTypeOK, LedgerTypeOK,
    PushAccepted, ledgerVars, readerVars
<1> QED
  BY <1>4, <1>6, <1>7

LEMMA OfferDroppedInv ==
  ASSUME NEW P, IngestInv(P), OfferDropped
  PROVE  IngestInv(P)' /\ SettlesOne(P, IngestFates)
<1> USE DEF IngestInv
<1> DEFINE h == Head(offered)
<1>1. /\ offered # <<>>
      /\ offered' = <<>>
      /\ Dispose(h, "streamFull")
      /\ UNCHANGED <<received, queue, pushing, streamCh>>
  BY DEF OfferDropped, processorVars
<1>2. h \in Events /\ Range(offered) = {h} /\ Range(offered') = {}
  BY <1>1, Facts, InHand, Nothing
<1> HIDE DEF h
<1>3. Order(P)' /\ Arrived'
  BY <1>1, <1>2 DEF Order, Chain, Below, Arrived
<1>4. h \in Places(P) /\ Places(P)' = Places(P) \ {h}
  BY <1>1, <1>2, Facts, EventsAssumption DEF Places, Order, Chain, Below
<1>5. Account(P)' /\ ledger' \in [Events -> Seq(Fates)] /\ SettlesOne(P, IngestFates)
  <2>1. "streamFull" \in IngestFates /\ "streamFull" \in Fates
    BY DEF OfferDropped, IngestFates, Fates, CountedFates, SilentFates, SampledFates
  <2> QED
    BY <1>1, <1>2, <1>4, <2>1, LetGo
<1>6. IngestTypeOK'
  <2>1. /\ ctxDone' = ctxDone /\ dropIfFull' = dropIfFull
        /\ readerUp' \in {readerUp, FALSE} /\ processorUp' = processorUp
    BY DEF OfferDropped, readerVars, processorVars
  <2>2. offered' \in Seq(Events) /\ Len(offered') <= 1
    BY <1>1, Nothing
  <2>3. readerUp' \in BOOLEAN
    BY <2>1, Zenon DEF IngestTypeOK
  <2> QED
    BY <1>1, <1>5, <2>1, <2>2, <2>3 DEF IngestTypeOK, LedgerTypeOK
<1> QED
  BY <1>3, <1>5, <1>6

LEMMA OfferCancelledInv ==
  ASSUME NEW P, IngestInv(P), OfferCancelled
  PROVE  IngestInv(P)' /\ SettlesOne(P, IngestFates)
<1> USE DEF IngestInv
<1> DEFINE h == Head(offered)
<1>1. /\ offered # <<>>
      /\ offered' = <<>>
      /\ Dispose(h, "streamCancelled")
      /\ UNCHANGED <<received, queue, pushing, streamCh>>
  BY DEF OfferCancelled, processorVars
<1>2. h \in Events /\ Range(offered) = {h} /\ Range(offered') = {}
  BY <1>1, Facts, InHand, Nothing
<1> HIDE DEF h
<1>3. Order(P)' /\ Arrived'
  BY <1>1, <1>2 DEF Order, Chain, Below, Arrived
<1>4. h \in Places(P) /\ Places(P)' = Places(P) \ {h}
  BY <1>1, <1>2, Facts, EventsAssumption DEF Places, Order, Chain, Below
<1>5. Account(P)' /\ ledger' \in [Events -> Seq(Fates)] /\ SettlesOne(P, IngestFates)
  <2>1. "streamCancelled" \in IngestFates /\ "streamCancelled" \in Fates
    BY DEF OfferCancelled, IngestFates, Fates, CountedFates, SilentFates, SampledFates
  <2> QED
    BY <1>1, <1>2, <1>4, <2>1, LetGo
<1>6. IngestTypeOK'
  <2>1. /\ ctxDone' = ctxDone /\ dropIfFull' = dropIfFull
        /\ readerUp' \in {readerUp, FALSE} /\ processorUp' = processorUp
    BY DEF OfferCancelled, readerVars, processorVars
  <2>2. offered' \in Seq(Events) /\ Len(offered') <= 1
    BY <1>1, Nothing
  <2>3. readerUp' \in BOOLEAN
    BY <2>1, Zenon DEF IngestTypeOK
  <2> QED
    BY <1>1, <1>5, <2>1, <2>2, <2>3 DEF IngestTypeOK, LedgerTypeOK
<1> QED
  BY <1>3, <1>5, <1>6

LEMMA PushDroppedInv ==
  ASSUME NEW P, IngestInv(P), PushDropped
  PROVE  IngestInv(P)' /\ SettlesOne(P, IngestFates)
<1> USE DEF IngestInv
<1> DEFINE h == Head(pushing)
<1>1. /\ pushing # <<>>
      /\ pushing' = <<>>
      /\ Dispose(h, "queueFull")
      /\ UNCHANGED <<received, queue, streamCh, offered>>
  BY DEF PushDropped, readerVars
<1>2. h \in Events /\ Range(pushing) = {h} /\ Range(pushing') = {}
  BY <1>1, Facts, InHand, Nothing
<1> HIDE DEF h
<1>3. Order(P)' /\ Arrived'
  BY <1>1, <1>2 DEF Order, Chain, Below, Arrived
<1>4. h \in Places(P) /\ Places(P)' = Places(P) \ {h}
  BY <1>1, <1>2, Facts, EventsAssumption DEF Places, Order, Chain, Below
<1>5. Account(P)' /\ ledger' \in [Events -> Seq(Fates)] /\ SettlesOne(P, IngestFates)
  <2>1. "queueFull" \in IngestFates /\ "queueFull" \in Fates
    BY DEF PushDropped, IngestFates, Fates, CountedFates, SilentFates, SampledFates
  <2> QED
    BY <1>1, <1>2, <1>4, <2>1, LetGo
<1>6. IngestTypeOK'
  <2>1. /\ ctxDone' = ctxDone /\ dropIfFull' = dropIfFull
        /\ readerUp' = readerUp /\ processorUp' = processorUp
    BY DEF PushDropped, readerVars
  <2>2. pushing' \in Seq(Events) /\ Len(pushing') <= 1
    BY <1>1, Nothing
  <2> QED
    BY <1>1, <1>5, <2>1, <2>2 DEF IngestTypeOK, LedgerTypeOK
<1> QED
  BY <1>3, <1>5, <1>6

LEMMA PushCancelledInv ==
  ASSUME NEW P, IngestInv(P), PushCancelled
  PROVE  IngestInv(P)' /\ SettlesOne(P, IngestFates)
<1> USE DEF IngestInv
<1> DEFINE h == Head(pushing)
<1>1. /\ pushing # <<>>
      /\ pushing' = <<>>
      /\ Dispose(h, "pushCancelled")
      /\ UNCHANGED <<received, queue, streamCh, offered>>
  BY DEF PushCancelled, readerVars
<1>2. h \in Events /\ Range(pushing) = {h} /\ Range(pushing') = {}
  BY <1>1, Facts, InHand, Nothing
<1> HIDE DEF h
<1>3. Order(P)' /\ Arrived'
  BY <1>1, <1>2 DEF Order, Chain, Below, Arrived
<1>4. h \in Places(P) /\ Places(P)' = Places(P) \ {h}
  BY <1>1, <1>2, Facts, EventsAssumption DEF Places, Order, Chain, Below
<1>5. Account(P)' /\ ledger' \in [Events -> Seq(Fates)] /\ SettlesOne(P, IngestFates)
  <2>1. "pushCancelled" \in IngestFates /\ "pushCancelled" \in Fates
    BY DEF PushCancelled, IngestFates, Fates, CountedFates, SilentFates, SampledFates
  <2> QED
    BY <1>1, <1>2, <1>4, <2>1, LetGo
<1>6. IngestTypeOK'
  <2>1. /\ ctxDone' = ctxDone /\ dropIfFull' = dropIfFull
        /\ readerUp' = readerUp /\ processorUp' = processorUp
    BY DEF PushCancelled, readerVars
  <2>2. pushing' \in Seq(Events) /\ Len(pushing') <= 1
    BY <1>1, Nothing
  <2> QED
    BY <1>1, <1>5, <2>1, <2>2 DEF IngestTypeOK, LedgerTypeOK
<1> QED
  BY <1>3, <1>5, <1>6

LEMMA TakeSkippedInv ==
  ASSUME NEW P, IngestInv(P), TakeSkipped
  PROVE  IngestInv(P)' /\ SettlesOne(P, IngestFates)
<1> USE DEF IngestInv
<1> DEFINE h == Head(streamCh)
<1>1. /\ streamCh # <<>>
      /\ streamCh' = Tail(streamCh)
      /\ Dispose(h, "sampledOut")
      /\ UNCHANGED <<received, queue, pushing, offered>>
  BY DEF TakeSkipped, readerVars, processorVars
<1>2. /\ h \in Events /\ streamCh' \in Seq(Events)
      /\ Range(streamCh) = Range(streamCh') \cup {h}
      /\ Increasing(streamCh') /\ Below({h}, Range(streamCh'))
  BY <1>1, Facts, TakeFromQueue, TailOrdered DEF Order
<1> HIDE DEF h
<1>3. Order(P)' /\ Arrived'
  BY <1>1, <1>2 DEF Order, Chain, Below, Arrived
<1>4. h \in Places(P) /\ Places(P)' = Places(P) \ {h}
  <2>1. h \in Range(streamCh)
    BY <1>2
  <2>2. /\ h \notin P /\ h \notin Range(queue) /\ h \notin Range(pushing)
        /\ h \notin Range(offered)
    BY <1>2, <2>1, EventsAssumption DEF Order, Chain, Below
  <2>3. h \notin Range(streamCh')
    BY <1>2, EventsAssumption DEF Below
  <2> HIDE DEF IngestInv
  <2> QED
    BY <1>1, <1>2, <2>2, <2>3 DEF Places
<1>5. Account(P)' /\ ledger' \in [Events -> Seq(Fates)] /\ SettlesOne(P, IngestFates)
  <2>1. "sampledOut" \in IngestFates /\ "sampledOut" \in Fates
    BY DEF TakeSkipped, IngestFates, Fates, CountedFates, SilentFates, SampledFates
  <2> QED
    BY <1>1, <1>2, <1>4, <2>1, LetGo
<1>6. IngestTypeOK'
  BY <1>1, <1>2, <1>5, Single, Nothing DEF IngestTypeOK, LedgerTypeOK,
    TakeSkipped, readerVars, processorVars
<1> QED
  BY <1>3, <1>5, <1>6

(* The steps of reader and processEvents that move no event.               *)
LEMMA IdleInv ==
  ASSUME NEW P, IngestInv(P), UNCHANGED <<ledger, dropIfFull, received, offered, streamCh,
         pushing, queue>>, ctxDone' \in BOOLEAN, readerUp' \in BOOLEAN, processorUp' \in BOOLEAN
  PROVE  IngestInv(P)' /\ HandsOver(P)
<1>1. IngestTypeOK'
  BY DEF IngestInv, IngestTypeOK, LedgerTypeOK
<1>2. Places(P)' = Places(P)
  BY DEF Places
<1>3. Order(P)' /\ Arrived' /\ Account(P)'
  BY <1>2, HandedOver DEF IngestInv, Order, Arrived
<1> QED
  BY <1>1, <1>2, <1>3 DEF IngestInv, HandsOver

LEMMA StopsInv ==
  ASSUME NEW P, IngestInv(P), ReaderStops \/ ProcessorStops
  PROVE  IngestInv(P)' /\ HandsOver(P)
<1>1. UNCHANGED <<ctxDone, ledger, dropIfFull, received, offered, streamCh, pushing, queue>>
  BY DEF ReaderStops, ProcessorStops, ledgerVars, readerVars, processorVars
<1>2. ctxDone' \in BOOLEAN /\ readerUp' \in BOOLEAN /\ processorUp' \in BOOLEAN
  BY DEF ReaderStops, ProcessorStops, ledgerVars, readerVars, processorVars, IngestInv,
         IngestTypeOK, LedgerTypeOK
<1> QED
  BY <1>1, <1>2, IdleInv

LEMMA ReaderInv ==
  ASSUME NEW P, IngestInv(P), Reader
  PROVE  IngestInv(P)' /\ (HandsOver(P) \/ SettlesOne(P, IngestFates))
BY OfferAcceptedInv, OfferDroppedInv, OfferCancelledInv, StopsInv DEF Reader

LEMMA ProcessorInv ==
  ASSUME NEW P, IngestInv(P), Processor
  PROVE  IngestInv(P)' /\ (HandsOver(P) \/ SettlesOne(P, IngestFates))
BY TakeSampledInv, TakeSkippedInv, PushAcceptedInv, PushDroppedInv, PushCancelledInv,
   StopsInv DEF Processor

-----------------------------------------------------------------------------
(* Behind the queue.  An event popped is younger than all that lies there. *)
LEMMA Popped ==
  ASSUME NEW P, IngestInv(P), NEW e \in Events, Pop(e)
  PROVE  /\ queue' \in Seq(Events) /\ Range(queue) = Range(queue') \cup {e}
         /\ Increasing(queue') /\ Below({e}, Range(queue')) /\ Below(P, {e})
         /\ UNCHANGED <<dropIfFull, received, readerUp, offered, streamCh, processorUp, pushing>>
<1>1. queue # <<>> /\ e = Head(queue) /\ queue' = Tail(queue)
  BY DEF Pop
<1>2. UNCHANGED <<dropIfFull, received, readerUp, offered, streamCh, processorUp, pushing>>
  BY DEF Pop, readerVars, processorVars
<1>3. IngestTypeOK /\ Order(P)
  BY DEF IngestInv
<1>4. /\ queue' \in Seq(Events) /\ Range(queue) = Range(queue') \cup {e}
      /\ Increasing(queue') /\ Below({e}, Range(queue'))
  BY <1>1, <1>3, Facts, TakeFromQueue, TailOrdered DEF Order
<1>5. Below(P, {e})
  BY <1>3, <1>4 DEF Order, Chain, Below
<1> QED
  BY <1>2, <1>4, <1>5

LEMMA PopInv ==
  ASSUME NEW P, IngestInv(P), NEW e \in Events, Pop(e), UNCHANGED ledgerVars
  PROVE  /\ IngestInv(P \cup {e})' /\ Places(P \cup {e})' = Places(P)
         /\ e \notin P
<1>1. UNCHANGED <<ctxDone, ledger>>
  BY DEF ledgerVars
<1>2. IngestTypeOK'
  BY <1>1, Popped DEF IngestInv, IngestTypeOK, LedgerTypeOK
<1>3. Order(P \cup {e})' /\ Arrived' /\ P \cup {e} \subseteq Events
  <2>1. /\ Increasing(queue)' /\ Increasing(streamCh)'
        /\ Arrived' /\ P \cup {e} \subseteq Events
    BY Popped DEF IngestInv, Order, Arrived
  <2>2. /\ Below(P, {e}) /\ Below({e}, Range(queue')) /\ Range(queue) = Range(queue') \cup {e}
        /\ UNCHANGED <<pushing, streamCh, offered>>
    BY Popped
  <2>3. Chain(P, Range(queue), Range(pushing), Range(streamCh), Range(offered))
    BY DEF IngestInv, Order
  <2>4. Chain(P \cup {e}, Range(queue'), Range(pushing'), Range(streamCh'), Range(offered'))
    BY <2>2, <2>3 DEF Chain, Below
  <2> QED
    BY <2>1, <2>4 DEF Order
<1>4. Places(P \cup {e})' = Places(P)
  BY Popped DEF Places
<1>5. Account(P \cup {e})'
  BY <1>1, <1>4, Popped, HandedOver DEF IngestInv
<1>6. e \notin P
  BY Popped, EventsAssumption DEF Below
<1> QED
  BY <1>2, <1>3, <1>4, <1>5, <1>6 DEF IngestInv

LEMMA PopSettledInv ==
  ASSUME NEW P, IngestInv(P), NEW e \in Events, Pop(e), NEW f \in Fates, Dispose(e, f),
         ctxDone' = ctxDone
  PROVE  IngestInv(P)' /\ SettlesOne(P, {f})
<1>1. e \in Places(P)
  BY Popped DEF Places
<1>2. Places(P)' = Places(P) \ {e}
  <2>1. e \notin P /\ e \notin Range(queue')
    BY Popped, EventsAssumption DEF Below
  <2>2. e \notin Range(pushing) /\ e \notin Range(streamCh) /\ e \notin Range(offered)
    <3>1. e \in Range(queue) /\ e \in Nat
      BY Popped, EventsAssumption
    <3>2. /\ Below(Range(queue), Range(pushing)) /\ Below(Range(queue), Range(streamCh))
          /\ Below(Range(queue), Range(offered))
      BY DEF IngestInv, Order, Chain
    <3> QED
      BY <3>1, <3>2 DEF Below
  <2> QED
    BY <2>1, <2>2, Popped DEF Places
<1>3. Account(P)' /\ ledger' \in [Events -> Seq(Fates)] /\ SettlesOne(P, {f})
  BY <1>1, <1>2, Popped, LetGo
<1>4. IngestTypeOK'
  BY <1>3, Popped DEF IngestInv, IngestTypeOK, LedgerTypeOK
<1>5. Order(P)' /\ Arrived'
  BY Popped DEF IngestInv, Order, Chain, Below, Arrived
<1> QED
  BY <1>3, <1>4, <1>5 DEF IngestInv

(* Behind the queue an event is settled.                                   *)
LEMMA SettledBehindInv ==
  ASSUME NEW P, IngestInv(P), NEW e \in P, NEW f \in Fates, Dispose(e, f),
         ctxDone' = ctxDone, UNCHANGED ingestVars
  PROVE  /\ IngestInv(P \ {e})' /\ Places(P \ {e})' = Places(P) \ {e}
         /\ e \in Places(P) /\ ledger[e] = <<>> /\ ledger' = [ledger EXCEPT ![e] = <<f>>]
<1>1. UNCHANGED <<dropIfFull, received, readerUp, offered, streamCh, processorUp, pushing, queue>>
  BY DEF ingestVars, readerVars, processorVars
<1>2. e \in Events /\ e \in Places(P)
  BY DEF IngestInv, Places
<1>3. Places(P \ {e})' = Places(P) \ {e}
  <2>1. /\ e \notin Range(queue) /\ e \notin Range(pushing)
        /\ e \notin Range(streamCh) /\ e \notin Range(offered)
    BY <1>2, EventsAssumption DEF IngestInv, Order, Chain, Below
  <2> QED
    BY <1>1, <2>1 DEF Places
<1>4. /\ Account(P \ {e})' /\ ledger' \in [Events -> Seq(Fates)]
      /\ ledger' = [ledger EXCEPT ![e] = <<f>>] /\ ledger[e] = <<>>
  BY <1>1, <1>2, <1>3, AccountLeft
<1>5. IngestTypeOK'
  BY <1>1, <1>4 DEF IngestInv, IngestTypeOK, LedgerTypeOK
<1>6. Order(P \ {e})' /\ Arrived' /\ P \ {e} \subseteq Events
  BY <1>1 DEF IngestInv, Order, Chain, Below, Arrived
<1> QED
  BY <1>2, <1>3, <1>4, <1>5, <1>6 DEF IngestInv

-----------------------------------------------------------------------------
(* What lies between Recv and Pop, as one sequence.                        *)
LEMMA WholePipeline ==
  ASSUME NEW P, IngestInv(P)
  PROVE  /\ Pipeline \in Seq(Events) /\ Increasing(Pipeline)
         /\ Places(P) = P \cup Range(Pipeline) /\ Below(P, Range(Pipeline))
<1> DEFINE a == queue \o pushing
           b == a \o streamCh
           c == b \o offered
<1>1. /\ queue \in Seq(Events) /\ pushing \in Seq(Events)
      /\ streamCh \in Seq(Events) /\ offered \in Seq(Events)
  BY Facts DEF IngestInv
<1>2. /\ Increasing(queue) /\ Increasing(streamCh)
      /\ Increasing(pushing) /\ Increasing(offered)
  BY Facts, InHand DEF IngestInv, Order
<1>3. Chain(P, Range(queue), Range(pushing), Range(streamCh), Range(offered))
  BY DEF IngestInv, Order
<1>4. /\ a \in Seq(Events) /\ Increasing(a)
      /\ Range(a) = Range(queue) \cup Range(pushing)
  BY <1>1, <1>2, <1>3, Joined DEF Chain
<1> HIDE DEF a
<1>5. /\ b \in Seq(Events) /\ Increasing(b)
      /\ Range(b) = Range(a) \cup Range(streamCh)
  <2>1. Below(Range(a), Range(streamCh))
    BY <1>3, <1>4 DEF Chain, Below
  <2> QED
    BY <1>1, <1>2, <1>4, <2>1, Joined
<1> HIDE DEF b
<1>6. /\ c \in Seq(Events) /\ Increasing(c)
      /\ Range(c) = Range(b) \cup Range(offered)
  <2>1. Below(Range(b), Range(offered))
    BY <1>3, <1>4, <1>5 DEF Chain, Below
  <2> QED
    BY <1>1, <1>2, <1>5, <2>1, Joined
<1> HIDE DEF c
<1>7. Below(P, Range(c))
  BY <1>3, <1>4, <1>5, <1>6 DEF Chain, Below
<1>8. Pipeline = c
  BY DEF Pipeline, a, b, c
<1> QED
  BY <1>4, <1>5, <1>6, <1>7, <1>8 DEF Places

LEMMA BeginInv ==
  ASSUME LedgerInit, IngestInit
  PROVE  IngestInv({}) /\ Places({}) = {} /\ Range(Pipeline) = {}
<1> USE DEF IngestInit, LedgerInit
<1>1. IngestTypeOK
  <2>1. ledger \in [Events -> Seq(Fates)]
    OBVIOUS
  <2>2. ctxDone \in BOOLEAN /\ readerUp \in BOOLEAN /\ processorUp \in BOOLEAN
    BY Zenon
  <2>3. dropIfFull \in DropModes /\ received \subseteq Events
    OBVIOUS
  <2> QED
    BY <2>1, <2>2, <2>3, Nothing DEF IngestTypeOK, LedgerTypeOK
<1>2. Places({}) = {} /\ received = {}
  BY Nothing DEF Places
<1>3. Order({})
  BY Nothing DEF Order, Chain, Below
<1>4. Account({})
  <2>1. ASSUME NEW e \in Events PROVE ledger[e] = <<>> /\ Len(ledger[e]) <= 1
    <3>1. ledger[e] = <<>> /\ Len(<<>>) = 0
      BY Nothing
    <3> QED
      BY <3>1
  <2> QED
    BY <1>2, <2>1 DEF Account, Settled
<1>5. IngestInv({})
  BY <1>1, <1>2, <1>3, <1>4 DEF IngestInv, Arrived
<1>6. Places({}) = {} \cup Range(Pipeline)
  BY <1>5, WholePipeline
<1> QED
  BY <1>2, <1>5, <1>6
=============================================================================
