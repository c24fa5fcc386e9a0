--------------------------- MODULE ClosedownProofs ---------------------------
(***************************************************************************)
(* Theorems about the end of main, for any numbers of log entries and late *)
(* messages and any sizes of the channels and batches: the log core and    *)
(* the producer each are a Delivery, whatever panics, closes or times out, *)
(* the log keeps its order, and Producer.Close leaves no message without   *)
(* its result.                                                             *)
(*                                                                         *)
(* The two are tied by who sends what: sarama is given an entry only as    *)
(* the log core lets go of it, and a late message only as its worker does. *)
(***************************************************************************)
EXTENDS Closedown, SequenceFacts

ProducerInv ==
  /\ ProducerTypeOK
  /\ inflight \cap results["error"] = {}
  /\ inflight \cap results["success"] = {}
  /\ results["error"] \cap results["success"] = {}
  /\ \A m \in InProducer : outcome[m] = <<>>

Written(e) == e \in InCore \/ logFate[e] # <<>>

(* A batch that is being sent is not empty, one that is not has room.  The *)
(* batch is older than the channel; entries are written in their order.    *)
LogInv ==
  /\ LogTypeOK
  /\ IF logFlushing THEN logBatch # <<>> ELSE Len(logBatch) < LogBatch
  /\ Increasing(logBatch) /\ Increasing(logCh)
  /\ Below(Range(logBatch), Range(logCh))
  /\ \A e \in InCore : logFate[e] = <<>>
  /\ \A d, e \in Logs : d < e /\ Written(e) => Written(d)
  /\ LogInOrder

New(m) == m \notin InProducer /\ outcome[m] = <<>>

SendersInv ==
  /\ unsent \subseteq Late
  /\ \A m \in unsent : New(m)
  /\ \A e \in Logs : logFate[e] = <<>> => New(e)

IInv ==
  /\ cloned \in BOOLEAN
  /\ mpc \in {"running", "syncing", "closing", "lastSync", "exited", "crashed"}
  /\ ProducerInv
  /\ LogInv
  /\ SendersInv

-----------------------------------------------------------------------------
(* The log core.                                                           *)

LEMMA CoreIsLogs ==
  ASSUME LogTypeOK
  PROVE  InCore \subseteq Logs
<1>1. Range(logCh) = {logCh[i] : i \in 1..Len(logCh)}
  BY RangeEquality DEF LogTypeOK
<1>2. Range(logBatch) = {logBatch[i] : i \in 1..Len(logBatch)}
  BY RangeEquality DEF LogTypeOK
<1>3. \A i \in 1..Len(logCh) : logCh[i] \in Logs
  BY DEF LogTypeOK
<1>4. \A i \in 1..Len(logBatch) : logBatch[i] \in Logs
  BY DEF LogTypeOK
<1> QED
  BY <1>1, <1>2, <1>3, <1>4 DEF InCore

(* An entry gets its first fate.                                           *)
LEMMA FirstLogFate ==
  ASSUME LogTypeOK, NEW e \in Logs, NEW f \in LogFates, logFate[e] = <<>>, LogDispose(e, f)
  PROVE  /\ logFate' = [logFate EXCEPT ![e] = <<f>>]
         /\ logFate' \in [Logs -> Seq(LogFates)]
         /\ <<f>> # <<>>
<1>1. Append(<<>>, f) = <<f>> /\ <<f>> \in Seq(LogFates) /\ <<f>> # <<>>
  OBVIOUS
<1>2. logFate' = [logFate EXCEPT ![e] = <<f>>]
  BY <1>1 DEF LogDispose
<1> QED
  BY <1>1, <1>2 DEF LogTypeOK

(* A new entry is younger than all the core holds.                         *)
LEMMA NextIsYoungest ==
  ASSUME LogInv, NEW e \in Logs, NextLog(e)
  PROVE  \A d \in InCore : d < e
<1> SUFFICES ASSUME NEW d \in InCore PROVE d < e
  OBVIOUS
<1>1. d \in Logs /\ d \in Nat /\ e \in Nat
  BY CoreIsLogs, LogAssumption DEF LogInv
<1>2. ~(e < d)
  BY <1>1 DEF LogInv, NextLog, Written
<1>3. d # e
  BY DEF NextLog
<1> QED
  BY <1>1, <1>2, <1>3

LEMMA WriteStep ==
  ASSUME LogInv, NEW e \in Logs, NextLog(e), LogWrite(e)
  PROVE  /\ LogInv'
         /\ L!Accept(e) \/ L!Refuse(e, "dropped")
<1>1. LogTypeOK /\ logFate[e] = <<>> /\ e \notin InCore
  BY DEF LogInv, NextLog
<1>2. \A d \in Logs : d < e => Written(d)
  BY DEF NextLog, Written
<1>3. ASSUME Len(logCh) < LogCapacity, logCh' = Append(logCh, e),
             UNCHANGED <<logBatch, logFlushing, logFate>>
      PROVE  LogInv' /\ L!Accept(e)
  <2>1. /\ logCh' \in Seq(Logs) /\ Len(logCh') = Len(logCh) + 1
        /\ Range(logCh') = Range(logCh) \cup {e}
    BY <1>1, <1>3, AppendToQueue DEF LogTypeOK
  <2>2. Len(logCh') <= LogCapacity
    BY <1>1, <1>3, <2>1, LogAssumption DEF LogTypeOK
  <2>3. InCore' = InCore \cup {e}
    BY <1>3, <2>1 DEF InCore
  <2>4. Below(Range(logCh), {e}) /\ Below(Range(logBatch'), Range(logCh'))
    BY <1>3, <2>1, NextIsYoungest DEF Below, InCore, LogInv
  <2>5. Increasing(logCh')
    BY <1>1, <1>3, <2>4, AppendOrdered DEF LogTypeOK, LogInv
  <2>6. \A d, c \in Logs : d < c /\ Written(c)' => Written(d)'
    BY <1>2, <1>3, <2>3 DEF LogInv, Written
  <2>7. LogInOrder'
    BY <1>1, <1>3, <2>3 DEF LogInOrder, LogInv, Written
  <2>8. LogTypeOK'
    BY <1>1, <1>3, <2>1, <2>2 DEF LogTypeOK
  <2> QED
    BY <1>1, <1>3, <2>3, <2>4, <2>5, <2>6, <2>7, <2>8 DEF LogInv, L!Accept, L!Unknown
<1>4. ASSUME LogDispose(e, "dropped"), UNCHANGED <<logCh, logBatch, logFlushing>>
      PROVE  LogInv' /\ L!Refuse(e, "dropped")
  <2>1. /\ logFate' = [logFate EXCEPT ![e] = <<"dropped">>]
        /\ logFate' \in [Logs -> Seq(LogFates)]
        /\ <<"dropped">> # <<>>
    BY <1>1, <1>4, FirstLogFate DEF LogFates
  <2>2. InCore' = InCore
    BY <1>4 DEF InCore
  <2>3. \A d \in Logs : d # e => logFate'[d] = logFate[d]
    BY <1>1, <2>1 DEF LogTypeOK
  <2>4. logFate'[e] = <<"dropped">>
    BY <1>1, <2>1 DEF LogTypeOK
  <2>5. \A d, c \in Logs : d < c /\ Written(c)' => Written(d)'
    BY <1>2, <2>1, <2>2, <2>3, <2>4 DEF LogInv, Written
  <2>6. LogInOrder'
    BY <2>2, <2>3, <2>4 DEF LogInOrder, LogInv
  <2>7. LogTypeOK'
    BY <1>1, <1>4, <2>1 DEF LogTypeOK
  <2> QED
    BY <1>1, <1>4, <2>1, <2>2, <2>3, <2>5, <2>6, <2>7, CoreIsLogs DEF LogInv, L!Refuse, L!Unknown
<1> QED
  BY <1>3, <1>4 DEF LogWrite

LEMMA ReceiveStep ==
  ASSUME LogInv, LogReceive
  PROVE  LogInv' /\ UNCHANGED <<InCore, logFate>>
<1> PICK e : e = Head(logCh)
  OBVIOUS
<1>1. LogTypeOK /\ logCh # <<>> /\ ~logFlushing /\ Len(logBatch) < LogBatch
  BY DEF LogInv, LogReceive
<1>2. /\ e \in Logs /\ Tail(logCh) \in Seq(Logs) /\ Len(Tail(logCh)) = Len(logCh) - 1
      /\ Range(logCh) = Range(Tail(logCh)) \cup {e}
      /\ Len(logCh) \in Nat
  BY <1>1, TakeFromQueue DEF LogTypeOK
<1>3. Increasing(Tail(logCh)) /\ Below({e}, Range(Tail(logCh)))
  BY <1>1, TailOrdered DEF LogTypeOK, LogInv
<1>4. Below(Range(logBatch), {e})
  BY <1>2 DEF Below, LogInv
<1>5. /\ logCh' = Tail(logCh) /\ logBatch' = Append(logBatch, e) /\ logFate' = logFate
      /\ logFlushing' = (Len(logBatch) + 1 >= LogBatch)
  BY DEF LogReceive
<1>6. /\ logBatch' \in Seq(Logs) /\ Len(logBatch') = Len(logBatch) + 1
      /\ logBatch' # <<>> /\ Range(logBatch') = Range(logBatch) \cup {e}
  <2> PICK b : b = logBatch
    OBVIOUS
  <2>1. b \in Seq(Logs) /\ logBatch' = Append(b, e)
    BY <1>1, <1>5 DEF LogTypeOK
  <2> QED
    BY <1>2, <2>1, AppendToQueue
<1>7. Increasing(logBatch')
  BY <1>1, <1>2, <1>4, <1>5, AppendOrdered DEF LogTypeOK, LogInv
<1>8. Below(Range(logBatch'), Range(logCh'))
  BY <1>2, <1>3, <1>5, <1>6 DEF Below, LogInv
<1>9. InCore' = InCore
  BY <1>2, <1>5, <1>6 DEF InCore
<1>10. LogTypeOK' /\ IF logFlushing' THEN logBatch' # <<>> ELSE Len(logBatch') < LogBatch
  <2>1. Len(logBatch) \in Nat /\ LogBatch \in Nat
    BY <1>1, LogAssumption DEF LogTypeOK
  <2>2. Len(logBatch') <= LogBatch /\ Len(logCh') <= LogCapacity
    BY <1>1, <1>2, <1>5, <1>6, <2>1, LogAssumption DEF LogTypeOK
  <2>3. logFlushing' \in BOOLEAN
    BY <1>5
  <2>4. ~logFlushing' => ~(Len(logBatch) + 1 >= LogBatch)
    BY <1>5, Zenon
  <2>5. ~logFlushing' => Len(logBatch') < LogBatch
    BY <1>6, <2>1, <2>4
  <2> QED
    BY <1>1, <1>2, <1>5, <1>6, <2>2, <2>3, <2>5 DEF LogTypeOK
<1>11. \A d, c \in Logs : d < c /\ Written(c)' => Written(d)'
  BY <1>5, <1>9 DEF LogInv, Written
<1>12. LogInOrder'
  BY <1>5, <1>9 DEF LogInv, LogInOrder
<1> QED
  BY <1>3, <1>5, <1>7, <1>8, <1>9, <1>10, <1>11, <1>12 DEF LogInv

LEMMA TickStep ==
  ASSUME LogInv, LogTick
  PROVE  LogInv' /\ UNCHANGED <<InCore, logFate>>
<1>1. UNCHANGED <<logCh, logBatch, logFate>> /\ logFlushing' = TRUE /\ logBatch # <<>>
  BY DEF LogTick
<1>2. InCore' = InCore
  BY <1>1 DEF InCore
<1> QED
  BY <1>1, <1>2 DEF LogInv, LogTypeOK, Written, LogInOrder

(* The oldest entry of the batch, which is the oldest of the core, goes.   *)
LEMMA FinishStep ==
  ASSUME LogInv, NEW f \in {"sent", "timedOut"}, LogFinish(f), NEW e, e = Head(logBatch)
  PROVE  LogInv' /\ e \in Logs /\ L!Leave(e, f)
<1>1. LogTypeOK /\ logFlushing /\ logBatch # <<>> /\ f \in LogFates
  BY DEF LogInv, LogFinish, LogFates
<1>2. /\ e \in Logs /\ Tail(logBatch) \in Seq(Logs)
      /\ Len(logBatch) \in Nat \ {0} /\ Len(Tail(logBatch)) = Len(logBatch) - 1
      /\ Range(logBatch) = Range(Tail(logBatch)) \cup {e}
  BY <1>1, TakeFromQueue DEF LogTypeOK
<1>3. Increasing(Tail(logBatch)) /\ Below({e}, Range(Tail(logBatch)))
  BY <1>1, TailOrdered DEF LogTypeOK, LogInv
<1>4. /\ logCh' = logCh /\ logBatch' = Tail(logBatch)
      /\ logFlushing' = (Tail(logBatch) # <<>>)
      /\ LogDispose(e, f)
  BY DEF LogFinish
<1>5. e \in InCore /\ logFate[e] = <<>>
  BY <1>2 DEF LogInv, InCore
<1>6. /\ logFate' = [logFate EXCEPT ![e] = <<f>>]
      /\ logFate' \in [Logs -> Seq(LogFates)]
      /\ <<f>> # <<>>
  BY <1>1, <1>2, <1>4, <1>5, FirstLogFate
<1>7. logFate'[e] = <<f>> /\ \A d \in Logs : d # e => logFate'[d] = logFate[d]
  BY <1>1, <1>2, <1>6 DEF LogTypeOK
<1>8. \A d \in Range(logCh) \cup Range(Tail(logBatch)) : e < d
  BY <1>2, <1>3 DEF LogInv, Below
<1>9. Range(logCh) \cup Range(Tail(logBatch)) \subseteq Nat /\ e \in Nat
  BY <1>1, <1>2, CoreIsLogs, LogAssumption DEF InCore
<1>10. e \notin Range(logCh) \cup Range(Tail(logBatch))
  BY <1>8, <1>9
<1>11. InCore' = InCore \ {e}
  BY <1>2, <1>4, <1>10 DEF InCore
<1>12. Below(Range(logBatch'), Range(logCh'))
  BY <1>2, <1>4 DEF Below, LogInv
<1>13. LogTypeOK' /\ IF logFlushing' THEN logBatch' # <<>> ELSE Len(logBatch') < LogBatch
  <2>1. Len(logBatch') <= LogBatch
    BY <1>1, <1>2, <1>4, LogAssumption DEF LogTypeOK
  <2>2. logBatch' = <<>> => Len(logBatch') = 0
    BY <1>2, <1>4, EmptySeq
  <2>3. /\ logFlushing' \in BOOLEAN
        /\ logFlushing' => logBatch' # <<>>
        /\ ~logFlushing' => logBatch' = <<>>
    BY <1>4, Zenon
  <2>4. ~logFlushing' => Len(logBatch') < LogBatch
    BY <2>2, <2>3, LogAssumption
  <2> QED
    BY <1>1, <1>2, <1>4, <1>6, <2>1, <2>3, <2>4 DEF LogTypeOK
<1>14. \A d, c \in Logs : d < c /\ Written(c)' => Written(d)'
  <2>1. \A d \in Logs : Written(d)' <=> Written(d)
    BY <1>5, <1>6, <1>7, <1>11 DEF Written
  <2> QED
    BY <2>1 DEF LogInv
<1>15. LogInOrder'
  <2> SUFFICES ASSUME NEW d \in Logs, NEW c \in Logs, d < c, logFate'[c] = <<"sent">>,
                      d \in InCore'
               PROVE  FALSE
    BY DEF LogInOrder
  <2>1. CASE c = e
    <3>1. e < d /\ d \in Nat
      BY <1>8, <1>9, <1>4 DEF InCore
    <3> QED
      BY <1>9, <2>1, <3>1
  <2>2. CASE c # e
    BY <1>7, <1>11, <2>2 DEF LogInv, LogInOrder
  <2> QED
    BY <2>1, <2>2
<1>16. \A d \in InCore' : logFate'[d] = <<>>
  BY <1>1, <1>7, <1>11, CoreIsLogs DEF LogInv
<1> QED
  BY <1>2, <1>3, <1>4, <1>5, <1>6, <1>11, <1>12, <1>13, <1>14, <1>15, <1>16
     DEF LogInv, L!Leave

-----------------------------------------------------------------------------
(* The producer.                                                           *)

KeepsNew(X) == \A m \in Messages \ X : New(m) => New(m)'

LEMMA SendStep ==
  ASSUME ProducerInv, NEW m \in Messages, New(m), SendMessage(m)
  PROVE  ProducerInv' /\ P!Accept(m) /\ KeepsNew({m})
<1>1. /\ inflight' = inflight \cup {m}
      /\ UNCHANGED <<results, handlerUp, closing, inputClosed, outcome>>
  BY DEF SendMessage
<1>2. InProducer' = InProducer \cup {m} /\ m \notin InProducer /\ outcome[m] = <<>>
  BY <1>1 DEF InProducer, New
<1>3. ProducerTypeOK'
  BY <1>1 DEF ProducerInv, ProducerTypeOK
<1>4. /\ inflight' \cap results'["error"] = {}
      /\ inflight' \cap results'["success"] = {}
      /\ results'["error"] \cap results'["success"] = {}
  BY <1>1, <1>2 DEF ProducerInv, InProducer
<1>5. \A a \in InProducer' : outcome'[a] = <<>>
  BY <1>1, <1>2 DEF ProducerInv
<1>6. P!Accept(m)
  BY <1>1, <1>2 DEF P!Accept, P!Unknown, InProducer
<1>7. KeepsNew({m})
  BY <1>1, <1>2 DEF KeepsNew, New
<1> QED
  BY <1>3, <1>4, <1>5, <1>6, <1>7 DEF ProducerInv

(* An answer only moves the message to one of the two channels.            *)
LEMMA AnswerStep ==
  ASSUME ProducerInv, NEW m \in Messages, NEW k \in Kinds, Answer(m, k)
  PROVE  ProducerInv' /\ UNCHANGED <<InProducer, outcome>>
<1>1. /\ m \in inflight /\ inflight' = inflight \ {m}
      /\ results' = [results EXCEPT ![k] = @ \cup {m}]
      /\ UNCHANGED <<handlerUp, closing, inputClosed, outcome>>
  BY DEF Answer
<1>2. results \in [Kinds -> SUBSET Messages] /\ inflight \subseteq Messages
  BY DEF ProducerInv, ProducerTypeOK
<1>3. CASE k = "error"
  <2>1. results'["error"] = results["error"] \cup {m} /\ results'["success"] = results["success"]
    BY <1>1, <1>2, <1>3 DEF Kinds
  <2>2. InProducer' = InProducer
    BY <1>1, <2>1 DEF InProducer
  <2>3. ProducerTypeOK'
    BY <1>1, <1>2 DEF ProducerInv, ProducerTypeOK
  <2> QED
    BY <1>1, <2>1, <2>2, <2>3 DEF ProducerInv
<1>4. CASE k = "success"
  <2>1. results'["success"] = results["success"] \cup {m} /\ results'["error"] = results["error"]
    BY <1>1, <1>2, <1>4 DEF Kinds
  <2>2. InProducer' = InProducer
    BY <1>1, <2>1 DEF InProducer
  <2>3. ProducerTypeOK'
    BY <1>1, <1>2 DEF ProducerInv, ProducerTypeOK
  <2> QED
    BY <1>1, <2>1, <2>2, <2>3 DEF ProducerInv
<1> QED
  BY <1>3, <1>4 DEF Kinds

(* Whoever takes a result, a handler or Close, it is the message's only    *)
(* one.                                                                    *)
LEMMA TakeStep ==
  ASSUME ProducerInv, NEW m \in Messages, NEW k \in Kinds, NEW f \in Outcomes, Take(m, k, f),
         UNCHANGED <<inflight, handlerUp, closing, inputClosed>>
  PROVE  ProducerInv' /\ P!Leave(m, f) /\ KeepsNew({})
<1>1. /\ m \in results[k]
      /\ results' = [results EXCEPT ![k] = @ \ {m}]
      /\ outcome' = [outcome EXCEPT ![m] = Append(@, f)]
  BY DEF Take
<1>2. /\ results \in [Kinds -> SUBSET Messages] /\ inflight \subseteq Messages
      /\ outcome \in [Messages -> Seq(Outcomes)]
  BY DEF ProducerInv, ProducerTypeOK
<1>3. m \in InProducer /\ outcome[m] = <<>>
  BY <1>1 DEF ProducerInv, InProducer, Kinds
<1>4. /\ outcome' = [outcome EXCEPT ![m] = <<f>>]
      /\ outcome' \in [Messages -> Seq(Outcomes)]
  <2>1. Append(<<>>, f) = <<f>> /\ <<f>> \in Seq(Outcomes)
    OBVIOUS
  <2> QED
    BY <1>1, <1>2, <1>3, <2>1
<1>5. InProducer' = InProducer \ {m}
  <2>1. CASE k = "error"
    <3>1. results'["error"] = results["error"] \ {m} /\ results'["success"] = results["success"]
      BY <1>1, <1>2, <2>1 DEF Kinds
    <3> QED
      BY <1>1, <2>1, <3>1 DEF InProducer, ProducerInv
  <2>2. CASE k = "success"
    <3>1. results'["success"] = results["success"] \ {m} /\ results'["error"] = results["error"]
      BY <1>1, <1>2, <2>2 DEF Kinds
    <3> QED
      BY <1>1, <2>2, <3>1 DEF InProducer, ProducerInv
  <2> QED
    BY <2>1, <2>2 DEF Kinds
<1>6. results' \in [Kinds -> SUBSET Messages] /\ \A c \in Kinds : results'[c] \subseteq results[c]
  BY <1>1, <1>2
<1>7. ProducerTypeOK'
  BY <1>4, <1>6 DEF ProducerInv, ProducerTypeOK
<1>8. /\ inflight' \cap results'["error"] = {}
      /\ inflight' \cap results'["success"] = {}
      /\ results'["error"] \cap results'["success"] = {}
  BY <1>6 DEF ProducerInv, Kinds
<1>9. \A a \in InProducer : a \in Messages
  BY <1>2 DEF InProducer, Kinds
<1>10. \A a \in InProducer' : outcome'[a] = <<>>
  BY <1>2, <1>4, <1>5, <1>9 DEF ProducerInv
<1>11. P!Leave(m, f)
  BY <1>3, <1>4, <1>5 DEF P!Leave, InProducer
<1>12. KeepsNew({})
  BY <1>2, <1>3, <1>4, <1>5 DEF KeepsNew, New
<1> QED
  BY <1>7, <1>8, <1>10, <1>11, <1>12 DEF ProducerInv

(* sarama, the handlers and Close give nobody's message to sarama.         *)
ProducerMoves == P!Next \/ UNCHANGED <<InProducer, outcome>>

LEMMA ProducerStep ==
  ASSUME ProducerInv, Sarama \/ (\E k \in Kinds : Handler(k)) \/ Close
  PROVE  ProducerInv' /\ ProducerMoves /\ KeepsNew({})
<1>1. ASSUME UNCHANGED <<InProducer, outcome>> PROVE ProducerMoves /\ KeepsNew({})
  BY <1>1 DEF ProducerMoves, KeepsNew, New
<1>2. ASSUME NEW m \in Messages, NEW k \in Kinds, Answer(m, k)
      PROVE  ProducerInv' /\ ProducerMoves /\ KeepsNew({})
  BY <1>1, <1>2, AnswerStep
<1>3. ASSUME NEW m \in Messages, NEW k \in Kinds, NEW f \in Outcomes, Take(m, k, f),
             UNCHANGED <<inflight, handlerUp, closing, inputClosed>>
      PROVE  ProducerInv' /\ ProducerMoves /\ KeepsNew({})
  BY <1>3, TakeStep DEF ProducerMoves, P!Next
<1>4. ASSUME NEW m \in Messages, NEW k \in Kinds, Handle(m, k)
      PROVE  ProducerInv' /\ ProducerMoves /\ KeepsNew({})
  <2>1. Counted[k] \in Outcomes
    BY DEF Counted, Outcomes, Kinds
  <2> QED
    BY <1>3, <1>4, <2>1 DEF Handle
<1>5. CASE CloseReads
  <2>1. "thrownAway" \in Outcomes
    BY DEF Outcomes
  <2> QED
    BY <1>3, <1>5, <2>1 DEF CloseReads
<1>6. ASSUME UNCHANGED <<inflight, results, outcome>>, handlerUp' \in [Kinds -> BOOLEAN],
             closing' \in {"open", "cancelled", "draining", "waiting", "closed"},
             inputClosed' \in BOOLEAN
      PROVE  ProducerInv' /\ ProducerMoves /\ KeepsNew({})
  <2>1. UNCHANGED <<InProducer, outcome>>
    BY <1>6 DEF InProducer
  <2>2. ProducerInv'
    BY <1>6, <2>1 DEF ProducerInv, ProducerTypeOK
  <2> QED
    BY <1>1, <2>1, <2>2
<1>7. CASE InputCloses
  BY <1>6, <1>7 DEF InputCloses, ProducerInv, ProducerTypeOK
<1>8. ASSUME NEW k \in Kinds, HandlerStops(k) PROVE ProducerInv' /\ ProducerMoves /\ KeepsNew({})
  BY <1>6, <1>8 DEF HandlerStops, ProducerInv, ProducerTypeOK
<1>9. CASE CloseCancels \/ CloseAsks \/ CloseDone \/ CloseReturns
  BY <1>6, <1>9 DEF CloseCancels, CloseAsks, CloseDone, CloseReturns, CloseGoes,
                    ProducerInv, ProducerTypeOK
<1> QED
  BY <1>2, <1>4, <1>5, <1>7, <1>8, <1>9 DEF Sarama, Handler, Close

-----------------------------------------------------------------------------
(* Both together.                                                          *)

LogMoves == L!Next \/ UNCHANGED <<InCore, logFate>>

(* X is what the step gives to sarama.                                     *)
LEMMA SendersKept ==
  ASSUME SendersInv, NEW X, KeepsNew(X), unsent' \subseteq unsent \ X,
         \A e \in Logs : logFate'[e] = <<>> => logFate[e] = <<>> /\ e \notin X
  PROVE  SendersInv'
<1>1. Logs \subseteq Messages /\ Late \subseteq Messages
  BY LateAssumption
<1> QED
  BY <1>1 DEF SendersInv, KeepsNew

LEMMA LogUntouched ==
  ASSUME LogInv, UNCHANGED logVars
  PROVE  LogInv' /\ LogMoves /\ logFate' = logFate
<1>1. UNCHANGED <<logCh, logBatch, logFlushing, logFate>>
  BY DEF logVars
<1>2. InCore' = InCore
  BY <1>1 DEF InCore
<1> QED
  BY <1>1, <1>2 DEF LogInv, LogTypeOK, LogInOrder, Written, LogMoves

LEMMA ProducerUntouched ==
  ASSUME ProducerInv, UNCHANGED producerVars
  PROVE  ProducerInv' /\ ProducerMoves /\ KeepsNew({})
<1>1. UNCHANGED <<inflight, results, handlerUp, closing, inputClosed, outcome>>
  BY DEF producerVars
<1>2. InProducer' = InProducer
  BY <1>1 DEF InProducer
<1> QED
  BY <1>1, <1>2 DEF ProducerInv, ProducerTypeOK, ProducerMoves, KeepsNew, New

MainIsSomewhere ==
  /\ cloned' = cloned
  /\ mpc' \in {"running", "syncing", "closing", "lastSync", "exited", "crashed"}

Good == IInv' /\ LogMoves /\ ProducerMoves

(* A step that gives nothing to sarama.                                    *)
LEMMA NothingSent ==
  ASSUME IInv, MainIsSomewhere, ProducerInv', ProducerMoves, KeepsNew({}), LogInv', LogMoves,
         unsent' \subseteq unsent, \A e \in Logs : logFate'[e] = <<>> => logFate[e] = <<>>
  PROVE  Good
<1>1. SendersInv'
  BY SendersKept DEF IInv
<1> QED
  BY <1>1 DEF IInv, MainIsSomewhere, Good

(* What an entry's first fate does to the others.                          *)
LEMMA OnlyOneFate ==
  ASSUME LogTypeOK, NEW e \in Logs, NEW f, L!Leave(e, f) \/ L!Refuse(e, f)
  PROVE  /\ logFate'[e] = <<f>> /\ <<f>> # <<>>
         /\ \A d \in Logs : d # e => logFate'[d] = logFate[d]
<1>1. logFate' = [logFate EXCEPT ![e] = <<f>>]
  BY DEF L!Leave, L!Refuse
<1>2. <<f>> # <<>>
  OBVIOUS
<1> QED
  BY <1>1, <1>2 DEF LogTypeOK

LEMMA WriteLogStep ==
  ASSUME IInv, WriteLog
  PROVE  Good
<1>1. PICK e \in Logs : NextLog(e) /\ LogWrite(e)
  BY DEF WriteLog
<1>2. LogInv' /\ (L!Accept(e) \/ L!Refuse(e, "dropped"))
  BY <1>1, WriteStep DEF IInv
<1>3. LogMoves
  BY <1>2 DEF LogMoves, L!Next
<1>4. \A d \in Logs : logFate'[d] = <<>> => logFate[d] = <<>>
  <2>1. CASE L!Accept(e)
    BY <2>1 DEF L!Accept
  <2>2. CASE L!Refuse(e, "dropped")
    BY <2>2, OnlyOneFate DEF IInv, LogInv
  <2> QED
    BY <1>2, <2>1, <2>2
<1>5. UNCHANGED <<producerVars, unsent, cloned, mpc>>
  BY DEF WriteLog
<1>6. ProducerInv' /\ ProducerMoves /\ KeepsNew({})
  BY <1>5, ProducerUntouched DEF IInv
<1> QED
  BY <1>2, <1>3, <1>4, <1>5, <1>6, NothingSent DEF IInv, MainIsSomewhere

LEMMA LogWorkerStep ==
  ASSUME IInv, LogWorker
  PROVE  Good
<1>1. CASE (LogReceive \/ LogTick) /\ UNCHANGED <<producerVars, unsent, cloned, mpc>>
  <2>1. LogInv' /\ LogMoves /\ logFate' = logFate
    BY <1>1, ReceiveStep, TickStep DEF IInv, LogMoves
  <2>2. ProducerInv' /\ ProducerMoves /\ KeepsNew({})
    BY <1>1, ProducerUntouched DEF IInv
  <2> QED
    BY <1>1, <2>1, <2>2, NothingSent DEF IInv, MainIsSomewhere
<1>2. CASE LogSends
  <2> PICK e : e = Head(logBatch)
    OBVIOUS
  <2>1. SendMessage(e) /\ LogFinish("sent") /\ UNCHANGED <<unsent, cloned, mpc>>
    BY <1>2 DEF LogSends
  <2>2. LogInv' /\ e \in Logs /\ L!Leave(e, "sent")
    BY <2>1, FinishStep DEF IInv
  <2>3. e \in Messages /\ e \notin Late
    BY <2>2, LateAssumption
  <2>4. New(e)
    BY <2>2 DEF L!Leave, IInv, SendersInv
  <2>5. ProducerInv' /\ P!Accept(e) /\ KeepsNew({e})
    BY <2>1, <2>3, <2>4, SendStep DEF IInv
  <2>6. \A d \in Logs : logFate'[d] = <<>> => logFate[d] = <<>> /\ d \notin {e}
    BY <2>2, OnlyOneFate DEF IInv, LogInv
  <2>7. unsent' \subseteq unsent \ {e}
    BY <2>1, <2>3 DEF IInv, SendersInv
  <2>8. SendersInv'
    BY <2>5, <2>6, <2>7, SendersKept DEF IInv
  <2>9. LogMoves /\ ProducerMoves
    BY <2>2, <2>3, <2>5 DEF LogMoves, ProducerMoves, L!Next, P!Next
  <2> QED
    BY <2>1, <2>2, <2>5, <2>8, <2>9 DEF IInv, Good
<1>3. CASE LogTimesOut
  <2> PICK e : e = Head(logBatch)
    OBVIOUS
  <2>1. LogFinish("timedOut") /\ UNCHANGED <<producerVars, unsent, cloned, mpc>>
    BY <1>3 DEF LogTimesOut
  <2>2. LogInv' /\ e \in Logs /\ L!Leave(e, "timedOut")
    BY <2>1, FinishStep DEF IInv
  <2>3. \A d \in Logs : logFate'[d] = <<>> => logFate[d] = <<>>
    BY <2>2, OnlyOneFate DEF IInv, LogInv
  <2>4. ProducerInv' /\ ProducerMoves /\ KeepsNew({})
    BY <2>1, ProducerUntouched DEF IInv
  <2>5. LogMoves
    BY <2>2 DEF LogMoves, L!Next
  <2> QED
    BY <2>1, <2>2, <2>3, <2>4, <2>5, NothingSent DEF IInv, MainIsSomewhere
<1>4. CASE LogPanics
  <2>1. UNCHANGED <<producerVars, logVars, unsent, cloned>> /\ mpc' = "crashed"
    BY <1>4 DEF LogPanics
  <2>2. LogInv' /\ LogMoves /\ logFate' = logFate
    BY <2>1, LogUntouched DEF IInv
  <2>3. ProducerInv' /\ ProducerMoves /\ KeepsNew({})
    BY <2>1, ProducerUntouched DEF IInv
  <2> QED
    BY <2>1, <2>2, <2>3, NothingSent DEF MainIsSomewhere
<1> QED
  BY <1>1, <1>2, <1>3, <1>4 DEF LogWorker

LEMMA LateWorkerStep ==
  ASSUME IInv, LateWorker
  PROVE  Good
<1>1. LogInv' /\ LogMoves /\ logFate' = logFate
  BY LogUntouched DEF IInv, LateWorker, LateSends, LateGivesUp, LatePanics
<1>2. MainIsSomewhere
  BY DEF IInv, MainIsSomewhere, LateWorker, LateSends, LateGivesUp, LatePanics
<1>3. CASE LateSends
  <2>1. PICK m \in unsent : SendMessage(m) /\ unsent' = unsent \ {m}
    BY <1>3 DEF LateSends
  <2>2. m \in Messages /\ m \notin Logs /\ New(m)
    BY LateAssumption DEF IInv, SendersInv
  <2>3. ProducerInv' /\ P!Accept(m) /\ KeepsNew({m})
    BY <2>1, <2>2, SendStep DEF IInv
  <2>4. SendersInv'
    BY <1>1, <2>1, <2>2, <2>3, SendersKept DEF IInv
  <2>5. ProducerMoves
    BY <2>2, <2>3 DEF ProducerMoves, P!Next
  <2> QED
    BY <1>1, <1>2, <2>3, <2>4, <2>5 DEF IInv, MainIsSomewhere, Good
<1>4. CASE LateGivesUp \/ LatePanics
  <2>1. UNCHANGED producerVars /\ unsent' \subseteq unsent
    BY <1>4 DEF LateGivesUp, LatePanics
  <2>2. ProducerInv' /\ ProducerMoves /\ KeepsNew({})
    BY <2>1, ProducerUntouched DEF IInv
  <2> QED
    BY <1>1, <1>2, <2>1, <2>2, NothingSent
<1> QED
  BY <1>3, <1>4 DEF LateWorker

(* main, and what runs beside it, leave the log core and the late messages *)
(* alone.                                                                  *)
LEMMA OtherStep ==
  ASSUME IInv,
         \/ ProducerOnly(Sarama)
         \/ \E k \in Kinds : ProducerOnly(Handler(k))
         \/ StartsSync \/ Main \/ UNCHANGED vars
  PROVE  Good
<1>1. UNCHANGED <<logVars, unsent>> /\ MainIsSomewhere
  BY DEF ProducerOnly, StartsSync, Main, SyncOfClone, SyncTimesOut, ProducerClose, Exits,
         MainGoes, vars, IInv, MainIsSomewhere
<1>2. LogInv' /\ LogMoves /\ logFate' = logFate
  BY <1>1, LogUntouched DEF IInv
<1>3. \/ Sarama \/ (\E k \in Kinds : Handler(k)) \/ Close
      \/ UNCHANGED producerVars
  BY DEF ProducerOnly, StartsSync, Main, SyncOfClone, SyncTimesOut, ProducerClose, Exits,
         MainGoes, vars
<1>4. ProducerInv' /\ ProducerMoves /\ KeepsNew({})
  BY <1>3, ProducerStep, ProducerUntouched DEF IInv
<1> QED
  BY <1>1, <1>2, <1>4, NothingSent

LEMMA StepInv ==
  ASSUME IInv, [Next]_vars
  PROVE  Good
BY WriteLogStep, LogWorkerStep, LateWorkerStep, OtherStep DEF Next, AtRest

LEMMA InitInv == Init => IInv /\ InCore = {} /\ InProducer = {}
<1> SUFFICES ASSUME Init PROVE IInv /\ InCore = {} /\ InProducer = {}
  OBVIOUS
<1> PICK l : l = <<>>
  OBVIOUS
<1>1. l \in Seq(Logs) /\ Len(l) = 0 /\ Range(l) = {}
  <2>1. l \in Seq(Logs) /\ Len(l) = 0
    OBVIOUS
  <2>2. Range(l) = {}
    BY <2>1, EmptyRange
  <2> QED
    BY <2>1, <2>2
<1>2. /\ logCh = l /\ logBatch = l /\ logFlushing = FALSE
      /\ logFate = [e \in Logs |-> l]
  BY DEF Init, LogInit
<1>3. InCore = {}
  BY <1>1, <1>2 DEF InCore
<1>4. l \in Seq(LogFates) /\ l \in Seq(Outcomes)
  OBVIOUS
<1>5. Increasing(l) /\ Below(Range(l), Range(l))
  BY <1>1 DEF Increasing, Below
<1>6. LogTypeOK
  <2>1. Len(l) <= LogCapacity /\ Len(l) <= LogBatch
    BY <1>1, LogAssumption
  <2>2. logFate \in [Logs -> Seq(LogFates)]
    BY <1>2, <1>4
  <2> QED
    BY <1>1, <1>2, <2>1, <2>2 DEF LogTypeOK
<1>7. <<"sent">> # <<>>
  OBVIOUS
<1>8. LogInv
  BY <1>1, <1>2, <1>3, <1>5, <1>6, LogAssumption DEF LogInv, LogInOrder, Written
<1>9. /\ inflight = {} /\ results = [k \in Kinds |-> {}]
      /\ outcome = [m \in Messages |-> l]
      /\ handlerUp = [k \in Kinds |-> TRUE] /\ closing = "open" /\ inputClosed = FALSE
  BY DEF Init, ProducerInit
<1>10. InProducer = {} /\ results["error"] = {} /\ results["success"] = {}
  BY <1>9 DEF InProducer, Kinds
<1>11. ProducerInv
  BY <1>4, <1>9, <1>10 DEF ProducerInv, ProducerTypeOK
<1>12. SendersInv
  BY <1>9, <1>10, LateAssumption DEF SendersInv, New, Init
<1> QED
  BY <1>3, <1>8, <1>10, <1>11, <1>12 DEF IInv, Init

LEMMA Invariance == Spec => []IInv
<1>1. IInv /\ [Next]_vars => IInv'
  BY StepInv DEF Good
<1> QED
  BY <1>1, InitInv, PTL DEF Spec

(* The variables of the log core, the producer and main stay in their      *)
(* types whatever panics.                                                  *)
THEOREM TypeCorrect == Spec => []TypeOK
<1>1. IInv => TypeOK
  BY DEF IInv, ProducerInv, LogInv, SendersInv, TypeOK
<1> QED
  BY <1>1, Invariance, PTL

(* The log reaches the producer in the order in which it was written       *)
(* (kafka_core.go: Write, logWorker, flushBatch), for any sizes.           *)
THEOREM LogKeepsOrder == Spec => []LogInOrder
<1>1. IInv => LogInOrder
  BY DEF IInv, LogInv
<1> QED
  BY <1>1, Invariance, PTL

(* kafka_core.go implements Delivery: what Write takes, the worker holds   *)
(* until it is sent or timed out, once.                                    *)
THEOREM LogCoreDelivers == Spec => LogCoreIsDelivery
<1>1. Init => L!Init
  BY InitInv DEF Init, LogInit, L!Init
<1>2. IInv /\ [Next]_vars => [L!Next]_L!vars
  BY StepInv DEF Good, LogMoves, L!vars
<1> QED
  BY <1>1, <1>2, Invariance, PTL DEF Spec, LogCoreIsDelivery, L!Spec

(* producer.go implements Delivery: each message Input takes has one       *)
(* result, which a handler counts or Close throws away, once, however the  *)
(* handlers' stop and the closing of sarama fall.                          *)
THEOREM ProducerDelivers == Spec => P!Spec
<1>1. Init => P!Init
  BY InitInv DEF Init, ProducerInit, P!Init, InProducer
<1>2. IInv /\ [Next]_vars => [P!Next]_P!vars
  BY StepInv DEF Good, ProducerMoves, P!vars, InProducer
<1> QED
  BY <1>1, <1>2, Invariance, PTL DEF Spec, P!Spec
-----------------------------------------------------------------------------
(* What Close has brought about when it returns, and what became of what   *)
(* the log core has sent.                                                  *)
ClosingInv ==
  /\ inputClosed => inflight = {}
  /\ closing \in {"waiting", "closed"} =>
       inputClosed /\ results["error"] = {} /\ results["success"] = {}
  /\ mpc \in {"lastSync", "exited"} => closing = "closed"

Answered(m) == \E f \in Outcomes : outcome[m] = <<f>>

AnswersInv ==
  /\ \A m \in Messages : outcome[m] = <<>> \/ Answered(m)
  /\ \A e \in Logs : logFate[e] = <<"sent">> => e \in InProducer \/ Answered(e)

(* Nothing is sent on the closed Input, and nothing turns up in a result   *)
(* channel but what was in flight.                                         *)
LEMMA ClosingStep ==
  ASSUME IInv, ClosingInv, [Next]_vars
  PROVE  ClosingInv'
<1> USE DEF ClosingInv
<1>1. CASE WriteLog \/ LateGivesUp \/ LatePanics
  BY <1>1 DEF WriteLog, LateGivesUp, LatePanics, producerVars
<1>2. CASE LogWorker
  BY <1>2 DEF LogWorker, LogSends, LogTimesOut, LogPanics, SendMessage, producerVars
<1>3. CASE LateSends
  BY <1>3 DEF LateSends, SendMessage
<1>4. CASE ProducerOnly(Sarama)
  <2>1. ASSUME NEW m \in Messages, NEW k \in Kinds, Answer(m, k)
        PROVE  inputClosed = FALSE /\ inputClosed' = FALSE /\ closing' = closing
    BY <2>1 DEF Answer, IInv, ProducerInv, ProducerTypeOK
  <2> QED
    BY <1>4, <2>1 DEF ProducerOnly, Sarama, InputCloses
<1>5. ASSUME NEW m \in Messages, NEW k \in Kinds, NEW f, Take(m, k, f)
      PROVE  /\ results'["error"] \subseteq results["error"]
             /\ results'["success"] \subseteq results["success"]
  BY <1>5 DEF Take, Kinds, IInv, ProducerInv, ProducerTypeOK
<1>6. CASE \E k \in Kinds : ProducerOnly(Handler(k))
  BY <1>5, <1>6 DEF ProducerOnly, Handler, Handle, HandlerStops
<1>7. CASE ProducerClose
  <2>1. CASE CloseReads
    BY <1>5, <1>7, <2>1 DEF ProducerClose, CloseReads
  <2>2. CASE CloseDone
    BY <1>7, <2>2 DEF ProducerClose, CloseDone, CloseGoes, Kinds
  <2>3. CASE CloseCancels \/ CloseAsks \/ CloseReturns
    BY <1>7, <2>3 DEF ProducerClose, CloseCancels, CloseAsks, CloseReturns, CloseGoes
  <2> QED
    BY <1>7, <2>1, <2>2, <2>3 DEF ProducerClose, Close
<1>8. CASE StartsSync \/ SyncOfClone \/ SyncTimesOut \/ Exits
  BY <1>8 DEF StartsSync, SyncOfClone, SyncTimesOut, Exits, MainGoes, producerVars
<1>9. CASE UNCHANGED vars
  BY <1>9 DEF vars, producerVars
<1> QED
  BY <1>1, <1>2, <1>3, <1>4, <1>6, <1>7, <1>8, <1>9 DEF Next, LateWorker, Main, AtRest

(* A message leaves sarama by its result only.                             *)
LEMMA AnswersStay ==
  ASSUME IInv, AnswersInv, ProducerMoves
  PROVE  /\ \A m \in Messages : outcome'[m] = <<>> \/ Answered(m)'
         /\ \A m \in Messages : m \in InProducer \/ Answered(m)
                              => m \in InProducer' \/ Answered(m)'
<1>1. outcome \in [Messages -> Seq(Outcomes)]
  BY DEF IInv, ProducerInv, ProducerTypeOK
<1>2. CASE UNCHANGED <<InProducer, outcome>>
  BY <1>2 DEF AnswersInv, Answered
<1>3. CASE P!Next
  <2>1. PICK m \in Messages : P!Accept(m) \/ \E f \in Outcomes : P!Leave(m, f)
    BY <1>3 DEF P!Next
  <2>2. CASE P!Accept(m)
    BY <2>2 DEF P!Accept, AnswersInv, Answered
  <2>3. ASSUME NEW f \in Outcomes, P!Leave(m, f)
        PROVE  /\ \A n \in Messages : outcome'[n] = <<>> \/ Answered(n)'
               /\ \A n \in Messages : n \in InProducer \/ Answered(n)
                                    => n \in InProducer' \/ Answered(n)'
    <3>1. outcome' = [outcome EXCEPT ![m] = <<f>>] /\ InProducer' = InProducer \ {m}
      BY <2>3 DEF P!Leave
    <3>2. Answered(m)'
      BY <1>1, <3>1 DEF Answered
    <3>3. \A n \in Messages : n # m => outcome'[n] = outcome[n]
      BY <1>1, <3>1
    <3> QED
      BY <3>1, <3>2, <3>3 DEF AnswersInv, Answered
  <2> QED
    BY <2>1, <2>2, <2>3
<1> QED
  BY <1>2, <1>3 DEF ProducerMoves

(* What the log core has sent by this step, sarama has.                    *)
LEMMA SentIsTaken ==
  ASSUME IInv, [Next]_vars, NEW e \in Logs, logFate[e] # <<"sent">>, logFate'[e] = <<"sent">>
  PROVE  e \in InProducer'
<1>1. CASE LogSends
  <2>1. PICK d : d = Head(logBatch)
    OBVIOUS
  <2>2. SendMessage(d) /\ LogFinish("sent")
    BY <1>1, <2>1 DEF LogSends
  <2>3. L!Leave(d, "sent") /\ d \in Logs
    BY <2>1, <2>2, FinishStep DEF IInv
  <2>4. d = e
    BY <2>3, OnlyOneFate DEF IInv, LogInv
  <2> QED
    BY <2>2, <2>4 DEF SendMessage, InProducer
<1>2. CASE LogTimesOut
  <2>1. PICK d : d = Head(logBatch)
    OBVIOUS
  <2>2. L!Leave(d, "timedOut") /\ d \in Logs
    BY <1>2, <2>1, FinishStep DEF IInv, LogTimesOut
  <2>3. logFate'[e] = logFate[e] \/ logFate'[e] = <<"timedOut">>
    BY <2>2, OnlyOneFate DEF IInv, LogInv
  <2>4. <<"timedOut">> # <<"sent">>
    OBVIOUS
  <2> QED
    BY <2>3, <2>4
<1>3. CASE WriteLog
  <2>1. PICK d \in Logs : NextLog(d) /\ LogWrite(d)
    BY <1>3 DEF WriteLog
  <2>2. L!Accept(d) \/ L!Refuse(d, "dropped")
    BY <2>1, WriteStep DEF IInv
  <2>3. logFate'[e] = logFate[e] \/ logFate'[e] = <<"dropped">>
    BY <2>2, OnlyOneFate DEF L!Accept, IInv, LogInv
  <2>4. <<"dropped">> # <<"sent">>
    OBVIOUS
  <2> QED
    BY <2>3, <2>4
<1>4. CASE UNCHANGED logFate
  BY <1>4
<1> QED
  BY <1>1, <1>2, <1>3, <1>4
     DEF Next, LogWorker, LogReceive, LogTick, LogPanics, LateWorker, LateSends, LateGivesUp,
         LatePanics, ProducerOnly, StartsSync, Main, SyncOfClone, SyncTimesOut, ProducerClose,
         Exits, MainGoes, AtRest, vars, logVars

LEMMA AnswersStep ==
  ASSUME IInv, AnswersInv, [Next]_vars
  PROVE  AnswersInv'
<1>1. ProducerMoves
  BY StepInv DEF Good
<1>2. ASSUME NEW e \in Logs, logFate'[e] = <<"sent">>
      PROVE  e \in InProducer' \/ Answered(e)'
  <2>1. CASE logFate[e] = <<"sent">>
    BY <1>1, <2>1, AnswersStay, LateAssumption DEF AnswersInv
  <2>2. CASE logFate[e] # <<"sent">>
    BY <1>2, <2>2, SentIsTaken
  <2> QED
    BY <2>1, <2>2
<1> QED
  BY <1>1, <1>2, AnswersStay DEF AnswersInv

(* Once Producer.Close has returned (producer.go:210, 213), sarama has no  *)
(* result left: each entry the log core has sent has one.                  *)
THEOREM SentIsAlwaysAnswered == Spec => []SentIsAnswered
<1>1. Init => ClosingInv /\ AnswersInv
  <2> SUFFICES ASSUME Init PROVE ClosingInv /\ AnswersInv
    OBVIOUS
  <2>1. <<"sent">> # <<>>
    OBVIOUS
  <2> QED
    BY <2>1, LateAssumption
       DEF Init, ProducerInit, LogInit, ClosingInv, AnswersInv
<1>2. IInv /\ ClosingInv /\ AnswersInv /\ [Next]_vars => ClosingInv' /\ AnswersInv'
  BY ClosingStep, AnswersStep
<1>3. IInv /\ ClosingInv /\ AnswersInv => SentIsAnswered
  <2> SUFFICES ASSUME IInv, ClosingInv, AnswersInv, mpc \in {"lastSync", "exited"}
               PROVE  /\ InProducer = {}
                      /\ \A e \in Logs : logFate[e] = <<"sent">> => Len(outcome[e]) = 1
    BY DEF SentIsAnswered
  <2>1. InProducer = {}
    BY DEF ClosingInv, InProducer
  <2>2. ASSUME NEW e \in Logs, logFate[e] = <<"sent">> PROVE Len(outcome[e]) = 1
    <3>1. PICK f \in Outcomes : outcome[e] = <<f>>
      BY <2>1, <2>2 DEF AnswersInv, Answered
    <3> QED
      BY <3>1
  <2> QED
    BY <2>1, <2>2
<1> QED
  BY <1>1, <1>2, <1>3, Invariance, PTL DEF Spec
=============================================================================
