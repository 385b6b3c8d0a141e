--------------------------- MODULE Connection_proofs ---------------------------
(* Safety of HSDGWebServerConnection for every client, every response and     *)
(* every length of headers, bodies and reads.                                 *)
EXTENDS Connection, SequenceTheorems, TLAPS

-----------------------------------------------------------------------------
(* What the helpers of the completion blocks do.                            *)

\* The request goes to its handler, is aborted, or its response is sent.
Proceeds ==
    /\ stage' \in {"writeAbort", "handler", "writeHeaders"}
    /\ response' \in Response \union {NoResponse}
    /\ reader' \in {"unopened", "open", "closed"}
    /\ reader' = "open" => stage' = "writeHeaders"
    /\ stage' = "writeHeaders" =>
          response' # NoResponse /\ (SendsBody(response') <=> reader' = "open")

\* An aborted request leaves its response alone.
LEMMA AbortProceeds ==
  ASSUME TypeOK, reader # "open", AbortRequest, UNCHANGED <<response, reader>>
  PROVE  Proceeds
BY DEF Proceeds, AbortRequest, TypeOK

\* _finishProcessingRequest: opens the body of just the responses that send one.
LEMMA FinishProceeds ==
  ASSUME TypeOK, reader # "open", NEW r \in Response \union {NoResponse},
         FinishProcessingRequest(r)
  PROVE  Proceeds
<1> DEFINE o == OverrideResponse(r)
<1>1. o \in Response \union {NoResponse} /\ (o # NoResponse => o.hasBody \in BOOLEAN)
  BY DEF OverrideResponse, Response
<1> HIDE DEF o
<1>2. CASE AbortRequest /\ UNCHANGED <<response, reader>>
  BY <1>2, AbortProceeds
<1>3. CASE /\ o # NoResponse
           /\ reader' = IF SendsBody(o) THEN "open" ELSE reader
           /\ response' = o
           /\ stage' = "writeHeaders"
  BY <1>1, <1>3 DEF Proceeds, TypeOK
<1> QED
  BY <1>2, <1>3 DEF FinishProcessingRequest, o

\* So does a request that is to be processed.
LEMMA StartProceeds ==
  ASSUME TypeOK, reader # "open", StartProcessingRequest
  PROVE  Proceeds
<1>1. CASE stage' = "handler" /\ UNCHANGED <<response, reader>>
  BY <1>1 DEF Proceeds, TypeOK
<1>2. CASE FinishProcessingRequest([hasBody |-> FALSE, chunked |-> FALSE, fresh |-> FALSE])
  BY <1>2, FinishProceeds DEF Response
<1> QED
  BY <1>1, <1>2 DEF StartProcessingRequest

\* And one whose writer is closed.
LEMMA CloseProceeds ==
  ASSUME TypeOK, reader # "open", CloseWriter
  PROVE  Proceeds /\ writer' = "closed"
BY AbortProceeds, StartProceeds DEF CloseWriter

\* A body that is not chunked is all content, written as far as it was read.
LEMMA SizedDelivered ==
  ASSUME NEW n \in Nat, ~request.chunked, client' = client, written' = [i \in 1..n |-> i]
  PROVE  DeliveredInOrder'
<1>1. Len(written') = n /\ \A i \in 1..n : written'[i] = i
  OBVIOUS
<1>2. ASSUME NEW i \in 1..n
      PROVE  (IF i = 1 THEN 0 ELSE written'[i - 1]) = i - 1
  BY <1>1
<1>3. \A i \in 1..n : (i - 1) + 1..written'[i] - 1 = {}
  BY <1>1
<1> QED
  BY <1>1, <1>2, <1>3 DEF DeliveredInOrder, Content, request

\* Appending the content of the chunk behind the last one written.
LEMMA ChunkDelivered ==
  ASSUME DeliveredInOrder, written \in Seq(Nat), client' = client, NEW p \in Nat,
         p = (IF written = <<>> THEN 0 ELSE written[Len(written)]),
         written' = Append(written, p + 2),
         ~Content(p + 1), Content(p + 2)
  PROVE  DeliveredInOrder'
<1> DEFINE n == Len(written)
           Before(w, i) == IF i = 1 THEN 0 ELSE w[i - 1]
<1>1. n \in Nat /\ Len(written') = n + 1 /\ written'[n + 1] = p + 2
  OBVIOUS
<1>2. \A i \in 1..n : written'[i] = written[i] /\ Before(written', i) = Before(written, i)
  BY <1>1
<1>3. Before(written', n + 1) = p
  BY <1>1
<1>4. \A j \in Nat : Content(j)' = Content(j)
  BY DEF Content, request
<1>5. ASSUME NEW i \in 1..(n + 1)
      PROVE  /\ Before(written', i) < written'[i] /\ Content(written'[i])
             /\ \A j \in (Before(written', i) + 1)..(written'[i] - 1) : ~Content(j)
  <2>1. CASE i \in 1..n
    BY <1>2, <2>1 DEF DeliveredInOrder
  <2>2. CASE i = n + 1
    <3>1. p + 1..(p + 2) - 1 = {p + 1}
      OBVIOUS
    <3> QED
      BY <1>1, <1>3, <2>2, <3>1
  <2> QED
    BY <1>1, <2>1, <2>2
<1>6. \A i \in 1..(n + 1) : Before(written', i) \in Nat /\ written'[i] \in Nat
  BY <1>1, <1>2, <1>3
<1> QED
  BY <1>1, <1>4, <1>5, <1>6 DEF DeliveredInOrder, Content, request

-----------------------------------------------------------------------------
(* The invariant, one lemma per completion block.                           *)

\* What TypeOK says of the data that the steps compute with.
LEMMA Shapes ==
  ASSUME TypeOK
  PROVE  /\ HeaderLen \in Nat \ {0} /\ Len(client.body) \in Nat
         /\ client.body \in Seq(Token)
         /\ sent \in Nat /\ sent <= HeaderLen + Len(client.body)
         /\ read \in Nat /\ read <= sent
         /\ request.length \in Nat
         /\ request.chunked \in BOOLEAN /\ request.head \in BOOLEAN
<1>1. client \in [request: Request, body: Seq(Token)]
  BY ClientsAssumption DEF TypeOK
<1>2. request \in Request /\ client.body \in Seq(Token)
  BY <1>1 DEF request
<1>3. Len(client.body) \in Nat /\ HeaderLen \in Nat \ {0}
  BY <1>2, LengthsAssumption
<1>4. Total \in Nat /\ Total = HeaderLen + Len(client.body)
  BY <1>3 DEF Total
<1> QED
  BY <1>2, <1>3, <1>4 DEF TypeOK, Request

\* A request on its way to its handler, to an error or to its response keeps
\* the invariant, provided that its body was delivered properly.
LEMMA ProceedStep ==
  ASSUME IInv, Proceeds, stage # "closed",
         writer' \in {"unopened", "closed"}, out' \in {<<>>, <<"continue">>},
         UNCHANGED <<client, lifeVars>>,
         TypeOK', DeliveredInOrder', ContentLengthRespected'
  PROVE  IInv'
<1>1. stage' \in {"writeAbort", "handler", "writeHeaders"}
  BY DEF Proceeds
<1>2. LifeOK' /\ WriterReleased' /\ HeadersOK' /\ StatusOK' /\ ChunkedBodyOK'
  BY <1>1 DEF IInv, LifeOK, lifeVars, WriterReleased, HeadersOK, StatusOK, ChunkedBodyOK
<1>3. ReaderReleased' /\ SizedBodyOK'
  BY <1>1 DEF Proceeds, ReaderReleased, SizedBodyOK
<1>4. SendsBody(response') <=> SendsBody(response)'
  BY DEF SendsBody, request
<1>5. DataOK'
  BY <1>1, <1>4 DEF Proceeds, DataOK
<1>6. AnswerShape'
  <2>1. Len(out') \in 0..1 /\ \A i \in 1..Len(out') : i = 1 /\ out'[i] = "continue"
    OBVIOUS
  <2> QED
    BY <2>1 DEF AnswerShape
<1> QED
  BY <1>2, <1>3, <1>5, <1>6 DEF IInv

\* Before the status, nothing but the 100-continue line is out.
LEMMA ShortOut ==
  ASSUME NEW o \in {<<>>, <<"continue">>}
  PROVE  /\ o \in Seq({"continue", "status", "data", "last"})
         /\ Len(o) \in 0..1 /\ \A i \in 1..Len(o) : i = 1 /\ o[i] = "continue"
<1>1. CASE o = <<>>
  BY <1>1
<1>2. CASE o = <<"continue">>
  BY <1>2
<1> QED
  BY <1>1, <1>2

\* The places of the units just read are places of the body.
LEMMA LastInBody ==
  ASSUME TypeOK, NEW n \in Nat, read' \in Nat, read' <= sent, HeaderLen + n <= read'
  PROVE  /\ Last(n) \in Seq(1..Len(client.body)) /\ Len(Last(n)) = n
         /\ \A i \in 1..n : Last(n)[i] = read' - HeaderLen - n + i
<1>1. \A i \in 1..n : read' - HeaderLen - n + i \in 1..Len(client.body)
  BY Shapes
<1>2. Last(n) \in [1..n -> 1..Len(client.body)]
  BY <1>1 DEF Last
<1> QED
  BY <1>2 DEF Last

\* Opening the body writer, with the data that came with the headers.
LEMMA ReadBodyStep ==
  ASSUME IInv, ReadBody, stage \in {"readHeaders", "writeContinue"},
         read' \in Nat, HeaderLen <= read', read' <= sent, ExtraFits,
         out' \in {<<>>, <<"continue">>}, UNCHANGED <<streamVars, lifeVars>>
  PROVE  IInv'
<1> USE DEF streamVars, lifeVars, bodyVars
<1> DEFINE extra == read' - HeaderLen
<1>1. /\ TypeOK /\ LifeOK /\ writer = "unopened" /\ written = <<>> /\ parsed = 0
      /\ reader # "open" /\ stage # "closed"
  BY DEF IInv, HeadersOK, ReaderReleased
<1>2. extra \in Nat /\ read' \in 0..sent
  BY <1>1, Shapes
<1>3. request' = request /\ Total' = Total
  BY DEF request, Total
<1>4. out' \in Seq({"continue", "status", "data", "last"})
  BY ShortOut
<1>5. /\ Last(extra) \in Seq(1..Len(client.body)) /\ Len(Last(extra)) = extra
      /\ Last(extra) = [i \in 1..extra |-> i]
  <2>1. \A i \in 1..extra : read' - HeaderLen - extra + i = i
    BY <1>1, <1>2, Shapes
  <2>2. Last(extra) \in Seq(1..Len(client.body)) /\ Len(Last(extra)) = extra
    <3>1. HeaderLen + extra <= read'
      BY <1>1, Shapes
    <3> QED
      BY <1>1, <1>2, <3>1, LastInBody
  <2>3. Last(extra) = [i \in 1..extra |-> i]
    BY <2>1 DEF Last
  <2> QED
    BY <2>2, <2>3
<1>7. ASSUME AbortRequest, UNCHANGED <<parsed, written, response, reader>>,
             writer' \in {"unopened", "closed"}
      PROVE  IInv'
  <2>1. Proceeds
    BY <1>1, <1>7, AbortProceeds
  <2>2. TypeOK'
    BY <1>1, <1>2, <1>3, <1>4, <1>7, <2>1 DEF TypeOK, AbortRequest, Stage
  <2>3. DeliveredInOrder' /\ ContentLengthRespected'
    BY <1>1, <1>7, Shapes, <1>3 DEF DeliveredInOrder, ContentLengthRespected
  <2> QED
    BY <1>1, <1>7, <2>1, <2>2, <2>3, ProceedStep
<1>8. ASSUME ~request.chunked, ReadBodyWithLength
      PROVE  IInv'
  <2>1. CASE AbortRequest /\ UNCHANGED <<bodyVars, response, reader>>
    BY <1>1, <1>7, <2>1
  <2>2. CASE /\ writer' = "closed" /\ AbortRequest
             /\ UNCHANGED <<parsed, written, response, reader>>
    BY <1>7, <2>2
  <2>3. ASSUME written' = Last(extra), UNCHANGED parsed
        PROVE  /\ DeliveredInOrder' /\ ContentLengthRespected'
               /\ written' \in Seq(1..Len(client.body)) /\ parsed' \in 0..Len(client.body)
    <3>1. extra <= request.length
      BY <1>8 DEF ExtraFits
    <3> QED
      BY <1>1, <1>2, <1>3, <1>5, <1>8, <2>3, <3>1, SizedDelivered DEF ContentLengthRespected, TypeOK
  <2>4. CASE /\ written' = Last(extra) /\ UNCHANGED parsed
             /\ extra < request.length
             /\ writer' = "open" /\ stage' = "readBody" /\ UNCHANGED <<response, reader>>
    <3>1. TypeOK'
      BY <1>1, <1>2, <1>3, <1>4, <2>3, <2>4 DEF TypeOK, Stage
    <3>2. LifeOK' /\ ReaderReleased' /\ WriterReleased' /\ HeadersOK' /\ StatusOK'
          /\ ChunkedBodyOK' /\ DataOK'
      BY <1>1, <2>4 DEF LifeOK, ReaderReleased, WriterReleased, HeadersOK, StatusOK,
                        ChunkedBodyOK, DataOK
    <3>3. SizedBodyOK'
      BY <1>2, <1>3, <1>5, <1>8, <2>3, <2>4, Shapes, <1>1 DEF SizedBodyOK, BodyRead
    <3>4. AnswerShape'
      <4>1. Len(out') \in 0..1 /\ \A i \in 1..Len(out') : i = 1 /\ out'[i] = "continue"
        BY ShortOut
      <4> QED
        BY <4>1 DEF AnswerShape
    <3> QED
      BY <2>3, <2>4, <3>1, <3>2, <3>3, <3>4 DEF IInv
  <2>5. CASE written' = Last(extra) /\ UNCHANGED parsed /\ CloseWriter
    <3>1. Proceeds /\ writer' = "closed"
      BY <1>1, <2>5, CloseProceeds
    <3>2. TypeOK'
      BY <1>1, <1>2, <1>3, <1>4, <2>3, <2>5, <3>1 DEF TypeOK, Stage, Proceeds
    <3> QED
      BY <1>1, <2>3, <2>5, <3>1, <3>2, ProceedStep
  <2> QED
    BY <1>8, <2>1, <2>2, <2>4, <2>5 DEF ReadBodyWithLength
<1>9. ASSUME request.chunked, ReadChunkedBody
      PROVE  IInv'
  <2>1. CASE AbortRequest /\ UNCHANGED <<bodyVars, response, reader>>
    BY <1>1, <1>7, <2>1
  <2>2. CASE /\ writer' = "open" /\ stage' = "parseChunk"
             /\ UNCHANGED <<parsed, written, response, reader>>
    <3>1. TypeOK'
      BY <1>1, <1>2, <1>3, <1>4, <2>2 DEF TypeOK, Stage
    <3>2. LifeOK' /\ ReaderReleased' /\ WriterReleased' /\ HeadersOK' /\ StatusOK' /\ DataOK'
      BY <1>1, <2>2 DEF LifeOK, ReaderReleased, WriterReleased, HeadersOK, StatusOK, DataOK
    <3>3. SizedBodyOK' /\ ChunkedBodyOK' /\ DeliveredInOrder'
      BY <1>1, <1>2, <1>3, <1>9, <2>2 DEF SizedBodyOK, ContentLengthRespected, ChunkedBodyOK,
                                          BodyRead, DeliveredInOrder
    <3>4. AnswerShape'
      <4>1. Len(out') \in 0..1 /\ \A i \in 1..Len(out') : i = 1 /\ out'[i] = "continue"
        BY ShortOut
      <4> QED
        BY <4>1 DEF AnswerShape
    <3> QED
      BY <3>1, <3>2, <3>3, <3>4 DEF IInv
  <2> QED
    BY <1>9, <2>1, <2>2 DEF ReadChunkedBody
<1> QED
  BY <1>1, <1>8, <1>9, Shapes DEF ReadBody

\* A request that proceeds with its body as it was delivered so far.
LEMMA StopStep ==
  ASSUME IInv, Proceeds, stage # "closed",
         writer' \in {"unopened", "closed"},
         writer' # "unopened" => writer # "unopened" \/ written = <<>>,
         out' \in {<<>>, <<"continue">>}, read' \in 0..sent,
         UNCHANGED <<streamVars, parsed, written, lifeVars>>
  PROVE  IInv'
<1> USE DEF streamVars, lifeVars
<1>1. TypeOK /\ DeliveredInOrder /\ ContentLengthRespected
  BY DEF IInv, SizedBodyOK
<1>2. request' = request /\ Total' = Total
  BY DEF request, Total
<1>3. out' \in Seq({"continue", "status", "data", "last"})
  BY ShortOut
<1>4. TypeOK'
  BY <1>1, <1>2, <1>3 DEF TypeOK, Stage, Proceeds
<1>5. DeliveredInOrder'
  BY <1>1, <1>2 DEF DeliveredInOrder, Content
<1>6. ContentLengthRespected'
  BY <1>1, <1>2, Shapes DEF ContentLengthRespected
<1> QED
  BY <1>4, <1>5, <1>6, ProceedStep

LEMMA ReadHeadersStep == IInv /\ ReadHeaders => IInv'
<1> SUFFICES ASSUME IInv, ReadHeaders PROVE IInv'
  OBVIOUS
<1> USE DEF streamVars, lifeVars, bodyVars
<1>1. /\ stage = "readHeaders" /\ UNCHANGED <<streamVars, out, lifeVars>>
      /\ TypeOK /\ writer = "unopened" /\ written = <<>> /\ out = <<>>
      /\ reader # "open" /\ read \in 0..sent /\ read < HeaderLen
  BY DEF ReadHeaders, IInv, HeadersOK, ReaderReleased, TypeOK
<1>2. ASSUME AbortRequest, read' \in 0..sent, UNCHANGED <<bodyVars, response, reader>>
      PROVE  IInv'
  BY <1>1, <1>2, AbortProceeds, StopStep
<1>3. ASSUME NEW n \in 1..Total, Reads(n, Total)
      PROVE  read' \in 0..sent /\ read' = read + n
  BY <1>1, <1>3, Shapes DEF Reads, Total
<1>4. CASE ReadFails /\ AbortRequest /\ UNCHANGED <<bodyVars, response, reader>>
  BY <1>1, <1>2, <1>4 DEF ReadFails
<1>5. ASSUME NEW n \in 1..Total, Reads(n, Total), read' < HeaderLen,
             UNCHANGED <<stage, bodyVars, response, reader>>
      PROVE  IInv'
  <2>1. request' = request /\ Total' = Total
    BY <1>1 DEF request, Total
  <2>2. TypeOK'
    BY <1>1, <1>3, <1>5, <2>1 DEF TypeOK
  <2>3. LifeOK' /\ ReaderReleased' /\ WriterReleased' /\ HeadersOK' /\ StatusOK'
    BY <1>1, <1>5 DEF IInv, LifeOK, ReaderReleased, WriterReleased, HeadersOK, StatusOK
  <2>4. SizedBodyOK' /\ ChunkedBodyOK' /\ DataOK'
    BY <1>1, <1>5 DEF SizedBodyOK, ContentLengthRespected, ChunkedBodyOK, DataOK
  <2>5. DeliveredInOrder' /\ AnswerShape'
    BY <1>1, <1>5 DEF DeliveredInOrder, AnswerShape
  <2> QED
    BY <2>2, <2>3, <2>4, <2>5 DEF IInv
<1>6. ASSUME NEW n \in 1..Total, Reads(n, Total), ~(read' < HeaderLen), HeadersComplete
      PROVE  IInv'
  <2>1. read' \in 0..sent /\ HeaderLen <= read' /\ read' \in Nat /\ read' <= sent
    BY <1>1, <1>3, <1>6, Shapes
  <2>2. CASE AbortRequest /\ UNCHANGED <<bodyVars, response, reader>>
    BY <1>2, <2>1, <2>2
  <2>3. CASE stage' = "webSocketInit" /\ UNCHANGED <<bodyVars, response, reader>>
    <3>1. request' = request /\ Total' = Total
      BY <1>1 DEF request, Total
    <3>2. TypeOK'
      BY <1>1, <2>1, <2>3, <3>1 DEF TypeOK, Stage
    <3>3. LifeOK' /\ ReaderReleased' /\ WriterReleased' /\ HeadersOK' /\ StatusOK'
      BY <1>1, <2>3 DEF IInv, LifeOK, ReaderReleased, WriterReleased, HeadersOK, StatusOK
    <3>4. SizedBodyOK' /\ ChunkedBodyOK' /\ DataOK'
      BY <1>1, <2>3 DEF SizedBodyOK, ContentLengthRespected, ChunkedBodyOK, DataOK
    <3>5. DeliveredInOrder' /\ AnswerShape'
      BY <1>1, <2>3 DEF DeliveredInOrder, AnswerShape
    <3> QED
      BY <3>2, <3>3, <3>4, <3>5 DEF IInv
  <2>4. CASE StartProcessingRequest /\ UNCHANGED bodyVars
    BY <1>1, <2>1, <2>4, StartProceeds, StopStep
  <2>5. CASE ExtraFits /\ stage' = "writeContinue" /\ UNCHANGED <<bodyVars, response, reader>>
    <3>1. request' = request /\ Total' = Total
      BY <1>1 DEF request, Total
    <3>2. TypeOK'
      BY <1>1, <2>1, <2>5, <3>1 DEF TypeOK, Stage
    <3>3. LifeOK' /\ ReaderReleased' /\ WriterReleased' /\ StatusOK'
      BY <1>1, <2>5 DEF IInv, LifeOK, ReaderReleased, WriterReleased, StatusOK
    <3>4. SizedBodyOK' /\ ChunkedBodyOK' /\ DataOK'
      BY <1>1, <2>5 DEF SizedBodyOK, ContentLengthRespected, ChunkedBodyOK, DataOK
    <3>5. DeliveredInOrder' /\ AnswerShape'
      BY <1>1, <2>5 DEF DeliveredInOrder, AnswerShape
    <3>6. HeadersOK'
      BY <1>1, <2>1, <2>5, <3>1 DEF IInv, HeadersOK, ExtraFits, BodyRead
    <3> QED
      BY <3>2, <3>3, <3>4, <3>5, <3>6 DEF IInv
  <2>6. CASE ExtraFits /\ ReadBody
    BY <1>1, <2>1, <2>6, ReadBodyStep
  <2> QED
    BY <1>6, <2>2, <2>3, <2>4, <2>5, <2>6 DEF HeadersComplete
<1> QED
  BY <1>4, <1>5, <1>6 DEF ReadHeaders

LEMMA WriteContinueStep == IInv /\ WriteContinue => IInv'
<1> SUFFICES ASSUME IInv, WriteContinue PROVE IInv'
  OBVIOUS
<1> USE DEF streamVars, lifeVars, bodyVars
<1>1. /\ stage = "writeContinue" /\ UNCHANGED <<streamVars, read, lifeVars>>
      /\ TypeOK /\ writer = "unopened" /\ written = <<>> /\ out = <<>>
      /\ reader # "open" /\ read \in 0..sent /\ HeaderLen <= read
      /\ request.chunked \/ read - HeaderLen <= request.length
  BY DEF WriteContinue, IInv, HeadersOK, ReaderReleased, TypeOK, BodyRead
<1>2. CASE Writes("continue") /\ UNCHANGED read /\ ReadBody
  <2>1. ExtraFits
    BY <1>1 DEF ExtraFits
  <2>2. out' \in {<<>>, <<"continue">>}
    BY <1>1, <1>2 DEF Writes
  <2> QED
    BY <1>1, <1>2, <2>1, <2>2, ReadBodyStep, Shapes
<1>3. CASE WriteFails /\ stage' = "idle" /\ UNCHANGED <<read, bodyVars, response, reader>>
  <2>1. UNCHANGED out
    BY <1>3 DEF WriteFails
  <2>2. TypeOK' /\ LifeOK' /\ ReaderReleased' /\ WriterReleased' /\ HeadersOK' /\ StatusOK'
    BY <1>1, <1>3, <2>1 DEF IInv, TypeOK, Stage, Total, LifeOK, ReaderReleased, WriterReleased,
                            HeadersOK, StatusOK
  <2>3. SizedBodyOK' /\ ChunkedBodyOK' /\ DataOK'
    BY <1>1, <1>3 DEF SizedBodyOK, ContentLengthRespected, ChunkedBodyOK, DataOK
  <2>4. DeliveredInOrder' /\ AnswerShape'
    BY <1>1, <1>3, <2>1 DEF DeliveredInOrder, AnswerShape
  <2> QED
    BY <2>2, <2>3, <2>4 DEF IInv
<1> QED
  BY <1>2, <1>3 DEF WriteContinue

\* A chunk's line and content are the next two units of the body.
LEMMA ChunkUnits ==
  ASSUME IInv, stage = "parseChunk"
  PROVE  /\ Len(ChunkData) = BodyRead - parsed
         /\ BodyRead \in Nat /\ parsed \in Nat
         /\ BodyRead <= Len(client.body)
         /\ \A i \in 1..Len(ChunkData) : ChunkData[i] = client.body[parsed + i]
<1>1. TypeOK /\ HeaderLen <= read /\ parsed <= BodyRead
  BY DEF IInv, ChunkedBodyOK
<1>2. BodyRead \in Nat /\ parsed \in Nat /\ BodyRead <= Len(client.body)
  BY <1>1, Shapes DEF BodyRead, TypeOK
<1> QED
  BY <1>1, <1>2, Shapes DEF ChunkData

\* Counting on.
LEMMA CountOn ==
  ASSUME NEW S, NEW m \in Nat, NEW n \in Nat, NEW u \in Seq(S), NEW v \in Seq(S),
         Len(u) = m, \A i \in 1..m : u[i] = i,
         Len(v) = n, \A i \in 1..n : v[i] = m + i
  PROVE  /\ u \o v \in Seq(S) /\ Len(u \o v) = m + n
         /\ u \o v = [i \in 1..(m + n) |-> i]
<1>1. u \o v \in Seq(S) /\ Len(u \o v) = m + n
  BY ConcatProperties
<1>2. \A i \in 1..(m + n) : (u \o v)[i] = i
  <2>2. ASSUME NEW i \in 1..(m + n), i <= m PROVE (u \o v)[i] = i
    BY <2>2, ConcatProperties
  <2>3. ASSUME NEW i \in 1..(m + n), i > m PROVE (u \o v)[i] = i
    <3>1. i \in (m + 1)..(m + n) /\ i - m \in 1..n
      BY <2>3
    <3>2. i \in 1..(Len(u) + Len(v)) /\ ~(i <= Len(u))
      BY <2>3
    <3>3. (u \o v)[i] = v[i - Len(u)]
      BY <3>2, ConcatProperties, Zenon
    <3> QED
      BY <3>1, <3>3
  <2> QED
    BY <2>2, <2>3
<1>3. u \o v \in [1..(m + n) -> S]
  BY <1>1, LenProperties
<1> QED
  BY <1>1, <1>2, <1>3

LEMMA ReadBodyDataStep == IInv /\ ReadBodyData => IInv'
<1> SUFFICES ASSUME IInv, ReadBodyData PROVE IInv'
  OBVIOUS
<1> USE DEF streamVars, lifeVars
<1>1. /\ stage = "readBody" /\ UNCHANGED <<streamVars, parsed, out, lifeVars>>
      /\ TypeOK /\ out \in {<<>>, <<"continue">>} /\ reader # "open" /\ read \in 0..sent
      /\ ~request.chunked /\ HeaderLen <= read /\ BodyRead < request.length
      /\ written = [i \in 1..BodyRead |-> i]
  BY DEF ReadBodyData, IInv, SizedBodyOK, StatusOK, ReaderReleased, TypeOK
<1>2. ASSUME CloseWriter, UNCHANGED written, read' \in 0..sent
      PROVE  IInv'
  <2>1. Proceeds /\ writer' = "closed"
    BY <1>1, <1>2, CloseProceeds
  <2>2. TypeOK'
    BY <1>1, <1>2, <2>1, Shapes DEF TypeOK, Stage, Proceeds, Total
  <2>3. DeliveredInOrder'
    BY <1>1, <1>2 DEF IInv, DeliveredInOrder, Content, request
  <2>4. ContentLengthRespected'
    <3>1. Len(written) <= request.length
      BY <1>1, Shapes DEF BodyRead
    <3> QED
      BY <1>1, <1>2, <3>1 DEF ContentLengthRespected, request
  <2> QED
    BY <1>1, <2>1, <2>2, <2>3, <2>4, ProceedStep
<1>3. CASE ReadFails /\ CloseWriter /\ UNCHANGED written
  BY <1>1, <1>2, <1>3 DEF ReadFails
<1>4. ASSUME NEW n \in 1..(request.length - BodyRead), Reads(n, request.length - BodyRead)
      PROVE  /\ read' \in 0..sent /\ read' = read + n
             /\ read' - HeaderLen <= request.length /\ n \in Nat
  BY <1>1, <1>4, Shapes DEF Reads, BodyRead
<1>5. ASSUME NEW n \in 1..(request.length - BodyRead), Reads(n, request.length - BodyRead),
             written' = written \o Last(n)
      PROVE  /\ written' = [i \in 1..(read' - HeaderLen) |-> i]
             /\ written' \in Seq(1..Len(client.body))
             /\ read' - HeaderLen \in Nat
  <2>1. read' \in Nat /\ read' <= sent /\ HeaderLen + n <= read' /\ read' = read + n /\ n \in Nat
    BY <1>1, <1>4, <1>5, Shapes
  <2>2. /\ Last(n) \in Seq(1..Len(client.body)) /\ Len(Last(n)) = n
        /\ \A i \in 1..n : Last(n)[i] = BodyRead + i
    BY <1>1, <2>1, LastInBody, Shapes DEF BodyRead
  <2>3. BodyRead \in Nat /\ read' - HeaderLen = BodyRead + n
    BY <1>1, <2>1, Shapes DEF BodyRead
  <2>4. written \in Seq(1..Len(client.body)) /\ Len(written) = BodyRead
        /\ \A i \in 1..BodyRead : written[i] = i
    BY <1>1, <2>3 DEF TypeOK
  <2>5. written' \in Seq(1..Len(client.body)) /\ written' = [i \in 1..(BodyRead + n) |-> i]
    <3> DEFINE S == 1..Len(client.body)
               u == written
               v == Last(n)
               m == BodyRead
    <3>1. /\ m \in Nat /\ n \in Nat /\ u \in Seq(S) /\ v \in Seq(S)
          /\ Len(u) = m /\ \A i \in 1..m : u[i] = i
          /\ Len(v) = n /\ \A i \in 1..n : v[i] = m + i
      BY <2>1, <2>2, <2>3, <2>4
    <3> HIDE DEF S, u, v, m
    <3>2. u \o v \in Seq(S) /\ u \o v = [i \in 1..(m + n) |-> i]
      BY <3>1, CountOn
    <3> QED
      BY <1>5, <3>2 DEF S, u, v, m
  <2> QED
    BY <2>1, <2>3, <2>5
<1>6. ASSUME NEW n \in 1..(request.length - BodyRead), Reads(n, request.length - BodyRead),
             written' = written \o Last(n)
      PROVE  DeliveredInOrder' /\ ContentLengthRespected'
  <2> DEFINE m == read' - HeaderLen
  <2>1. m \in Nat /\ written' = [i \in 1..m |-> i] /\ m <= request.length
    BY <1>4, <1>5, <1>6
  <2>2. Len(written') = m
    BY <2>1
  <2> HIDE DEF m
  <2>3. DeliveredInOrder'
    BY <1>1, <2>1, SizedDelivered
  <2>4. ContentLengthRespected'
    BY <1>1, <2>1, <2>2 DEF ContentLengthRespected, request
  <2> QED
    BY <2>3, <2>4
<1>7. ASSUME NEW n \in 1..(request.length - BodyRead), Reads(n, request.length - BodyRead),
             written' = written \o Last(n), read' - HeaderLen < request.length,
             UNCHANGED <<stage, writer, response, reader>>
      PROVE  IInv'
  <2>1. TypeOK'
    BY <1>1, <1>4, <1>5, <1>7 DEF TypeOK, Total
  <2>2. LifeOK' /\ ReaderReleased' /\ WriterReleased' /\ HeadersOK' /\ StatusOK'
    BY <1>1, <1>7 DEF IInv, LifeOK, ReaderReleased, WriterReleased, HeadersOK, StatusOK
  <2>3. SizedBodyOK'
    <3>1. read' >= HeaderLen /\ BodyRead' = read' - HeaderLen /\ request' = request
      BY SMTT(20), <1>1, <1>5, <1>7, <1>4, Shapes DEF BodyRead, request
    <3> QED
      BY <1>1, <1>5, <1>6, <1>7, <3>1 DEF SizedBodyOK
  <2>4. ChunkedBodyOK' /\ DataOK' /\ AnswerShape'
    BY <1>1, <1>7 DEF IInv, ChunkedBodyOK, DataOK, AnswerShape, request
  <2> QED
    BY <1>6, <1>7, <2>1, <2>2, <2>3, <2>4 DEF IInv
<1>8. ASSUME NEW n \in 1..(request.length - BodyRead), Reads(n, request.length - BodyRead),
             written' = written \o Last(n), CloseWriter
      PROVE  IInv'
  <2>1. Proceeds /\ writer' = "closed"
    BY <1>1, <1>8, CloseProceeds
  <2>2. TypeOK'
    BY <1>1, <1>4, <1>5, <1>8, <2>1 DEF TypeOK, Stage, Proceeds, Total
  <2> QED
    BY <1>1, <1>6, <1>8, <2>1, <2>2, ProceedStep
<1> QED
  BY <1>2, <1>3, <1>4, <1>7, <1>8 DEF ReadBodyData

LEMMA ParseChunkStep == IInv /\ ParseChunk => IInv'
<1> SUFFICES ASSUME IInv, ParseChunk PROVE IInv'
  OBVIOUS
<1> USE DEF streamVars, lifeVars
<1>1. /\ stage = "parseChunk" /\ UNCHANGED <<streamVars, read, out, lifeVars>>
      /\ TypeOK /\ out \in {<<>>, <<"continue">>} /\ reader # "open" /\ read \in 0..sent
      /\ request.chunked /\ HeaderLen <= read /\ parsed <= BodyRead
      /\ parsed = IF written = <<>> THEN 0 ELSE written[Len(written)]
      /\ DeliveredInOrder /\ request' = request /\ Total' = Total
  BY DEF ParseChunk, IInv, ChunkedBodyOK, StatusOK, ReaderReleased, TypeOK, request, Total
<1>2. CASE CloseWriter /\ UNCHANGED <<parsed, written>>
  <2>1. Proceeds /\ writer' = "closed"
    BY <1>1, <1>2, CloseProceeds
  <2>2. TypeOK'
    BY <1>1, <1>2, <2>1 DEF TypeOK, Stage, Proceeds
  <2>3. DeliveredInOrder' /\ ContentLengthRespected'
    BY <1>1, <1>2 DEF DeliveredInOrder, Content, ContentLengthRespected
  <2> QED
    BY <1>1, <1>2, <2>1, <2>2, <2>3, ProceedStep
<1>3. ASSUME stage' \in {"parseChunk", "readChunk", "spin"}, UNCHANGED <<writer, response, reader>>,
             parsed' \in 0..Len(client.body), written' \in Seq(1..Len(client.body)),
             DeliveredInOrder', stage' # "spin" => ChunkedBodyOK'
      PROVE  IInv'
  <2>1. TypeOK'
    BY <1>1, <1>3 DEF TypeOK, Stage
  <2>2. LifeOK' /\ ReaderReleased' /\ WriterReleased' /\ HeadersOK' /\ StatusOK'
    BY <1>1, <1>3 DEF IInv, LifeOK, ReaderReleased, WriterReleased, HeadersOK, StatusOK
  <2>3. SizedBodyOK' /\ ChunkedBodyOK' /\ DataOK' /\ AnswerShape'
    BY <1>1, <1>3 DEF IInv, SizedBodyOK, ContentLengthRespected, ChunkedBodyOK, DataOK, AnswerShape
  <2> QED
    BY <1>3, <2>1, <2>2, <2>3 DEF IInv
<1>4. ASSUME stage' \in {"readChunk", "spin"}, UNCHANGED <<parsed, writer, written, response, reader>>
      PROVE  IInv'
  <2>1. DeliveredInOrder' /\ ChunkedBodyOK'
    BY <1>1, <1>4 DEF DeliveredInOrder, Content, ChunkedBodyOK, BodyRead
  <2>2. parsed' \in 0..Len(client.body) /\ written' \in Seq(1..Len(client.body))
    BY <1>1, <1>4 DEF TypeOK
  <2> QED
    BY <1>3, <1>4, <2>1, <2>2
<1>5. ASSUME ChunkArrived, ChunkData[2] = "data", parsed' = parsed + 2,
             written' = Append(written, parsed + 2), UNCHANGED <<stage, writer, response, reader>>
      PROVE  IInv'
  <2>1. /\ parsed \in Nat /\ BodyRead \in Nat /\ parsed + 2 <= BodyRead
        /\ BodyRead <= Len(client.body) /\ Len(client.body) \in Nat
        /\ client.body[parsed + 1] = "size" /\ client.body[parsed + 2] = "data"
    BY SMTT(20), <1>1, <1>5, ChunkUnits, Shapes DEF ChunkArrived
  <2>2. parsed + 2 \in 1..Len(client.body)
    BY <2>1
  <2>3. written' \in Seq(1..Len(client.body)) /\ written \in Seq(Nat)
        /\ Len(written') = Len(written) + 1 /\ Len(written) \in Nat
        /\ written'[Len(written')] = parsed + 2
    BY <1>1, <1>5, <2>2 DEF TypeOK
  <2>4. ~Content(parsed + 1) /\ Content(parsed + 2)
    BY <1>1, <2>1 DEF Content
  <2>5. DeliveredInOrder'
    BY <1>1, <1>5, <2>1, <2>3, <2>4, ChunkDelivered
  <2>6. ChunkedBodyOK'
    <3>1. BodyRead' = BodyRead /\ written' # <<>>
      BY <1>1, <2>3 DEF BodyRead
    <3> QED
      BY <1>1, <1>5, <2>1, <2>3, <3>1 DEF ChunkedBodyOK
  <2> QED
    BY <1>1, <1>3, <1>5, <2>1, <2>3, <2>5, <2>6
<1> QED
  BY <1>1, <1>2, <1>4, <1>5 DEF ParseChunk

LEMMA ReadChunkStep == IInv /\ ReadChunk => IInv'
<1> SUFFICES ASSUME IInv, ReadChunk PROVE IInv'
  OBVIOUS
<1> USE DEF streamVars, lifeVars
<1>1. /\ stage = "readChunk" /\ UNCHANGED <<streamVars, parsed, written, out, lifeVars>>
      /\ TypeOK /\ out \in {<<>>, <<"continue">>} /\ reader # "open" /\ read \in 0..sent
      /\ request.chunked /\ HeaderLen <= read /\ parsed <= BodyRead
      /\ request' = request /\ Total' = Total
  BY DEF ReadChunk, IInv, ChunkedBodyOK, StatusOK, ReaderReleased, TypeOK, request, Total
<1>2. CASE ReadFails /\ CloseWriter
  <2>1. Proceeds /\ writer' = "closed"
    BY <1>1, <1>2, CloseProceeds
  <2>2. TypeOK'
    BY <1>1, <1>2, <2>1 DEF TypeOK, Stage, Proceeds, ReadFails
  <2>3. DeliveredInOrder' /\ ContentLengthRespected'
    BY <1>1, <1>2 DEF IInv, DeliveredInOrder, Content, ContentLengthRespected
  <2> QED
    BY <1>1, <1>2, <2>1, <2>2, <2>3, ProceedStep
<1>3. ASSUME NEW n \in 1..Total, Reads(n, Total), stage' = "parseChunk",
             UNCHANGED <<writer, response, reader>>
      PROVE  IInv'
  <2>1. read' \in 0..sent /\ read' = read + n /\ n \in Nat
    BY <1>1, <1>3, Shapes DEF Reads, Total
  <2>2. TypeOK'
    BY <1>1, <1>3, <2>1 DEF TypeOK, Stage
  <2>3. LifeOK' /\ ReaderReleased' /\ WriterReleased' /\ HeadersOK' /\ StatusOK'
    BY <1>1, <1>3 DEF IInv, LifeOK, ReaderReleased, WriterReleased, HeadersOK, StatusOK
  <2>4. SizedBodyOK' /\ DataOK' /\ AnswerShape' /\ DeliveredInOrder'
    BY <1>1, <1>3 DEF IInv, SizedBodyOK, ContentLengthRespected, DataOK, AnswerShape,
                      DeliveredInOrder, Content
  <2>5. ChunkedBodyOK'
    BY <1>1, <1>3, <2>1, Shapes DEF IInv, ChunkedBodyOK, BodyRead, TypeOK
  <2> QED
    BY <2>2, <2>3, <2>4, <2>5 DEF IInv
<1> QED
  BY <1>2, <1>3 DEF ReadChunk

-----------------------------------------------------------------------------
(* Past the body of the request, the answer.                                *)

\* What no later stage needs but TypeOK and the delivery of the body.
LEMMA AnsweringStep ==
  ASSUME IInv, UNCHANGED <<streamVars, read, bodyVars, response>>,
         stage \in {"handler", "writeAbort", "writeHeaders", "readData", "writeData", "writeLast",
                    "webSocketInit", "webSocket"},
         stage' \in {"readData", "writeData", "writeLast", "webSocket", "idle", "closed"},
         reader' \in {"unopened", "open", "closed"},
         reader' = "open" => stage' \in {"readData", "writeData", "writeLast"},
         stage' = "webSocket" => out' \in {<<>>, <<"continue">>},
         out' \in Seq({"continue", "status", "data", "last"}),
         IF stage' = "closed" THEN socket' = "closed" /\ ended' = ended + 1 ELSE UNCHANGED lifeVars,
         DataOK', AnswerShape'
  PROVE  IInv'
<1> USE DEF streamVars, bodyVars, lifeVars
<1>1. TypeOK /\ LifeOK /\ DeliveredInOrder /\ ContentLengthRespected /\ writer # "open"
  BY DEF IInv, SizedBodyOK, WriterReleased
<1>2. request' = request /\ Total' = Total
  BY DEF request, Total
<1>3. ended = 0
  BY <1>1 DEF LifeOK
<1>4. TypeOK'
  BY <1>1, <1>2, <1>3 DEF TypeOK, Stage
<1>5. LifeOK' /\ ReaderReleased' /\ WriterReleased' /\ HeadersOK' /\ StatusOK'
  BY <1>1, <1>3 DEF LifeOK, ReaderReleased, WriterReleased, HeadersOK, StatusOK
<1>6. SizedBodyOK' /\ ChunkedBodyOK' /\ DeliveredInOrder'
  BY <1>1, <1>2 DEF SizedBodyOK, ContentLengthRespected, ChunkedBodyOK, DeliveredInOrder, Content
<1> QED
  BY <1>4, <1>5, <1>6 DEF IInv

\* What is written next keeps the answer in shape.
LEMMA Appended ==
  ASSUME TypeOK, AnswerShape, UNCHANGED <<client, response>>,
         NEW what \in {"status", "data", "last"}, Writes(what),
         what = "status" => out \in {<<>>, <<"continue">>},
         what # "status" =>
            /\ ~request.head
            /\ \E i \in 1..Len(out) : out[i] = "status"
            /\ \A i \in 1..Len(out) : out[i] # "last",
         what = "last" => response.chunked
  PROVE  /\ AnswerShape' /\ out' \in Seq({"continue", "status", "data", "last"})
         /\ \E i \in 1..Len(out') : out'[i] = "status"
         /\ what # "last" => \A i \in 1..Len(out') : out'[i] # "last"
<1>1. /\ out \in Seq({"continue", "status", "data", "last"}) /\ Len(out) \in Nat
      /\ out' = Append(out, what) /\ request' = request
  BY DEF TypeOK, Writes, request
<1>2. /\ out' \in Seq({"continue", "status", "data", "last"}) /\ Len(out') = Len(out) + 1
      /\ \A i \in 1..Len(out) : out'[i] = out[i]
      /\ out'[Len(out) + 1] = what
  BY <1>1
<1>3. CASE what = "status"
  <2>1. Len(out) \in 0..1 /\ \A i \in 1..Len(out) : i = 1 /\ out[i] = "continue"
    BY <1>3, ShortOut
  <2> QED
    BY <1>1, <1>2, <1>3, <2>1 DEF AnswerShape
<1>4. CASE what # "status"
  <2>1. PICK s \in 1..Len(out) : out[s] = "status"
    BY <1>4
  <2>2. s \in 1..Len(out') /\ out'[s] = "status"
    BY <1>1, <1>2, <2>1
  <2>3. ASSUME NEW i \in 1..Len(out')
        PROVE  /\ out'[i] = "continue" => i = 1
               /\ out'[i] = "status" => \A j \in 1..(i - 1) : out'[j] = "continue"
               /\ out'[i] \in {"data", "last"} =>
                     ~request'.head /\ \E j \in 1..(i - 1) : out'[j] = "status"
               /\ out'[i] = "last" => i = Len(out') /\ response'.chunked
    <3>1. CASE i \in 1..Len(out)
      <4>1. out'[i] = out[i] /\ out[i] # "last" /\ \A j \in 1..(i - 1) : out'[j] = out[j]
        BY <1>1, <1>2, <1>4, <3>1
      <4> QED
        BY <1>1, <3>1, <4>1 DEF AnswerShape
    <3>2. CASE i = Len(out) + 1
      <4>1. out'[i] = what /\ s \in 1..(i - 1)
        BY <1>1, <1>2, <2>1, <3>2
      <4> QED
        BY <1>1, <1>2, <1>4, <2>2, <3>2, <4>1
    <3> QED
      BY <1>1, <1>2, <2>3, <3>1, <3>2
  <2>4. AnswerShape'
    BY <2>3 DEF AnswerShape
  <2>5. what # "last" => \A i \in 1..Len(out') : out'[i] # "last"
    BY <1>1, <1>2, <1>4
  <2> QED
    BY <1>2, <2>2, <2>4, <2>5
<1> QED
  BY <1>3, <1>4

\* And a failed write, or no write, changes nothing of it.
LEMMA NotAppended ==
  ASSUME TypeOK, AnswerShape, UNCHANGED <<client, response, out>>
  PROVE  AnswerShape' /\ out' \in Seq({"continue", "status", "data", "last"})
BY DEF TypeOK, AnswerShape, request

LEMMA HandlerCompletesStep == IInv /\ HandlerCompletes => IInv'
<1> SUFFICES ASSUME IInv, HandlerCompletes PROVE IInv'
  OBVIOUS
<1>1. /\ stage = "handler" /\ UNCHANGED <<streamVars, read, bodyVars, out, lifeVars>>
      /\ TypeOK /\ out \in {<<>>, <<"continue">>} /\ reader # "open" /\ read \in 0..sent
      /\ writer # "open"
  BY DEF HandlerCompletes, IInv, StatusOK, ReaderReleased, WriterReleased, TypeOK
<1>2. PICK r \in Responses : FinishProcessingRequest(r)
  BY DEF HandlerCompletes
<1>3. Proceeds
  BY <1>1, <1>2, FinishProceeds, ResponsesAssumption
<1> QED
  BY <1>1, <1>3, StopStep DEF streamVars, bodyVars, lifeVars, TypeOK

LEMMA WriteAbortStep == IInv /\ WriteAbort => IInv'
<1> SUFFICES ASSUME IInv, WriteAbort PROVE IInv'
  OBVIOUS
<1>1. /\ stage = "writeAbort" /\ stage' = "idle"
      /\ UNCHANGED <<streamVars, read, bodyVars, response, reader, lifeVars>>
      /\ Writes("status") \/ WriteFails
      /\ TypeOK /\ AnswerShape /\ out \in {<<>>, <<"continue">>} /\ reader # "open"
  BY DEF WriteAbort, IInv, StatusOK, ReaderReleased
<1>2. AnswerShape' /\ out' \in Seq({"continue", "status", "data", "last"})
  BY <1>1, Appended, NotAppended DEF WriteFails, streamVars
<1>3. DataOK'
  BY <1>1 DEF DataOK
<1> QED
  BY <1>1, <1>2, <1>3, AnsweringStep DEF TypeOK

LEMMA WriteHeadersStep == IInv /\ WriteHeaders => IInv'
<1> SUFFICES ASSUME IInv, WriteHeaders PROVE IInv'
  OBVIOUS
<1>1. /\ stage = "writeHeaders" /\ UNCHANGED <<streamVars, read, bodyVars, response>>
      /\ TypeOK /\ AnswerShape /\ out \in {<<>>, <<"continue">>}
      /\ response # NoResponse /\ (SendsBody(response) <=> reader = "open")
  BY DEF WriteHeaders, IInv, StatusOK, DataOK
<1>2. request' = request /\ (SendsBody(response)' <=> SendsBody(response))
  BY <1>1 DEF request, streamVars, SendsBody
<1>3. CASE /\ Writes("status") /\ UNCHANGED <<reader, lifeVars>>
           /\ stage' = IF SendsBody(response) THEN "readData" ELSE "idle"
  <2>1. /\ AnswerShape' /\ out' \in Seq({"continue", "status", "data", "last"})
        /\ \E i \in 1..Len(out') : out'[i] = "status"
        /\ \A i \in 1..Len(out') : out'[i] # "last"
    BY <1>1, <1>3, Appended DEF streamVars
  <2>2. DataOK'
    BY <1>1, <1>2, <1>3, <2>1 DEF DataOK
  <2> QED
    BY <1>1, <1>3, <2>1, <2>2, AnsweringStep DEF TypeOK
<1>4. CASE WriteFails /\ (IF SendsBody(response) THEN FinishBody
                          ELSE stage' = "idle" /\ UNCHANGED <<reader, lifeVars>>)
  <2>1. AnswerShape' /\ out' \in Seq({"continue", "status", "data", "last"})
    BY <1>1, <1>4, NotAppended DEF WriteFails, streamVars
  <2>2. DataOK'
    BY <1>4 DEF DataOK, FinishBody, CloseConnection
  <2> QED
    BY <1>1, <1>4, <2>1, <2>2, AnsweringStep DEF TypeOK, FinishBody, CloseConnection
<1> QED
  BY <1>3, <1>4 DEF WriteHeaders

\* The stages of the response body hold what DataOK says.
LEMMA InData ==
  ASSUME IInv, stage \in {"readData", "writeData", "writeLast"}
  PROVE  /\ TypeOK /\ AnswerShape /\ response # NoResponse /\ SendsBody(response)
         /\ reader = "open" /\ ~request.head
         /\ \E i \in 1..Len(out) : out[i] = "status"
         /\ \A i \in 1..Len(out) : out[i] # "last"
         /\ stage = "writeLast" => response.chunked
BY DEF IInv, DataOK, SendsBody

LEMMA ReadResponseDataStep == IInv /\ ReadResponseData => IInv'
<1> SUFFICES ASSUME IInv, ReadResponseData PROVE IInv'
  OBVIOUS
<1>1. stage = "readData" /\ UNCHANGED <<streamVars, read, bodyVars, response, out>>
  BY DEF ReadResponseData
<1>2. AnswerShape' /\ out' \in Seq({"continue", "status", "data", "last"})
  BY <1>1, InData, NotAppended DEF streamVars
<1>3. SendsBody(response)' <=> SendsBody(response)
  BY <1>1 DEF request, streamVars, SendsBody
<1>4. CASE /\ stage' \in {"writeData", "writeLast"} /\ UNCHANGED <<reader, lifeVars>>
           /\ stage' = "writeLast" => response.chunked
  <2>1. DataOK'
    BY <1>1, <1>3, <1>4, InData DEF DataOK
  <2> QED
    BY <1>1, <1>2, <1>4, <2>1, AnsweringStep, InData
<1>5. CASE FinishBody
  <2>1. DataOK'
    BY <1>5 DEF DataOK, FinishBody, CloseConnection
  <2> QED
    BY <1>1, <1>2, <1>5, <2>1, AnsweringStep DEF FinishBody, CloseConnection
<1> QED
  BY <1>4, <1>5 DEF ReadResponseData

LEMMA WriteResponseDataStep == IInv /\ WriteResponseData => IInv'
<1> SUFFICES ASSUME IInv, WriteResponseData PROVE IInv'
  OBVIOUS
<1>1. stage = "writeData" /\ UNCHANGED <<streamVars, read, bodyVars, response>>
  BY DEF WriteResponseData
<1>2. SendsBody(response)' <=> SendsBody(response)
  BY <1>1 DEF request, streamVars, SendsBody
<1>3. CASE Writes("data") /\ stage' = "readData" /\ UNCHANGED <<reader, lifeVars>>
  <2>1. /\ AnswerShape' /\ out' \in Seq({"continue", "status", "data", "last"})
        /\ \E i \in 1..Len(out') : out'[i] = "status"
        /\ \A i \in 1..Len(out') : out'[i] # "last"
    BY <1>1, <1>3, Appended, InData DEF streamVars
  <2>2. DataOK'
    BY <1>1, <1>2, <1>3, <2>1, InData DEF DataOK
  <2> QED
    BY <1>1, <1>3, <2>1, <2>2, AnsweringStep, InData
<1>4. CASE WriteFails /\ FinishBody
  <2>1. AnswerShape' /\ out' \in Seq({"continue", "status", "data", "last"})
    BY <1>1, <1>4, InData, NotAppended DEF WriteFails, streamVars
  <2>2. DataOK'
    BY <1>4 DEF DataOK, FinishBody, CloseConnection
  <2> QED
    BY <1>1, <1>4, <2>1, <2>2, AnsweringStep DEF FinishBody, CloseConnection
<1> QED
  BY <1>3, <1>4 DEF WriteResponseData

LEMMA WriteLastChunkStep == IInv /\ WriteLastChunk => IInv'
<1> SUFFICES ASSUME IInv, WriteLastChunk PROVE IInv'
  OBVIOUS
<1>1. /\ stage = "writeLast" /\ UNCHANGED <<streamVars, read, bodyVars, response>>
      /\ Writes("last") \/ WriteFails
      /\ FinishBody
  BY DEF WriteLastChunk
<1>2. AnswerShape' /\ out' \in Seq({"continue", "status", "data", "last"})
  BY <1>1, Appended, NotAppended, InData DEF WriteFails, streamVars
<1>3. DataOK'
  BY <1>1 DEF DataOK, FinishBody, CloseConnection
<1> QED
  BY <1>1, <1>2, <1>3, AnsweringStep DEF FinishBody, CloseConnection

LEMMA SetDelegateStep == IInv /\ SetDelegate => IInv'
<1> SUFFICES ASSUME IInv, SetDelegate PROVE IInv'
  OBVIOUS
<1>1. /\ stage = "webSocketInit" /\ stage' = "webSocket"
      /\ UNCHANGED <<streamVars, read, bodyVars, replyVars, lifeVars>>
      /\ TypeOK /\ AnswerShape /\ out \in {<<>>, <<"continue">>} /\ reader # "open"
  BY DEF SetDelegate, IInv, StatusOK, ReaderReleased
<1>2. AnswerShape' /\ out' \in Seq({"continue", "status", "data", "last"})
  BY <1>1, NotAppended DEF streamVars, replyVars
<1>3. DataOK'
  BY <1>1 DEF DataOK
<1> QED
  BY <1>1, <1>2, <1>3, AnsweringStep DEF replyVars, TypeOK

LEMMA WebSocketClosesStep == IInv /\ WebSocketCloses => IInv'
<1> SUFFICES ASSUME IInv, WebSocketCloses PROVE IInv'
  OBVIOUS
<1>1. /\ stage \in {"webSocketInit", "webSocket"} /\ socket' = "closed"
      /\ UNCHANGED <<streamVars, read, bodyVars, replyVars>>
      /\ TypeOK /\ AnswerShape /\ out \in {<<>>, <<"continue">>} /\ reader # "open"
  BY DEF WebSocketCloses, IInv, StatusOK, ReaderReleased
<1>2. AnswerShape' /\ out' \in Seq({"continue", "status", "data", "last"})
  BY <1>1, NotAppended DEF streamVars, replyVars
<1>3. CASE stage = "webSocket" /\ stage' = "closed" /\ ended' = ended + 1
  <2>1. DataOK'
    BY <1>3 DEF DataOK
  <2> QED
    BY <1>1, <1>2, <1>3, <2>1, AnsweringStep DEF replyVars, TypeOK
<1>4. CASE stage = "webSocketInit" /\ UNCHANGED <<stage, ended>>
  <2>1. request' = request /\ Total' = Total
    BY <1>1 DEF request, Total, streamVars
  <2>2. TypeOK' /\ LifeOK' /\ ReaderReleased' /\ WriterReleased' /\ HeadersOK' /\ StatusOK'
    BY <1>1, <1>4, <2>1 DEF IInv, TypeOK, LifeOK, ReaderReleased, WriterReleased, HeadersOK,
                            StatusOK, streamVars, bodyVars, replyVars
  <2>3. SizedBodyOK' /\ ChunkedBodyOK' /\ DataOK' /\ DeliveredInOrder'
    BY <1>1, <1>4, <2>1 DEF IInv, SizedBodyOK, ContentLengthRespected, ChunkedBodyOK, DataOK,
                            DeliveredInOrder, Content, streamVars, bodyVars, replyVars
  <2> QED
    BY <1>2, <2>2, <2>3 DEF IInv
<1> QED
  BY <1>3, <1>4 DEF WebSocketCloses

\* What the client does is beyond the server's state.
LEMMA ClientStep == IInv /\ Client => IInv'
<1> SUFFICES ASSUME IInv, Client PROVE IInv'
  OBVIOUS
<1>1. /\ UNCHANGED <<client, read, stage, bodyVars, replyVars, lifeVars>>
      /\ sent' \in 0..Total /\ sent <= sent' /\ peer' \in {"open", "shut", "reset"}
      /\ TypeOK
  BY Shapes DEF IInv, TypeOK, Client, ClientSends, ClientLeaves, Total
<1> USE DEF bodyVars, replyVars, lifeVars
<1>2. request' = request /\ Total' = Total /\ BodyRead' = BodyRead
  BY <1>1 DEF request, Total, BodyRead
<1>3. read \in 0..sent'
  BY <1>1, Shapes
<1>4. TypeOK'
  BY <1>1, <1>2, <1>3 DEF TypeOK
<1>5. LifeOK' /\ ReaderReleased' /\ WriterReleased' /\ HeadersOK' /\ StatusOK'
  BY <1>1, <1>2 DEF IInv, LifeOK, ReaderReleased, WriterReleased, HeadersOK, StatusOK
<1>6. SizedBodyOK' /\ ChunkedBodyOK' /\ DeliveredInOrder'
  BY <1>1, <1>2 DEF IInv, SizedBodyOK, ContentLengthRespected, ChunkedBodyOK, DeliveredInOrder,
                    Content
<1>7. DataOK' /\ AnswerShape'
  BY <1>1, <1>2 DEF IInv, DataOK, SendsBody, AnswerShape
<1> QED
  BY <1>4, <1>5, <1>6, <1>7 DEF IInv

-----------------------------------------------------------------------------
(* The theorems.                                                            *)

\* Every action of a connection keeps the invariant.
LEMMA IInvStep == IInv /\ [Next]_vars => IInv'
<1>1. IInv /\ UNCHANGED vars => IInv'
  <2> SUFFICES ASSUME IInv, UNCHANGED vars PROVE IInv'
    OBVIOUS
  <2> USE DEF vars, streamVars, bodyVars, replyVars, lifeVars
  <2>1. TypeOK' /\ LifeOK' /\ ReaderReleased' /\ WriterReleased' /\ HeadersOK' /\ StatusOK'
    BY DEF IInv, TypeOK, Total, request, BodyRead, LifeOK, ReaderReleased, WriterReleased,
           HeadersOK, StatusOK
  <2>2. SizedBodyOK' /\ ChunkedBodyOK' /\ DeliveredInOrder'
    BY DEF IInv, SizedBodyOK, ContentLengthRespected, ChunkedBodyOK, DeliveredInOrder, Content,
           request, BodyRead
  <2>3. DataOK' /\ AnswerShape'
    BY DEF IInv, DataOK, SendsBody, AnswerShape, request
  <2> QED
    BY <2>1, <2>2, <2>3 DEF IInv
<1>2. IInv /\ Reading => IInv'
  BY ReadHeadersStep, WriteContinueStep, ReadBodyDataStep, ParseChunkStep, ReadChunkStep
     DEF Reading
<1>3. IInv /\ Answering => IInv'
  BY HandlerCompletesStep, WriteAbortStep, WriteHeadersStep, ReadResponseDataStep,
     WriteResponseDataStep, WriteLastChunkStep, SetDelegateStep
     DEF Answering
<1> QED
  BY <1>1, <1>2, <1>3, ClientStep, WebSocketClosesStep DEF Next

LEMMA IInvInit == Init => IInv
<1> SUFFICES ASSUME Init PROVE IInv
  OBVIOUS
<1>1. Total \in Nat
  <2>1. client \in [request: Request, body: Seq(Token)]
    BY ClientsAssumption DEF Init
  <2>2. Len(client.body) \in Nat
    BY <2>1
  <2> QED
    BY <2>2, LengthsAssumption DEF Total
<1>2. TypeOK
  <2>1. Len(client.body) \in Nat
    BY <1>1, ClientsAssumption DEF Init
  <2> QED
    BY <1>1, <2>1 DEF Init, TypeOK, Stage
<1>3. LifeOK /\ ReaderReleased /\ WriterReleased /\ HeadersOK /\ StatusOK
  BY LengthsAssumption DEF Init, LifeOK, ReaderReleased, WriterReleased, HeadersOK, StatusOK
<1>4. SizedBodyOK /\ ChunkedBodyOK /\ DeliveredInOrder /\ DataOK /\ AnswerShape
  BY DEF Init, SizedBodyOK, ContentLengthRespected, ChunkedBodyOK, DeliveredInOrder, DataOK,
         AnswerShape
<1> QED
  BY <1>2, <1>3, <1>4 DEF IInv

\* The inductive invariant of a connection: what each pending operation relies
\* on when its completion block runs (lines 148-409, 463-692).
THEOREM Invariance == Spec => []IInv
BY IInvInit, IInvStep, PTL DEF Spec

\* The connection closes its socket and tells the server at most once
\* (closeConnection and webSocketDidClose, lines 421-457).
THEOREM EndsAtMostOnce == Spec => []EndsOnce
<1>1. IInv => EndsOnce
  BY DEF IInv, LifeOK, EndsOnce
<1> QED
  BY <1>1, Invariance, PTL

\* The body writer of the request and the body reader of the response are
\* closed as soon as their use is over, whatever fails (lines 162-290).
THEOREM BodiesReleased == Spec => []BodiesClosed
<1>1. IInv => BodiesClosed
  BY DEF IInv, BodiesClosed
<1> QED
  BY <1>1, Invariance, PTL

\* For bodies and reads of any length, the handler gets a prefix of the content
\* in order, none of it twice (lines 232-290, 526-614), and never more than the
\* Content-Length announced (lines 249, 343, 531).
THEOREM BodyDelivered == Spec => []ContentDelivered
<1>1. IInv => ContentDelivered
  BY DEF IInv, SizedBodyOK, ContentDelivered
<1> QED
  BY <1>1, Invariance, PTL

\* The client gets at most one response, in the shape HTTP gives it
\* (lines 162-230, 344-355, 648-692, 835-843).
THEOREM OneAnswer == Spec => []AnswerShape
<1>1. IInv => AnswerShape
  BY DEF IInv
<1> QED
  BY <1>1, Invariance, PTL

-----------------------------------------------------------------------------
(* HSDGWebServerConnection implements HTTPExchange.                         *)

\* The operations during which a request is received.
Receiving == {"readHeaders", "writeContinue", "readBody", "parseChunk", "readChunk", "spin"}

-----------------------------------------------------------------------------
(* The body writer is open while the body is read.                          *)

\* A part of the inductive invariant that no safety property needs.
WriterOpen == stage \in {"readBody", "parseChunk", "readChunk", "spin"} => writer = "open"

\* What is left of a step of the request once its outcome is decided: the body
\* reader is not touched, and the request is processed, answered or aborted.
Decided ==
    /\ UNCHANGED reader
    /\ stage' \in {"handler", "writeAbort", "writeHeaders"}

\* abortRequest: decides.
LEMMA AbortDecides ==
  ASSUME AbortRequest, UNCHANGED <<response, reader>>
  PROVE  Decided
BY DEF Decided, AbortRequest

\* The answer to a request that is not authorized has no body.
LEMMA StartDecides ==
  ASSUME StartProcessingRequest
  PROVE  Decided
<1> DEFINE r == [hasBody |-> FALSE, chunked |-> FALSE, fresh |-> FALSE]
<1>1. CASE stage' = "handler" /\ UNCHANGED <<response, reader>>
  BY <1>1 DEF Decided
<1>2. CASE FinishProcessingRequest(r)
  <2>1. OverrideResponse(r) = r /\ ~SendsBody(r)
    BY DEF OverrideResponse, SendsBody
  <2> QED
    BY <1>2, <2>1, AbortDecides DEF FinishProcessingRequest, Decided
<1> QED
  BY <1>1, <1>2 DEF StartProcessingRequest

\* Closing the body writer decides.
LEMMA CloseDecides ==
  ASSUME CloseWriter
  PROVE  Decided /\ writer' = "closed"
BY AbortDecides, StartDecides DEF CloseWriter

\* What a step that reads the body for the first time does to the writer.
LEMMA ReadBodyOpens ==
  ASSUME ReadBody, TypeOK
  PROVE  /\ UNCHANGED reader
         /\ \/ Decided
            \/ stage' \in {"readBody", "parseChunk"} /\ writer' = "open"
         /\ written' # written => writer' # "unopened"
<1>1. CASE request.chunked
  BY <1>1, AbortDecides DEF ReadBody, ReadChunkedBody, bodyVars, Decided
<1>2. CASE ~request.chunked
  <2>1. ReadBodyWithLength
    BY <1>2 DEF ReadBody
  <2>2. CASE AbortRequest /\ UNCHANGED <<bodyVars, response, reader>>
    BY <2>2, AbortDecides DEF bodyVars, Decided
  <2>3. CASE AbortRequest /\ UNCHANGED <<parsed, written, response, reader>>
    BY <2>3, AbortDecides DEF Decided
  <2>4. CASE writer' = "open" /\ stage' = "readBody" /\ UNCHANGED <<response, reader>>
    BY <2>4
  <2>5. CASE CloseWriter
    BY <2>5, CloseDecides DEF Decided
  <2> QED
    BY <2>1, <2>2, <2>3, <2>4, <2>5 DEF ReadBodyWithLength
<1> QED
  BY <1>1, <1>2

\* The step that completes the headers: undecided, or the body, the handler, an
\* error or the WebSocket.
LEMMA HeadersLead ==
  ASSUME HeadersComplete, TypeOK
  PROVE  /\ UNCHANGED reader
         /\ \/ Decided
            \/ stage' \in {"readBody", "parseChunk"} /\ writer' = "open"
            \/ stage' \in {"writeContinue", "webSocketInit"} /\ UNCHANGED <<writer, written>>
         /\ written' # written => writer' # "unopened"
<1>1. CASE AbortRequest /\ UNCHANGED <<bodyVars, response, reader>>
  BY <1>1, AbortDecides DEF bodyVars, Decided
<1>2. CASE stage' = "webSocketInit" /\ UNCHANGED <<bodyVars, response, reader>>
  BY <1>2 DEF bodyVars
<1>3. CASE StartProcessingRequest /\ UNCHANGED bodyVars
  BY <1>3, StartDecides DEF bodyVars, Decided
<1>4. CASE stage' = "writeContinue" /\ UNCHANGED <<bodyVars, response, reader>>
  BY <1>4 DEF bodyVars
<1>5. CASE ReadBody
  BY <1>5, ReadBodyOpens
<1> QED
  BY <1>1, <1>2, <1>3, <1>4, <1>5 DEF HeadersComplete

-----------------------------------------------------------------------------
(* Every step of the request is one of the exchange.                        *)

\* A step of the request as the exchange sees it.
ReceivingStep ==
    /\ UNCHANGED <<reader, socket, ended>>
    /\ writer = "open" => writer' # "unopened"
    /\ Len(written) <= Len(written')
    /\ \A i \in 1..Len(written) : written'[i] = written[i]
    /\ written' # written => writer' # "unopened"
    /\ out' = out \/ (out = <<>> /\ out' = <<"continue">>)
    /\ \/ Decided
       \/ stage' \in {"readHeaders", "writeContinue"} /\ UNCHANGED <<writer, written>>
       \/ stage' \in {"readBody", "parseChunk", "readChunk", "spin"} /\ writer' = "open"
       \/ stage' \in {"webSocketInit", "idle"} /\ UNCHANGED <<writer, written, out>>

\* With nothing written before, nothing is taken back.
LEMMA FirstWritten ==
  ASSUME written = <<>>, TypeOK'
  PROVE  /\ Len(written) <= Len(written')
         /\ \A i \in 1..Len(written) : written'[i] = written[i]
<1>1. Len(written) = 0 /\ Len(written') \in Nat
  BY DEF TypeOK
<1> QED
  BY <1>1

\* The completion block of the read of the headers.
LEMMA ReadHeadersReceives == IInv /\ TypeOK' /\ ReadHeaders => ReceivingStep
<1> SUFFICES ASSUME IInv, TypeOK', ReadHeaders PROVE ReceivingStep
  OBVIOUS
<1>1. /\ stage = "readHeaders" /\ UNCHANGED <<out, socket, ended>>
      /\ TypeOK /\ writer = "unopened" /\ written = <<>>
  BY DEF ReadHeaders, IInv, HeadersOK, lifeVars
<1>2. CASE AbortRequest /\ UNCHANGED <<bodyVars, response, reader>>
  BY <1>1, <1>2, AbortDecides, FirstWritten DEF ReceivingStep, Decided, bodyVars
<1>3. CASE UNCHANGED <<stage, bodyVars, response, reader>>
  BY <1>1, <1>3, FirstWritten DEF ReceivingStep, bodyVars
<1>4. CASE HeadersComplete
  BY <1>1, <1>4, HeadersLead, FirstWritten DEF ReceivingStep
<1> QED
  BY <1>2, <1>3, <1>4 DEF ReadHeaders

\* The completion block of the write of the 100-continue line.
LEMMA WriteContinueReceives == IInv /\ TypeOK' /\ WriteContinue => ReceivingStep
<1> SUFFICES ASSUME IInv, TypeOK', WriteContinue PROVE ReceivingStep
  OBVIOUS
<1>1. /\ stage = "writeContinue" /\ UNCHANGED <<socket, ended>>
      /\ TypeOK /\ writer = "unopened" /\ written = <<>> /\ out = <<>>
  BY DEF WriteContinue, IInv, HeadersOK, lifeVars
<1>2. CASE Writes("continue") /\ ReadBody
  <2>1. out' = <<"continue">>
    BY <1>1, <1>2 DEF Writes
  <2> QED
    BY <1>1, <1>2, <2>1, ReadBodyOpens, FirstWritten DEF ReceivingStep
<1>3. CASE WriteFails /\ stage' = "idle" /\ UNCHANGED <<read, bodyVars, response, reader>>
  BY <1>1, <1>3, FirstWritten DEF ReceivingStep, WriteFails, bodyVars
<1> QED
  BY <1>2, <1>3 DEF WriteContinue

\* A step that leaves what was written alone.
LEMMA SameWritten ==
  ASSUME TypeOK, written' = written
  PROVE  /\ Len(written) <= Len(written')
         /\ \A i \in 1..Len(written) : written'[i] = written[i]
<1>1. Len(written) \in Nat
  BY DEF TypeOK
<1> QED
  BY <1>1

\* The completion block of a read of a body of known length.
LEMMA ReadBodyDataReceives == IInv /\ WriterOpen /\ ReadBodyData => ReceivingStep
<1> SUFFICES ASSUME IInv, WriterOpen, ReadBodyData PROVE ReceivingStep
  OBVIOUS
<1>1. /\ stage = "readBody" /\ UNCHANGED <<out, socket, ended>>
      /\ TypeOK /\ writer = "open" /\ HeaderLen <= read
  BY DEF ReadBodyData, IInv, WriterOpen, SizedBodyOK, lifeVars
<1>2. CASE CloseWriter /\ UNCHANGED written
  BY <1>1, <1>2, CloseDecides, SameWritten DEF ReceivingStep, Decided
<1>3. ASSUME NEW n \in Nat, Reads(n, request.length - BodyRead), written' = written \o Last(n),
             \/ UNCHANGED <<stage, writer, response, reader>>
             \/ CloseWriter
      PROVE  ReceivingStep
  <2>1. read' \in Nat /\ read' <= sent /\ HeaderLen + n <= read'
    BY <1>1, <1>3, Shapes DEF Reads
  <2>2. Last(n) \in Seq(1..Len(client.body)) /\ written \in Seq(1..Len(client.body))
    BY <1>1, <2>1, LastInBody DEF TypeOK
  <2>3. /\ Len(written) <= Len(written')
        /\ \A i \in 1..Len(written) : written'[i] = written[i]
    BY <1>3, <2>2
  <2> QED
    BY <1>1, <1>3, <2>3, CloseDecides DEF ReceivingStep, Decided
<1>4. request.length \in Nat /\ BodyRead \in Nat
  BY <1>1, Shapes DEF BodyRead
<1> QED
  BY <1>2, <1>3, <1>4 DEF ReadBodyData

\* One turn of the loop over the chunks.
LEMMA ParseChunkReceives == IInv /\ WriterOpen /\ ParseChunk => ReceivingStep
<1> SUFFICES ASSUME IInv, WriterOpen, ParseChunk PROVE ReceivingStep
  OBVIOUS
<1>1. /\ stage = "parseChunk" /\ UNCHANGED <<out, socket, ended>>
      /\ TypeOK /\ writer = "open"
  BY DEF ParseChunk, IInv, WriterOpen, lifeVars
<1>2. CASE stage' \in {"readChunk", "spin"} /\ UNCHANGED <<writer, written, response, reader>>
  BY <1>1, <1>2, SameWritten DEF ReceivingStep
<1>3. CASE written' = Append(written, parsed + 2) /\ UNCHANGED <<stage, writer, response, reader>>
  <2>1. written \in Seq(1..Len(client.body))
    BY <1>1 DEF TypeOK
  <2>2. /\ Len(written) <= Len(written')
        /\ \A i \in 1..Len(written) : written'[i] = written[i]
    BY <1>3, <2>1
  <2> QED
    BY <1>1, <1>3, <2>2 DEF ReceivingStep
<1>4. CASE CloseWriter /\ UNCHANGED <<parsed, written>>
  BY <1>1, <1>4, CloseDecides, SameWritten DEF ReceivingStep, Decided
<1> QED
  BY <1>2, <1>3, <1>4 DEF ParseChunk

\* The completion block of the read of a chunk.
LEMMA ReadChunkReceives == IInv /\ WriterOpen /\ ReadChunk => ReceivingStep
<1> SUFFICES ASSUME IInv, WriterOpen, ReadChunk PROVE ReceivingStep
  OBVIOUS
<1>1. /\ stage = "readChunk" /\ UNCHANGED <<parsed, written, out, socket, ended>>
      /\ TypeOK /\ writer = "open"
  BY DEF ReadChunk, IInv, WriterOpen, lifeVars
<1>2. CASE CloseWriter
  BY <1>1, <1>2, CloseDecides, SameWritten DEF ReceivingStep, Decided
<1>3. CASE stage' = "parseChunk" /\ UNCHANGED <<writer, response, reader>>
  BY <1>1, <1>3, SameWritten DEF ReceivingStep
<1> QED
  BY <1>2, <1>3 DEF ReadChunk

\* Every step of the request.
LEMMA ReadingReceives ==
  ASSUME IInv, TypeOK', WriterOpen, Reading
  PROVE  ReceivingStep /\ stage \in Receiving
<1>1. ReceivingStep
  BY ReadHeadersReceives, WriteContinueReceives, ReadBodyDataReceives, ParseChunkReceives,
     ReadChunkReceives DEF Reading
<1>2. stage \in Receiving
  BY DEF Reading, Receiving, ReadHeaders, WriteContinue, ReadBodyData, ParseChunk, ReadChunk
<1> QED
  BY <1>1, <1>2

-----------------------------------------------------------------------------
(* The writer stays open for as long as WriterOpen says.                     *)

\* No other step gets to the operations that read a body.
LEMMA OthersLeave ==
  ASSUME Answering \/ WebSocketCloses
  PROVE  stage \notin Receiving /\ (stage' \in Receiving => stage' = stage)
<1> USE DEF Receiving
<1>1. CASE HandlerCompletes
  BY <1>1 DEF HandlerCompletes, FinishProcessingRequest, AbortRequest
<1>2. CASE WriteAbort
  BY <1>2 DEF WriteAbort
<1>3. CASE WriteHeaders
  BY <1>3 DEF WriteHeaders, FinishBody, CloseConnection
<1>4. CASE ReadResponseData
  BY <1>4 DEF ReadResponseData, FinishBody, CloseConnection
<1>5. CASE WriteResponseData
  BY <1>5 DEF WriteResponseData, FinishBody, CloseConnection
<1>6. CASE WriteLastChunk
  BY <1>6 DEF WriteLastChunk, FinishBody, CloseConnection
<1>7. CASE SetDelegate
  BY <1>7 DEF SetDelegate
<1>8. CASE WebSocketCloses
  BY <1>8 DEF WebSocketCloses
<1> QED
  BY <1>1, <1>2, <1>3, <1>4, <1>5, <1>6, <1>7, <1>8 DEF Answering

\* Up to the answer the body reader was not closed, as it is not opened yet.
ReaderUnused == stage \in Receiving \union {"handler", "writeHeaders"} => reader # "closed"

\* The body writer is open whenever a read of the body is pending.
LEMMA WriterStaysOpen == Spec => []WriterOpen
<1>1. Init => WriterOpen
  BY DEF Init, WriterOpen
<1>2. IInv /\ IInv' /\ WriterOpen /\ [Next]_vars => WriterOpen'
  <2> SUFFICES ASSUME IInv, IInv', WriterOpen, [Next]_vars PROVE WriterOpen'
    OBVIOUS
  <2>1. CASE Reading
    <3>1. ReceivingStep /\ TypeOK'
      BY <2>1, ReadingReceives DEF IInv
    <3> QED
      BY <3>1 DEF ReceivingStep, Decided, WriterOpen
  <2>2. CASE Answering \/ WebSocketCloses
    BY <2>2, OthersLeave DEF WriterOpen, Receiving
  <2>3. CASE Client \/ UNCHANGED vars
    BY <2>3 DEF Client, ClientSends, ClientLeaves, WriterOpen, vars, bodyVars
  <2> QED
    BY <2>1, <2>2, <2>3 DEF Next
<1> QED
  BY <1>1, <1>2, Invariance, PTL DEF Spec

\* The body reader is not closed before the answer.
LEMMA ReaderStaysUnused == Spec => []ReaderUnused
<1>1. Init => ReaderUnused
  BY DEF Init, ReaderUnused
<1>2. IInv /\ IInv' /\ WriterOpen /\ ReaderUnused /\ [Next]_vars => ReaderUnused'
  <2> SUFFICES ASSUME IInv, IInv', WriterOpen, ReaderUnused, [Next]_vars PROVE ReaderUnused'
    OBVIOUS
  <2>1. CASE Reading
    <3>1. ReceivingStep /\ stage \in Receiving
      BY <2>1, ReadingReceives DEF IInv
    <3> QED
      BY <3>1 DEF ReceivingStep, ReaderUnused
  <2>2. CASE HandlerCompletes
    BY <2>2 DEF HandlerCompletes, FinishProcessingRequest, AbortRequest, ReaderUnused, Receiving
  <2>3. CASE Answering \/ WebSocketCloses
    <3>1. stage' \notin Receiving
      BY <2>3, OthersLeave
    <3>2. stage' \notin {"handler", "writeHeaders"} \/ HandlerCompletes
      BY <2>3 DEF Answering, WriteAbort, WriteHeaders, ReadResponseData, WriteResponseData,
         WriteLastChunk, SetDelegate, WebSocketCloses, FinishBody, CloseConnection
    <3> QED
      BY <2>2, <3>1, <3>2 DEF ReaderUnused
  <2>4. CASE Client \/ UNCHANGED vars
    BY <2>4 DEF Client, ClientSends, ClientLeaves, ReaderUnused, vars, replyVars
  <2> QED
    BY <2>1, <2>3, <2>4 DEF Next
<1> QED
  BY <1>1, <1>2, Invariance, WriterStaysOpen, PTL DEF Spec

-----------------------------------------------------------------------------
(* The refinement.                                                          *)

\* A step of the request is one of the exchange.
LEMMA ReadingMaps ==
  ASSUME IInv, IInv', WriterOpen, Reading
  PROVE  [Exchange!Next]_(Exchange!vars)
<1>1. ReceivingStep /\ stage \in Receiving
  BY ReadingReceives DEF IInv
<1>2. PhaseOf(stage) = "receiving"
  BY <1>1 DEF PhaseOf, Receiving
<1>3. stage # "spin" /\ writer # "closed"
  <2>1. stage # "spin"
    BY DEF Reading, ReadHeaders, WriteContinue, ReadBodyData, ParseChunk, ReadChunk
  <2>2. CASE stage \in {"readHeaders", "writeContinue"}
    BY <2>2 DEF IInv, HeadersOK
  <2> QED
    BY <1>1, <2>1, <2>2 DEF WriterOpen, Receiving
<1>4. Exchange!DidRead
  BY <1>1, <1>2, <1>3
  DEF ReceivingStep, Exchange!DidRead, Exchange!OpenWriter, Exchange!WriteData, Exchange!Continue
<1>5. CASE Decided
  <2>1. writer' # "open"
    BY <1>5 DEF Decided, IInv, WriterReleased
  <2>2. CASE stage' = "handler"
    BY <1>4, <2>1, <2>2
    DEF Exchange!ProcessRequest, Exchange!CloseWriter, Exchange!Next, PhaseOf
  <2>3. CASE stage' = "writeHeaders"
    BY <1>4, <2>1, <2>3
    DEF Exchange!PreflightRequest, Exchange!CloseWriter, Exchange!Next, PhaseOf
  <2>4. CASE stage' = "writeAbort"
    BY <1>4, <2>1, <2>4
    DEF Exchange!AbortRequest, Exchange!CloseWriter, Exchange!Next, PhaseOf
  <2> QED
    BY <1>5, <2>2, <2>3, <2>4 DEF Decided
<1>6. CASE stage' \in {"readHeaders", "writeContinue"}
  <2>1. PhaseOf(stage') = "receiving" /\ writer' # "closed"
    BY <1>6 DEF PhaseOf, IInv, HeadersOK
  <2> QED
    BY <1>2, <1>4, <2>1 DEF Exchange!Receive, Exchange!Next
<1>7. CASE stage' \in {"readBody", "parseChunk", "readChunk", "spin"} /\ writer' = "open"
  <2>1. PhaseOf(stage') = "receiving"
    BY <1>7 DEF PhaseOf
  <2> QED
    BY <1>2, <1>4, <1>7, <2>1 DEF Exchange!Receive, Exchange!Next
<1>8. CASE stage' \in {"webSocketInit", "idle"} /\ UNCHANGED <<writer, written, out>>
  <2>1. PhaseOf(stage') \in {"upgraded", "over"}
    BY <1>8 DEF PhaseOf
  <2>2. writer = "unopened"
    <3>1. writer' # "open"
      BY <1>8 DEF IInv, WriterReleased
    <3> QED
      BY <1>3, <1>8, <3>1 DEF IInv, TypeOK
  <2> QED
    BY <1>1, <1>2, <1>8, <2>1, <2>2 DEF ReceivingStep, Exchange!Leave, Exchange!Next
<1> QED
  BY <1>1, <1>5, <1>6, <1>7, <1>8 DEF ReceivingStep

\* A step of the answer is one of the exchange.
LEMMA AnsweringMaps ==
  ASSUME IInv, IInv', ReaderUnused, Answering \/ WebSocketCloses
  PROVE  [Exchange!Next]_(Exchange!vars)
<1> USE DEF PhaseOf, bodyVars, lifeVars
<1>0. /\ reader \in {"unopened", "open", "closed"}
      /\ stage \in {"handler", "writeHeaders"} => reader # "closed"
      /\ stage = "writeHeaders" => (SendsBody(response) <=> reader = "open")
      /\ stage \in {"readData", "writeData", "writeLast"} => reader = "open"
      /\ reader = "open" => stage \in {"writeHeaders", "readData", "writeData", "writeLast"}
  BY DEF IInv, DataOK, ReaderReleased, ReaderUnused, TypeOK
<1>1. CASE HandlerCompletes
  <2>1. /\ stage = "handler" /\ UNCHANGED <<writer, written, out, socket, ended>>
    BY <1>1 DEF HandlerCompletes
  <2>2. \/ stage' = "writeAbort" /\ UNCHANGED reader
        \/ stage' = "writeHeaders" /\ (reader' = "open" \/ UNCHANGED reader)
    BY <1>1 DEF HandlerCompletes, FinishProcessingRequest, AbortRequest
  <2>3. CASE stage' = "writeAbort" /\ UNCHANGED reader
    <3>1. Exchange!AbortRequest
      BY <2>1, <2>3 DEF Exchange!AbortRequest
    <3> QED
      BY <3>1 DEF Exchange!Next
  <2>4. CASE stage' = "writeHeaders" /\ (reader' = "open" \/ UNCHANGED reader)
    <3>1. reader' \in {"unopened", "open"}
      BY <1>0, <2>1, <2>4
    <3>2. Exchange!Respond
      BY <2>1, <2>4, <3>1 DEF Exchange!Respond
    <3> QED
      BY <3>2 DEF Exchange!Next
  <2> QED
    BY <2>2, <2>3, <2>4
<1>2. CASE WriteAbort
  <2>1. Exchange!SendBare
    BY <1>2 DEF WriteAbort, Writes, WriteFails, Exchange!SendBare, Exchange!Sends
  <2> QED
    BY <2>1 DEF Exchange!Next
<1>3. CASE WriteHeaders
  <2>1. stage = "writeHeaders" /\ UNCHANGED <<writer, written>>
    BY <1>3 DEF WriteHeaders
  <2>2. CASE /\ SendsBody(response) /\ Writes("status")
             /\ stage' = "readData" /\ UNCHANGED <<reader, lifeVars>>
    <3>1. Exchange!SendStatus
      BY <1>0, <2>1, <2>2 DEF Writes, Exchange!SendStatus
    <3> QED
      BY <3>1 DEF Exchange!Next
  <2>3. CASE SendsBody(response) /\ WriteFails /\ FinishBody
    <3>1. Exchange!CloseReader
      BY <1>0, <2>1, <2>3
      DEF WriteFails, FinishBody, CloseConnection, Exchange!CloseReader, Exchange!Sends, Exchange!Close
    <3> QED
      BY <3>1 DEF Exchange!Next
  <2>4. CASE /\ ~SendsBody(response) /\ (Writes("status") \/ WriteFails)
             /\ stage' = "idle" /\ UNCHANGED <<reader, lifeVars>>
    <3>1. reader = "unopened"
      BY <1>0, <2>1, <2>4
    <3>2. out' \in {out, Append(out, "status")}
      BY <2>4 DEF Writes, WriteFails
    <3>3. Exchange!SendBare
      BY <2>1, <2>4, <3>1, <3>2 DEF Exchange!SendBare, Exchange!Sends
    <3> QED
      BY <3>3 DEF Exchange!Next
  <2> QED
    BY <1>3, <2>2, <2>3, <2>4 DEF WriteHeaders
<1>4. CASE ReadResponseData
  <2>1. stage = "readData" /\ UNCHANGED <<writer, written, out>>
    BY <1>4 DEF ReadResponseData
  <2>2. CASE stage' \in {"writeData", "writeLast"} /\ UNCHANGED <<reader, lifeVars>>
    BY <2>1, <2>2 DEF Exchange!vars
  <2>3. CASE FinishBody
    <3>1. Exchange!CloseReader
      BY <1>0, <2>1, <2>3
      DEF FinishBody, CloseConnection, Exchange!CloseReader, Exchange!Sends, Exchange!Close
    <3> QED
      BY <3>1 DEF Exchange!Next
  <2> QED
    BY <1>4, <2>2, <2>3 DEF ReadResponseData
<1>5. CASE WriteResponseData
  <2>1. stage = "writeData" /\ UNCHANGED <<writer, written>>
    BY <1>5 DEF WriteResponseData
  <2>2. CASE Writes("data") /\ stage' = "readData" /\ UNCHANGED <<reader, lifeVars>>
    <3>1. Exchange!DidWrite
      BY <2>1, <2>2 DEF Writes, Exchange!DidWrite
    <3> QED
      BY <3>1 DEF Exchange!Next
  <2>3. CASE WriteFails /\ FinishBody
    <3>1. Exchange!CloseReader
      BY <1>0, <2>1, <2>3
      DEF WriteFails, FinishBody, CloseConnection, Exchange!CloseReader, Exchange!Sends, Exchange!Close
    <3> QED
      BY <3>1 DEF Exchange!Next
  <2> QED
    BY <1>5, <2>2, <2>3 DEF WriteResponseData
<1>6. CASE WriteLastChunk
  <2>1. Exchange!CloseReader
    BY <1>0, <1>6
    DEF WriteLastChunk, Writes, WriteFails, FinishBody, CloseConnection, Exchange!CloseReader,
        Exchange!Sends, Exchange!Close
  <2> QED
    BY <2>1 DEF Exchange!Next
<1>7. CASE SetDelegate
  BY <1>7 DEF SetDelegate, replyVars, Exchange!vars
<1>8. CASE WebSocketCloses
  <2>1. Exchange!WebSocketClose
    BY <1>8 DEF WebSocketCloses, replyVars, Exchange!WebSocketClose, Exchange!Close
  <2> QED
    BY <2>1 DEF Exchange!Next
<1> QED
  BY <1>1, <1>2, <1>3, <1>4, <1>5, <1>6, <1>7, <1>8 DEF Answering

\* A connection is one exchange of a request and its answer: its bodies are
\* opened and closed once and in order, and its end is told once, whatever the
\* client sends, wherever it leaves, and whatever fails.
THEOREM Refinement == Spec => ImplementsExchange
<1>1. Init => Exchange!Init
  BY DEF Init, Exchange!Init, PhaseOf
<1>2. IInv /\ IInv' /\ WriterOpen /\ ReaderUnused /\ [Next]_vars
        => [Exchange!Next]_(Exchange!vars)
  <2>1. ASSUME Client \/ UNCHANGED vars PROVE UNCHANGED Exchange!vars
    BY <2>1 DEF Client, ClientSends, ClientLeaves, vars, bodyVars, replyVars, lifeVars,
       Exchange!vars
  <2> QED
    BY <2>1, ReadingMaps, AnsweringMaps DEF Next
<1> QED
  BY <1>1, <1>2, Invariance, WriterStaysOpen, ReaderStaysUnused, PTL
  DEF Spec, ImplementsExchange, Exchange!Spec
================================================================================
