--------------------------- MODULE AdaptersProofs ---------------------------
(***************************************************************************)
(* Theorems about Adapters, for conversations and answers of any length: a *)
(* request keeps the messages it was made from, the text of an upstream is *)
(* passed on in order and in full, a final delta carries what the upstream *)
(* has sent, and no response body is left open.                            *)
(*                                                                         *)
(* The properties compare what Recv returned with what the upstream sent.  *)
(* Between the two lie the frame the scanner is reading and what Recv      *)
(* holds back (the finish reason for openai, the input tokens for          *)
(* anthropic), so the invariant accounts for both: what was sent is what   *)
(* was returned, what is held, and what is in the frame.  The exceptions   *)
(* are a frame that two documents have spoilt, which ends the call with an *)
(* error, and what Recv does not look at: text beside the piece it reads,  *)
(* and usage that is not the answer's total.                               *)
(***************************************************************************)
EXTENDS Adapters, WellFoundedInduction, SequenceTheorems, TLAPS

Remote == {"openai", "anthropic", "google"}

Types ==
    /\ ref \in WorkerRefs
    /\ phase \in Phases
    /\ scan \in [name : EventNames \cup {NoName}, data : Payloads, lines : 0..2, any : BOOLEAN]
    /\ held \in BOOLEAN
    /\ body \in {"none", "open", "closed"}
    /\ out \in Seq(Deltas)
    /\ end \in Ends
    /\ sent \in Sent

\* The upstream has sent its totals.
TotalIn  == "last" \in sent.input
TotalOut == "last" \in sent.output

\* What is said of a call by where it is.
PhaseInv ==
    /\ phase = "ended" <=> end # "open"
    /\ phase \in {"new", "requested"} =>
         /\ body = "none" /\ out = << >> /\ scan = NoFrame /\ ~held
         /\ sent.texts = 0 /\ sent.beside = {}
         /\ ~sent.finish /\ ~TotalIn /\ ~TotalOut /\ ~sent.complete
    /\ phase \in {"requested", "streaming", "last"} => p \in Names
    /\ phase \in {"streaming", "last"} => body = "open"

\* The frame being read holds one document, or none that Recv could read.
FrameInv ==
    /\ scan.lines # 1 => scan.data = Bad
    /\ scan.lines = 1 => scan.data \in DataLines(p, scan.name)
    /\ p = "fake" => scan = NoFrame

\* Two documents in a frame whose data Recv looks at: the call ends with an error.
Doomed == scan.lines = 2 /\ (p = "anthropic" => scan.name \notin {NoName, "ping"})

\* The texts in the deltas o are numbered upwards ...
Ordered(o) ==
    \A i, j \in DOMAIN o :
        i < j /\ o[i].content # 0 /\ o[j].content # 0 => o[i].content < o[j].content

\* ... and are all texts up to the n-th that are not in B, and no other.
Delivered(o, n, B) ==
    /\ \A i \in DOMAIN o : o[i].content <= n
    /\ \A t \in 1..n : (\E i \in DOMAIN o : o[i].content = t) <=> t \notin B

\* Text that was sent was returned, or stood beside what was, or is in the frame.
TextInv ==
    LET d == scan.data
    IN /\ sent.beside \subseteq 1..sent.texts
       /\ sent.texts >= Pieces(d)
       /\ Delivered(out, sent.texts - Pieces(d), sent.beside)
       /\ d.beside => sent.texts \in sent.beside
       /\ d.text => Number(d) \notin sent.beside

\* What the upstream has said of the answer, h being what Recv holds back: all of
\* it is in h when no frame is being read ...
Settled(h) ==
    /\ p = "openai"    => /\ sent.finish <=> h
                          /\ sent.complete <=> h
                          /\ ~TotalIn /\ ~TotalOut
    /\ p = "anthropic" => /\ TotalIn <=> h
                          /\ ~sent.finish /\ ~TotalOut /\ ~sent.complete
    /\ p \in {"google", "fake"} =>
         ~sent.finish /\ ~TotalIn /\ ~TotalOut /\ ~sent.complete

\* ... and otherwise in h and the frame.
TallyInv ==
    LET d == scan.data
    IN /\ p = "openai"    => /\ sent.finish <=> held \/ d.finish
                             /\ sent.complete <=> held \/ d.finish \/ (d.usage /\ ~d.choice)
                             /\ TotalIn <=> d.usage /\ (~d.choice \/ d.finish)
                             /\ TotalOut <=> d.usage /\ (~d.choice \/ d.finish)
       /\ p = "anthropic" => /\ sent.finish <=> d.finish
                             /\ TotalIn <=> held \/ (d.usage /\ scan.name = "message_start")
                             /\ TotalOut <=> d.usage /\ scan.name = "message_delta"
                             /\ sent.complete <=> scan.lines # 0 /\ scan.name = "message_delta"
       /\ p = "google"    => /\ sent.finish <=> d.finish
                             /\ sent.complete <=> d.finish
                             /\ TotalIn <=> d.usage /\ d.finish
                             /\ TotalOut <=> d.usage /\ d.finish
       /\ p = "fake"      => ~sent.finish /\ ~TotalIn /\ ~TotalOut /\ ~sent.complete

StreamInv == phase = "streaming" => FrameInv /\ (Doomed \/ (TextInv /\ TallyInv))

IInv == Types /\ PhaseInv /\ StreamInv /\ TextInOrder /\ FinalIsEarned /\ NoBodyLeaks

-----------------------------------------------------------------------------
(* Recv.                                                                   *)

\* The ways a turn of Recv's loop can go, by what was sent and what it keeps.
Fails(turn)     == \E e \in {"eof", "error"} : turn = Fail(e)
Skips(turn)     == \E h \in BOOLEAN : turn = Skip(h) /\ ~scan.data.text /\ Settled(h)
Emits(turn)     == \E h \in BOOLEAN : turn = Emit(Number(scan.data), h) /\ scan.data.text /\ Settled(h)
Closing(x) ==
    /\ x.is_final
    /\ sent.complete
    /\ x.finish <=> sent.finish
    /\ x.input <=> TotalIn
    /\ x.output <=> TotalOut
    /\ x.content = IF scan.data.text THEN Number(scan.data) ELSE 0
Finishes(turn)  == \E x \in Deltas : turn = Finish(x) /\ Closing(x)

\* Documents of openai's wire format, or none: text, the finish reason and the text
\* beside them come with a choice, and no text is read with a finish reason.
LEMMA OpenaiDocuments ==
    ASSUME NEW d \in {Bad} \cup openaiData
    PROVE  /\ d.text => d.kind = "chunk" /\ d.choice /\ ~d.finish
           /\ d.kind # "chunk" => ~d.finish /\ ~d.usage
           /\ ~d.choice => ~d.finish
           /\ d.kind \in {"chunk", "done", "error", "malformed"}
           /\ d \in Payloads
  <1>1. CASE d = Bad
    BY <1>1 DEF Data, Bad, Payloads
  <1>2. CASE d = Data("done", FALSE, FALSE, FALSE, FALSE)
    BY <1>2 DEF Data, Payloads
  <1>3. CASE d = Data("error", FALSE, FALSE, FALSE, FALSE)
    BY <1>3 DEF Data, Payloads
  <1>4. CASE d = Data("chunk", FALSE, FALSE, FALSE, TRUE)
    BY <1>4 DEF Data, Payloads
  <1>5. CASE d = Data("chunk", FALSE, FALSE, FALSE, FALSE)
    BY <1>5 DEF Data, Payloads
  <1>6. CASE /\ d \in [kind : {"chunk"}, choice : {TRUE}, text : BOOLEAN, beside : BOOLEAN,
                       finish : BOOLEAN, usage : BOOLEAN]
             /\ ~(d.text /\ d.finish)
    BY <1>6 DEF Payloads
  <1>. QED BY <1>1, <1>2, <1>3, <1>4, <1>5, <1>6 DEF openaiData

\* Documents of anthropic's wire format: the event's name says what they carry.
LEMMA AnthropicDocuments ==
    ASSUME NEW name \in EventNames \cup {NoName}, NEW d \in {Bad} \cup anthropicData(name)
    PROVE  /\ d.text => name = "content_block_delta"
           /\ d.finish => name = "message_delta"
           /\ name \in {"message_start", "message_delta"} /\ d.kind # "malformed" => d.usage
           /\ d.usage => name \in {"message_start", "message_delta"}
           /\ d.kind = "malformed" => ~d.text /\ ~d.finish /\ ~d.usage
           /\ ~d.beside
           /\ d \in Payloads
  <1>1. CASE d = Bad
    BY <1>1 DEF Data, Bad, Payloads
  <1>2. CASE name = "message_start" /\ d # Bad
    <2>1. d = Data("chunk", FALSE, FALSE, FALSE, TRUE)
      BY <1>2 DEF anthropicData
    <2>. QED BY <1>2, <2>1 DEF Data, Payloads
  <1>3. CASE name = "content_block_delta" /\ d # Bad
    <2>1. PICK t \in BOOLEAN : d = Data("chunk", TRUE, t, FALSE, FALSE)
      BY <1>3 DEF anthropicData
    <2>. QED BY <1>3, <2>1 DEF Data, Payloads
  <1>4. CASE name = "message_delta" /\ d # Bad
    <2>1. PICK f \in BOOLEAN : d = Data("chunk", FALSE, FALSE, f, TRUE)
      BY <1>4 DEF anthropicData
    <2>. QED BY <1>4, <2>1 DEF Data, Payloads
  <1>5. CASE name \notin {"message_start", "content_block_delta", "message_delta"} /\ d # Bad
    <2>1. d = Data("chunk", FALSE, FALSE, FALSE, FALSE)
      BY <1>5 DEF anthropicData
    <2>. QED BY <1>5, <2>1 DEF Data, Payloads
  <1>. QED BY <1>1, <1>2, <1>3, <1>4, <1>5

\* Documents of google's wire format: text and finish reason come in a candidate.
LEMMA GoogleDocuments ==
    ASSUME NEW d \in {Bad} \cup googleData
    PROVE  /\ d.text \/ d.finish => d.choice
           /\ d.kind = "malformed" => ~d.text /\ ~d.finish /\ ~d.usage
           /\ d.kind \in {"chunk", "malformed"}
           /\ d \in Payloads
  <1>1. CASE d = Bad
    BY <1>1 DEF Data, Bad, Payloads
  <1>2. CASE \E u \in BOOLEAN : d = Data("chunk", FALSE, FALSE, FALSE, u)
    <2>1. PICK u \in BOOLEAN : d = Data("chunk", FALSE, FALSE, FALSE, u)
      BY <1>2
    <2>. QED BY <2>1 DEF Data, Payloads
  <1>3. CASE d \in [kind : {"chunk"}, choice : {TRUE}, text : BOOLEAN, beside : BOOLEAN,
                    finish : BOOLEAN, usage : BOOLEAN]
    BY <1>3 DEF Payloads
  <1>. QED BY <1>1, <1>2, <1>3 DEF googleData

\* openai's Recv, on a frame it was not spoilt for.
LEMMA OpenaiTurn ==
    ASSUME Types, p = "openai", scan.data \in {Bad} \cup openaiData, TallyInv
    PROVE  LET turn == openaiRecv(scan.data, held, Number(scan.data))
           IN Fails(turn) \/ Skips(turn) \/ Emits(turn) \/ Finishes(turn)
  <1>. DEFINE d == scan.data
              n == Number(scan.data)
  <1>1. /\ held \in BOOLEAN 
        /\ sent.finish <=> held \/ d.finish
        /\ sent.complete <=> held \/ d.finish \/ (d.usage /\ ~d.choice)
        /\ TotalIn <=> d.usage /\ (~d.choice \/ d.finish)
        /\ TotalOut <=> d.usage /\ (~d.choice \/ d.finish)
    BY DEF Types, TallyInv, Sent
  <1>2. /\ d.text => d.kind = "chunk" /\ d.choice /\ ~d.finish
        /\ d.kind # "chunk" => ~d.finish /\ ~d.usage
        /\ ~d.choice => ~d.finish
    BY OpenaiDocuments
  <1>3. CASE d.kind = "done"
    <2>1. CASE held
      <3>1. openaiRecv(d, held, n) = Finish(FinalDelta(0, TRUE, FALSE, FALSE))
        BY <1>3, <2>1 DEF openaiRecv
      <3>2. Closing(FinalDelta(0, TRUE, FALSE, FALSE)) /\ FinalDelta(0, TRUE, FALSE, FALSE) \in Deltas
        BY <1>1, <1>2, <1>3, <2>1 DEF Closing, FinalDelta, Deltas
      <3>. QED BY <3>1, <3>2 DEF Finishes
    <2>2. CASE ~held
      BY <1>3, <2>2 DEF openaiRecv, Fails
    <2>. QED BY <2>1, <2>2
  <1>4. CASE d.kind \in {"malformed", "error"}
    BY <1>4 DEF openaiRecv, Fails
  <1>5. CASE d.kind \notin {"done", "malformed", "error"} /\ ~d.choice
    <2>1. CASE d.usage
      <3>1. openaiRecv(d, held, n) = Finish(FinalDelta(0, held, TRUE, TRUE))
        BY <1>5, <2>1 DEF openaiRecv
      <3>2. Closing(FinalDelta(0, held, TRUE, TRUE)) /\ FinalDelta(0, held, TRUE, TRUE) \in Deltas
        BY <1>1, <1>2, <1>5, <2>1 DEF Closing, FinalDelta, Deltas
      <3>. QED BY <3>1, <3>2 DEF Finishes
    <2>2. CASE ~d.usage
      <3>1. openaiRecv(d, held, n) = Skip(held)
        BY <1>5, <2>2 DEF openaiRecv
      <3>2. ~d.text /\ Settled(held)
        BY <1>1, <1>2, <1>5, <2>2 DEF Settled
      <3>. QED BY <1>1, <3>1, <3>2 DEF Skips
    <2>. QED BY <2>1, <2>2
  <1>6. CASE d.kind \notin {"done", "malformed", "error"} /\ d.choice /\ d.finish
    <2>1. CASE d.usage
      <3>1. openaiRecv(d, held, n) = Finish(FinalDelta(0, TRUE, TRUE, TRUE))
        BY <1>6, <2>1 DEF openaiRecv
      <3>2. Closing(FinalDelta(0, TRUE, TRUE, TRUE)) /\ FinalDelta(0, TRUE, TRUE, TRUE) \in Deltas
        BY <1>1, <1>2, <1>6, <2>1 DEF Closing, FinalDelta, Deltas
      <3>. QED BY <3>1, <3>2 DEF Finishes
    <2>2. CASE ~d.usage
      <3>1. openaiRecv(d, held, n) = Skip(TRUE)
        BY <1>6, <2>2 DEF openaiRecv
      <3>2. ~d.text /\ Settled(TRUE)
        BY <1>1, <1>2, <1>6, <2>2 DEF Settled
      <3>. QED BY <3>1, <3>2 DEF Skips
    <2>. QED BY <2>1, <2>2
  <1>7. CASE d.kind \notin {"done", "malformed", "error"} /\ d.choice /\ ~d.finish
    <2>1. Settled(held)
      BY <1>1, <1>2, <1>7 DEF Settled
    <2>2. CASE d.text
      <3>1. openaiRecv(d, held, n) = Emit(n, held)
        BY <1>7, <2>2 DEF openaiRecv
      <3>. QED BY <1>1, <2>1, <2>2, <3>1 DEF Emits
    <2>3. CASE ~d.text
      <3>1. openaiRecv(d, held, n) = Skip(held)
        BY <1>7, <2>3 DEF openaiRecv
      <3>. QED BY <1>1, <2>1, <2>3, <3>1 DEF Skips
    <2>. QED BY <2>2, <2>3
  <1>. QED BY <1>3, <1>4, <1>5, <1>6, <1>7

\* anthropic's Recv, on a frame that is not spoilt.
LEMMA AnthropicTurn ==
    ASSUME Types, p = "anthropic", FrameInv, Doomed \/ TallyInv
    PROVE  LET turn == anthropicRecv(scan.name, scan.data, held, Number(scan.data))
           IN Fails(turn) \/ (~Doomed /\ (Skips(turn) \/ Emits(turn) \/ Finishes(turn)))
  <1>. DEFINE d == scan.data
              name == scan.name
              n == Number(scan.data)
  <1>1. held \in BOOLEAN  /\ name \in EventNames \cup {NoName}
    BY DEF Types, Sent
  <1>2. d \in {Bad} \cup anthropicData(name)
    BY DEF FrameInv, DataLines
  <1>3. /\ d.text => name = "content_block_delta"
        /\ d.finish => name = "message_delta"
        /\ name \in {"message_start", "message_delta"} /\ d.kind # "malformed" => d.usage
        /\ d.usage => name \in {"message_start", "message_delta"}
        /\ d.kind = "malformed" => ~d.text /\ ~d.finish /\ ~d.usage
        /\ d \in Payloads
    BY <1>1, <1>2, AnthropicDocuments
  <1>4. Bad.kind = "malformed"
    BY DEF Bad, Data
  <1>5. ~Doomed =>
          /\ sent.finish <=> d.finish
          /\ TotalIn <=> held \/ (d.usage /\ name = "message_start")
          /\ TotalOut <=> d.usage /\ name = "message_delta"
          /\ sent.complete <=> scan.lines # 0 /\ name = "message_delta"
    BY DEF TallyInv
  <1>6. CASE name = "error"
    BY <1>6 DEF anthropicRecv, Fails
  <1>7. CASE name \in {NoName, "ping"}
    <2>1. ~Doomed
      BY <1>7 DEF Doomed
    <2>2. anthropicRecv(name, d, held, n) = Skip(held)
      BY <1>7 DEF anthropicRecv, NoName
    <2>3. ~d.text /\ Settled(held)
      BY <1>3, <1>5, <1>7, <2>1 DEF Settled, NoName
    <2>. QED BY <1>1, <2>1, <2>2, <2>3 DEF Skips
  <1>8. CASE name \notin {"error", NoName, "ping"} /\ d.kind = "malformed"
    BY <1>8 DEF anthropicRecv, Fails
  <1>9. CASE name \notin {"error", NoName, "ping"} /\ d.kind # "malformed"
    <2>1. scan.lines = 1 /\ ~Doomed
      BY <1>4, <1>9 DEF FrameInv, Doomed
    <2>2. CASE name = "message_start"
      <3>1. anthropicRecv(name, d, held, n) = Skip(TRUE)
        BY <1>9, <2>2 DEF anthropicRecv
      <3>2. ~d.text /\ Settled(TRUE)
        BY <1>3, <1>5, <1>9, <2>1, <2>2 DEF Settled
      <3>. QED BY <2>1, <3>1, <3>2 DEF Skips
    <2>3. CASE name = "content_block_delta"
      <3>1. Settled(held)
        BY <1>3, <1>5, <1>9, <2>1, <2>3 DEF Settled
      <3>2. CASE d.text
        <4>1. anthropicRecv(name, d, held, n) = Emit(n, held)
          BY <1>9, <2>3, <3>2 DEF anthropicRecv
        <4>. QED BY <1>1, <2>1, <3>1, <3>2, <4>1 DEF Emits
      <3>3. CASE ~d.text
        <4>1. anthropicRecv(name, d, held, n) = Skip(held)
          BY <1>9, <2>3, <3>3 DEF anthropicRecv
        <4>. QED BY <1>1, <2>1, <3>1, <3>3, <4>1 DEF Skips
      <3>. QED BY <3>2, <3>3
    <2>4. CASE name = "message_delta"
      <3>1. anthropicRecv(name, d, held, n) = Finish(FinalDelta(0, d.finish, held, TRUE))
        BY <1>9, <2>4 DEF anthropicRecv
      <3>2. d.finish \in BOOLEAN
        BY <1>3 DEF Payloads
      <3>3. FinalDelta(0, d.finish, held, TRUE) \in Deltas
        BY <1>1, <3>2 DEF FinalDelta, Deltas
      <3>4. Closing(FinalDelta(0, d.finish, held, TRUE))
        BY <1>3, <1>5, <1>9, <2>1, <2>4 DEF Closing, FinalDelta
      <3>. QED BY <2>1, <3>1, <3>3, <3>4 DEF Finishes
    <2>. QED BY <1>1, <1>9, <2>2, <2>3, <2>4 DEF EventNames
  <1>. QED BY <1>6, <1>7, <1>8, <1>9

\* google's Recv, on a frame that is not spoilt.
LEMMA GoogleTurn ==
    ASSUME Types, p = "google", scan.data \in {Bad} \cup googleData, TallyInv,
           scan.data.text => Number(scan.data) \in Nat
    PROVE  LET turn == googleRecv(scan.data, Number(scan.data))
           IN Fails(turn) \/ Skips(turn) \/ Emits(turn) \/ Finishes(turn)
  <1>. DEFINE d == scan.data
              n == Number(scan.data)
              t == IF d.text THEN n ELSE 0
  <1>1. /\ d.text => n \in Nat
        /\ sent.finish <=> d.finish
        /\ sent.complete <=> d.finish
        /\ TotalIn <=> d.usage /\ d.finish
        /\ TotalOut <=> d.usage /\ d.finish
    BY DEF Types, TallyInv, Sent
  <1>2. /\ d.text \/ d.finish => d.choice
        /\ d.usage \in BOOLEAN
    BY GoogleDocuments DEF Payloads
  <1>3. ~d.finish => Settled(FALSE)
    BY <1>1 DEF Settled
  <1>4. CASE d.kind = "malformed"
    BY <1>4 DEF googleRecv, Fails
  <1>5. CASE d.kind # "malformed" /\ ~d.choice
    <2>1. googleRecv(d, n) = Skip(FALSE)
      BY <1>5 DEF googleRecv
    <2>. QED BY <1>2, <1>3, <1>5, <2>1 DEF Skips
  <1>6. CASE d.kind # "malformed" /\ d.choice /\ d.finish
    <2>1. googleRecv(d, n) = Finish(FinalDelta(t, TRUE, d.usage, d.usage))
      BY <1>6 DEF googleRecv
    <2>2. t \in Nat
      BY <1>1
    <2>3. FinalDelta(t, TRUE, d.usage, d.usage) \in Deltas
      BY <1>2, <2>2 DEF FinalDelta, Deltas
    <2>4. Closing(FinalDelta(t, TRUE, d.usage, d.usage))
      BY <1>1, <1>6 DEF Closing, FinalDelta
    <2>. QED BY <2>1, <2>3, <2>4 DEF Finishes
  <1>7. CASE d.kind # "malformed" /\ d.choice /\ ~d.finish
    <2>1. CASE d.text
      <3>1. googleRecv(d, n) = Emit(n, FALSE)
        BY <1>7, <2>1 DEF googleRecv
      <3>. QED BY <1>3, <1>7, <2>1, <3>1 DEF Emits
    <2>2. CASE ~d.text
      <3>1. googleRecv(d, n) = Skip(FALSE)
        BY <1>7, <2>2 DEF googleRecv
      <3>. QED BY <1>3, <1>7, <2>2, <3>1 DEF Skips
    <2>. QED BY <2>1, <2>2
  <1>. QED BY <1>4, <1>5, <1>6, <1>7

\* The text in a frame has a number: with the one beside it, it was counted.
LEMMA TextNumber ==
    ASSUME Types, TextInv, scan.data.text
    PROVE  /\ Number(scan.data) \in Nat \ {0}
           /\ Number(scan.data) - 1 = sent.texts - Pieces(scan.data)
           /\ sent.texts = IF scan.data.beside THEN Number(scan.data) + 1 ELSE Number(scan.data)
  <1>1. sent.texts \in Nat /\ scan.data \in Payloads
    BY DEF Types, Sent
  <1>2. sent.texts >= Pieces(scan.data)
    BY DEF TextInv
  <1>3. CASE scan.data.beside
    BY <1>1, <1>2, <1>3 DEF Pieces, Number
  <1>4. CASE ~scan.data.beside
    BY <1>1, <1>2, <1>4 DEF Pieces, Number
  <1>. QED BY <1>3, <1>4

\* What Recv makes of a frame: unless it fails, the frame was not spoilt, and what
\* it returns and keeps is what the upstream has sent.
LEMMA RecvTurn ==
    ASSUME Types, p \in Names, FrameInv, scan.any, Doomed \/ (TextInv /\ TallyInv)
    PROVE  LET turn == Recv(scan.name, scan.data)
           IN Fails(turn) \/ (~Doomed /\ (Skips(turn) \/ Emits(turn) \/ Finishes(turn)))
  <1>1. p # "fake"
    BY DEF FrameInv, NoFrame
  <1>2. CASE p = "openai"
    <2>1. scan.data \in {Bad} \cup openaiData
      BY <1>2 DEF FrameInv, DataLines
    <2>2. CASE Doomed
      <3>1. scan.data = Bad
        BY <2>2 DEF FrameInv, Doomed
      <3>. QED BY <1>2, <3>1 DEF Recv, openaiRecv, Bad, Data, Fails
    <2>3. CASE ~Doomed
      BY <1>2, <2>1, <2>3, OpenaiTurn DEF Recv
    <2>. QED BY <2>2, <2>3
  <1>3. CASE p = "anthropic"
    BY <1>3, AnthropicTurn DEF Recv
  <1>4. CASE p = "google"
    <2>1. scan.data \in {Bad} \cup googleData
      BY <1>4 DEF FrameInv, DataLines
    <2>2. CASE Doomed
      <3>1. scan.data = Bad
        BY <2>2 DEF FrameInv, Doomed
      <3>. QED BY <1>4, <3>1 DEF Recv, googleRecv, Bad, Data, Fails
    <2>3. CASE ~Doomed
      <3>1. scan.data.text => Number(scan.data) \in Nat
        BY <2>3, TextNumber
      <3>. QED BY <1>4, <2>1, <2>3, <3>1, GoogleTurn DEF Recv
    <2>. QED BY <2>2, <2>3
  <1>. QED BY <1>1, <1>2, <1>3, <1>4 DEF Names

-----------------------------------------------------------------------------
(* The deltas returned.                                                    *)

\* A delta is added at the end.
LEMMA Appended ==
    ASSUME NEW o \in Seq(Deltas), NEW x \in Deltas
    PROVE  /\ o \o <<x>> \in Seq(Deltas)
           /\ Len(o) \in Nat /\ DOMAIN o = 1..Len(o)
           /\ Len(o \o <<x>>) = Len(o) + 1
           /\ DOMAIN (o \o <<x>>) = 1..(Len(o) + 1)
           /\ \A i \in 1..Len(o) : (o \o <<x>>)[i] = o[i] /\ o[i] \in Deltas
           /\ (o \o <<x>>)[Len(o) + 1] = x
  OBVIOUS

\* After the texts up to the n-th but one, the n-th.
LEMMA NextText ==
    ASSUME NEW o \in Seq(Deltas), NEW x \in Deltas, NEW n \in Nat \ {0}, NEW B,
           Ordered(o), Delivered(o, n - 1, B), x.content = n, n \notin B
    PROVE  Ordered(o \o <<x>>) /\ Delivered(o \o <<x>>, n, B)
  <1>. DEFINE q == o \o <<x>>
              l == Len(o)
  <1>1. /\ l \in Nat /\ DOMAIN o = 1..l /\ DOMAIN q = 1..(l + 1)
        /\ q[l + 1] = x
        /\ \A i \in 1..l : q[i] = o[i] /\ o[i].content \in Nat
    BY Appended DEF Deltas
  <1>2. \A i \in 1..l : o[i].content <= n - 1
    BY <1>1 DEF Delivered
  <1>. HIDE DEF q, l
  <1>3. Ordered(q)
    <2>1. SUFFICES ASSUME NEW i \in 1..(l + 1), NEW j \in 1..(l + 1), i < j,
                          q[i].content # 0, q[j].content # 0
                   PROVE  q[i].content < q[j].content
      BY <1>1 DEF Ordered
    <2>2. i \in 1..l
      BY <1>1, <2>1
    <2>3. CASE j = l + 1
      BY <1>1, <1>2, <2>2, <2>3
    <2>4. CASE j # l + 1
      <3>1. j \in 1..l
        BY <1>1, <2>4
      <3>. QED BY <1>1, <2>1, <2>2, <3>1 DEF Ordered
    <2>. QED BY <2>3, <2>4
  <1>4. ASSUME NEW i \in 1..(l + 1) PROVE q[i].content <= n
    <2>1. CASE i = l + 1
      BY <1>1, <2>1
    <2>2. CASE i # l + 1
      <3>1. i \in 1..l
        BY <1>1, <2>2
      <3>. QED BY <1>1, <1>2, <3>1
    <2>. QED BY <2>1, <2>2
  <1>5. ASSUME NEW t \in 1..n PROVE (\E i \in 1..(l + 1) : q[i].content = t) <=> t \notin B
    <2>1. CASE t = n
      BY <1>1, <2>1
    <2>2. CASE t # n
      <3>1. t \in 1..(n - 1)
        BY <2>2
      <3>2. (\E i \in 1..l : o[i].content = t) <=> t \notin B
        BY <1>1, <3>1 DEF Delivered
      <3>3. \A i \in 1..(l + 1) : i # l + 1 => i \in 1..l
        BY <1>1
      <3>4. \A i \in 1..l : i \in 1..(l + 1)
        BY <1>1
      <3>. QED BY <1>1, <2>2, <3>2, <3>3, <3>4
    <2>. QED BY <2>1, <2>2
  <1>6. Delivered(q, n, B)
    BY <1>1, <1>4, <1>5 DEF Delivered
  <1>. QED BY <1>3, <1>6 DEF q

\* A delta without text adds none.
LEMMA NoText ==
    ASSUME NEW o \in Seq(Deltas), NEW x \in Deltas, NEW n \in Nat, NEW B,
           Ordered(o), Delivered(o, n, B), x.content = 0
    PROVE  Ordered(o \o <<x>>) /\ Delivered(o \o <<x>>, n, B)
  <1>. DEFINE q == o \o <<x>>
              l == Len(o)
  <1>1. /\ l \in Nat /\ DOMAIN o = 1..l /\ DOMAIN q = 1..(l + 1)
        /\ q[l + 1] = x
        /\ \A i \in 1..l : q[i] = o[i] /\ o[i].content \in Nat
    BY Appended DEF Deltas
  <1>2. \A i \in 1..l : o[i].content <= n
    BY <1>1 DEF Delivered
  <1>. HIDE DEF q, l
  <1>3. \A i \in 1..(l + 1) : i # l + 1 => i \in 1..l
    BY <1>1
  <1>4. Ordered(q)
    BY <1>1, <1>3 DEF Ordered
  <1>5. \A i \in 1..(l + 1) : q[i].content <= n
    BY <1>1, <1>2, <1>3
  <1>6. ASSUME NEW t \in 1..n PROVE (\E i \in 1..(l + 1) : q[i].content = t) <=> t \notin B
    <2>1. (\E i \in 1..l : o[i].content = t) <=> t \notin B
      BY <1>1 DEF Delivered
    <2>2. \A i \in 1..l : i \in 1..(l + 1)
      BY <1>1
    <2>. QED BY <1>1, <1>3, <2>1, <2>2
  <1>7. Delivered(q, n, B)
    BY <1>1, <1>5, <1>6 DEF Delivered
  <1>. QED BY <1>4, <1>7 DEF q

\* A text that Recv does not look at is counted and not returned.
LEMMA PassedOver ==
    ASSUME NEW o \in Seq(Deltas), NEW n \in Nat, NEW B, Delivered(o, n, B), n + 1 \in B
    PROVE  Delivered(o, n + 1, B)
  <1>1. \A i \in DOMAIN o : o[i] \in Deltas
    OBVIOUS
  <1>2. \A i \in DOMAIN o : o[i].content \in Nat /\ o[i].content <= n
    BY <1>1 DEF Delivered, Deltas
  <1>3. \A i \in DOMAIN o : o[i].content <= n + 1
    BY <1>2
  <1>4. ASSUME NEW t \in 1..(n + 1) PROVE (\E i \in DOMAIN o : o[i].content = t) <=> t \notin B
    <2>1. CASE t = n + 1
      BY <1>2, <2>1
    <2>2. CASE t # n + 1
      <3>1. t \in 1..n
        BY <2>2
      <3>. QED BY <3>1 DEF Delivered
    <2>. QED BY <2>1, <2>2
  <1>. QED BY <1>3, <1>4 DEF Delivered

\* Texts have numbers.
LEMMA OutTypes ==
    ASSUME Types
    PROVE  sent.texts \in Nat /\ \A i \in DOMAIN out : out[i].content \in Nat
  <1>1. out \in Seq(Deltas) /\ sent \in Sent
    BY DEF Types
  <1>2. \A i \in DOMAIN out : out[i] \in Deltas
    BY <1>1
  <1>. QED BY <1>1, <1>2 DEF Deltas, Sent

\* What was delivered is in order.
LEMMA DeliveredInOrder ==
    ASSUME Types', Ordered(out'), Delivered(out', sent'.texts, sent'.beside)
    PROVE  TextInOrder'
  <1>1. out' \in Seq(Deltas) /\ sent' \in Sent
    BY DEF Types
  <1>2. \A i \in DOMAIN out' : out'[i] \in Deltas
    BY <1>1
  <1>3. sent'.texts \in Nat /\ \A i \in DOMAIN out' : out'[i].content \in Nat
    BY <1>1, <1>2 DEF Sent, Deltas
  <1>4. \A t \in 1..sent'.texts : Passed(t)' <=> t \notin sent'.beside
    BY DEF Delivered, Passed
  <1>5. ASSUME NEW i \in DOMAIN out', NEW t \in 1..out'[i].content
        PROVE  Passed(t)' <=> t \notin sent'.beside
    <2>1. out'[i].content <= sent'.texts
      BY DEF Delivered
    <2>2. t \in 1..sent'.texts
      BY <1>3, <2>1
    <2>. QED BY <1>4, <2>2
  <1>. QED BY <1>4, <1>5 DEF TextInOrder, Ordered, Delivered

\* The upstream sends more: the texts returned are still in order.
LEMMA MoreSent ==
    ASSUME Types, TextInOrder, out' = out, sent'.texts \in Nat, sent.texts <= sent'.texts,
           \A t \in 1..sent.texts : t \in sent'.beside <=> t \in sent.beside,
           end' # "final"
    PROVE  TextInOrder'
  <1>1. /\ sent.texts \in Nat
        /\ \A i \in DOMAIN out : out[i].content \in Nat
    BY OutTypes
  <1>2. \A i \in DOMAIN out : out[i].content <= sent'.texts
    BY <1>1 DEF TextInOrder
  <1>3. \A t : Passed(t)' <=> Passed(t)
    BY DEF Passed
  <1>4. ASSUME NEW i \in DOMAIN out, NEW t \in 1..out[i].content
        PROVE  Passed(t)' <=> t \notin sent'.beside
    <2>1. Passed(t) <=> t \notin sent.beside
      BY DEF TextInOrder
    <2>2. out[i].content <= sent.texts
      BY DEF TextInOrder
    <2>3. t \in 1..sent.texts
      BY <1>1, <2>2
    <2>. QED BY <1>3, <2>1, <2>3
  <1>5. Ordered(out)
    BY DEF TextInOrder, Ordered
  <1>. QED BY <1>2, <1>4, <1>5 DEF TextInOrder, Ordered

-----------------------------------------------------------------------------
(* A turn of the drain loop.                                               *)

\* No final delta was returned before the call has ended.
LEMMA NoneFinal ==
    ASSUME IInv, phase # "ended"
    PROVE  end = "open" /\ \A i \in DOMAIN out : ~out[i].is_final
  <1>1. end = "open"
    BY DEF IInv, PhaseInv
  <1>. QED BY <1>1 DEF IInv, FinalIsEarned

\* Nothing is in the frame: all text was returned, or passed over.
LEMMA EmptyFrame ==
    ASSUME scan' = NoFrame, sent'.texts \in Nat, sent'.beside \subseteq 1..sent'.texts,
           Delivered(out', sent'.texts, sent'.beside)
    PROVE  TextInv'
  <1>1. scan'.data = Bad /\ ~Bad.text /\ ~Bad.beside
    BY DEF NoFrame, Bad, Data
  <1>2. Pieces(scan'.data) = 0
    BY <1>1 DEF Pieces
  <1>3. sent'.texts >= Pieces(scan'.data) /\ sent'.texts - Pieces(scan'.data) = sent'.texts
    BY <1>2
  <1>. QED BY <1>1, <1>3 DEF TextInv

\* The call ends without a final delta: with an error, or an early EOF.
LEMMA TakeFail ==
    ASSUME IInv, phase # "ended", NEW e \in {"eof", "error"}, NEW goes_on,
           Take(Fail(e), goes_on), ref' = ref, sent' = sent, scan' \in {scan, NoFrame}
    PROVE  IInv'
  <1>. USE DEF IInv
  <1>1. out' = out /\ held' = FALSE /\ body' = "closed" /\ end' = e /\ phase' = "ended"
    <2>1. out \in Seq(Deltas)
      BY DEF Types
    <2>2. out \o << >> = out
      BY <2>1
    <2>. QED BY <2>2 DEF Take, Fail, Turn
  <1>2. NoFrame \in [name : EventNames \cup {NoName}, data : Payloads, lines : 0..2, any : BOOLEAN]
    BY DEF NoFrame, Bad, Data, Payloads
  <1>3. Types'
    BY <1>1, <1>2 DEF Types, Phases, Ends
  <1>4. PhaseInv' /\ StreamInv' /\ NoBodyLeaks'
    BY <1>1 DEF PhaseInv, StreamInv, NoBodyLeaks
  <1>5. TextInOrder'
    <2>1. sent.texts \in Nat
      BY DEF Types, Sent
    <2>. QED BY <1>1, <2>1, MoreSent
  <1>6. FinalIsEarned'
    BY <1>1, NoneFinal DEF FinalIsEarned
  <1>. QED BY <1>3, <1>4, <1>5, <1>6

\* A frame that says nothing to the client: the next one is read.
LEMMA TakeSkip ==
    ASSUME IInv, phase = "streaming", NEW h \in BOOLEAN, NEW goes_on \in {"streaming", "last"},
           Take(Skip(h), goes_on), ref' = ref, sent' = sent, scan' = NoFrame,
           TextInv, ~scan.data.text, Settled(h)
    PROVE  IInv'
  <1>. USE DEF IInv
  <1>1. out' = out /\ held' = h /\ body' = body /\ end' = "open" /\ phase' = goes_on
    <2>1. out \in Seq(Deltas)
      BY DEF Types
    <2>2. out \o << >> = out
      BY <2>1
    <2>. QED BY <2>2 DEF Take, Skip, Turn
  <1>2. NoFrame \in [name : EventNames \cup {NoName}, data : Payloads, lines : 0..2, any : BOOLEAN]
    BY DEF NoFrame, Bad, Data, Payloads
  <1>3. Types'
    BY <1>1, <1>2 DEF Types, Phases, Ends
  <1>4. PhaseInv' /\ NoBodyLeaks'
    BY <1>1 DEF PhaseInv, NoBodyLeaks, p
  <1>5. StreamInv'
    <2>1. FrameInv'
      BY DEF FrameInv, NoFrame
    <2>2. TextInv'
      <3>1. sent.texts \in Nat /\ scan.data \in Payloads /\ out \in Seq(Deltas)
        BY DEF Types, Sent
      <3>2. Delivered(out, sent.texts, sent.beside) /\ sent.beside \subseteq 1..sent.texts
        <4>1. CASE scan.data.beside
          <5>1. /\ sent.texts >= 1 /\ Delivered(out, sent.texts - 1, sent.beside)
                /\ sent.texts \in sent.beside
            BY <3>1, <4>1 DEF TextInv, Pieces
          <5>2. sent.texts - 1 \in Nat /\ (sent.texts - 1) + 1 = sent.texts
            BY <3>1, <5>1
          <5>3. Delivered(out, (sent.texts - 1) + 1, sent.beside)
            BY <3>1, <5>1, <5>2, PassedOver
          <5>. QED BY <5>2, <5>3 DEF TextInv
        <4>2. CASE ~scan.data.beside
          <5>1. Pieces(scan.data) = 0
            BY <4>2 DEF Pieces
          <5>2. sent.texts - Pieces(scan.data) = sent.texts
            BY <3>1, <5>1
          <5>. QED BY <5>2 DEF TextInv
        <4>. QED BY <4>1, <4>2
      <3>. QED BY <1>1, <3>1, <3>2, EmptyFrame
    <2>3. TallyInv'
      BY <1>1 DEF TallyInv, Settled, NoFrame, Bad, Data, p, TotalIn, TotalOut
    <2>. QED BY <2>1, <2>2, <2>3 DEF StreamInv
  <1>6. TextInOrder'
    <2>1. sent.texts \in Nat
      BY DEF Types, Sent
    <2>. QED BY <1>1, <2>1, MoreSent
  <1>7. FinalIsEarned'
    BY <1>1, NoneFinal DEF FinalIsEarned
  <1>. QED BY <1>3, <1>4, <1>5, <1>6, <1>7

\* The next text is returned, from a frame or one of provider-fake's documents.
LEMMA TakeEmit ==
    ASSUME IInv, phase = "streaming", NEW h \in BOOLEAN, NEW goes_on \in {"streaming", "last"},
           NEW n \in Nat \ {0},
           Take(Emit(n, h), goes_on), ref' = ref, sent' \in Sent, scan' = NoFrame,
           sent'.beside \subseteq 1..sent'.texts, n \notin sent'.beside,
           sent'.texts = n \/ (sent'.texts = n + 1 /\ n + 1 \in sent'.beside),
           Delivered(out, n - 1, sent'.beside), Settled(h)'
    PROVE  IInv'
  <1>. USE DEF IInv
  <1>. DEFINE x == TextDelta(n)
  <1>0. sent'.texts \in Nat /\ out \in Seq(Deltas)
    BY DEF Sent, Types
  <1>1. /\ out' = out \o <<x>> /\ held' = h /\ body' = body
        /\ end' = "open" /\ phase' = goes_on
    BY DEF Take, Emit, Turn
  <1>2. x \in Deltas /\ x.content = n /\ ~x.is_final
    BY <1>0 DEF TextDelta, Deltas
  <1>3. NoFrame \in [name : EventNames \cup {NoName}, data : Payloads, lines : 0..2, any : BOOLEAN]
    BY DEF NoFrame, Bad, Data, Payloads
  <1>4. Ordered(out)
    BY DEF TextInOrder, Ordered
  <1>. HIDE DEF x
  <1>5. out' \in Seq(Deltas)
    BY <1>0, <1>1, <1>2, Appended
  <1>6. Types'
    BY <1>1, <1>3, <1>5 DEF Types, Phases, Ends
  <1>7. PhaseInv' /\ NoBodyLeaks'
    BY <1>1 DEF PhaseInv, NoBodyLeaks, p
  <1>8. Ordered(out') /\ Delivered(out', sent'.texts, sent'.beside)
    <2>1. Ordered(out') /\ Delivered(out', n, sent'.beside)
      BY <1>0, <1>1, <1>2, <1>4, NextText
    <2>2. CASE sent'.texts = n
      BY <2>1, <2>2
    <2>3. CASE sent'.texts = n + 1 /\ n + 1 \in sent'.beside
      BY <1>5, <2>1, <2>3, PassedOver
    <2>. QED BY <2>2, <2>3
  <1>9. StreamInv'
    <2>1. FrameInv'
      BY DEF FrameInv, NoFrame
    <2>2. TextInv'
      BY <1>0, <1>8, EmptyFrame
    <2>3. TallyInv'
      BY <1>1 DEF TallyInv, Settled, NoFrame, Bad, Data, p, TotalIn, TotalOut
    <2>. QED BY <2>1, <2>2, <2>3 DEF StreamInv
  <1>10. TextInOrder'
    BY <1>6, <1>8, DeliveredInOrder
  <1>11. FinalIsEarned'
    <2>1. \A i \in DOMAIN out' : ~out'[i].is_final
      <3>1. \A i \in 1..(Len(out) + 1) : i # Len(out) + 1 => i \in 1..Len(out)
        BY <1>0, <1>2, Appended
      <3>. QED BY <1>0, <1>1, <1>2, <3>1, NoneFinal, Appended
    <2>. QED BY <1>1, <2>1 DEF FinalIsEarned
  <1>. QED BY <1>6, <1>7, <1>9, <1>10, <1>11

\* The final delta is returned, with the last text if it has one.
LEMMA TakeFinish ==
    ASSUME IInv, phase = "streaming", NEW x \in Deltas, NEW goes_on,
           Take(Finish(x), goes_on), ref' = ref, sent' \in Sent, scan' = NoFrame,
           x.is_final, sent'.complete, x.finish <=> sent'.finish,
           x.input <=> TotalIn', x.output <=> TotalOut',
           NEW n \in Nat,
           \/ x.content = 0 /\ Delivered(out, n, sent'.beside)
           \/ x.content = n /\ n >= 1 /\ n \notin sent'.beside /\ Delivered(out, n - 1, sent'.beside),
           sent'.texts = n \/ (sent'.texts = n + 1 /\ n + 1 \in sent'.beside)
    PROVE  IInv'
  <1>. USE DEF IInv
  <1>0. out \in Seq(Deltas)
    BY DEF Types
  <1>1. /\ out' = out \o <<x>> /\ held' = FALSE /\ body' = "closed"
        /\ end' = "final" /\ phase' = "ended"
    BY DEF Take, Finish, Turn
  <1>2. NoFrame \in [name : EventNames \cup {NoName}, data : Payloads, lines : 0..2, any : BOOLEAN]
    BY DEF NoFrame, Bad, Data, Payloads
  <1>3. Ordered(out)
    BY DEF TextInOrder, Ordered
  <1>4. out' \in Seq(Deltas)
    BY <1>0, <1>1, Appended
  <1>5. Types'
    BY <1>1, <1>2, <1>4 DEF Types, Phases, Ends
  <1>6. PhaseInv' /\ NoBodyLeaks' /\ StreamInv'
    BY <1>1 DEF PhaseInv, NoBodyLeaks, StreamInv
  <1>7. Ordered(out') /\ Delivered(out', sent'.texts, sent'.beside)
    <2>1. Ordered(out') /\ Delivered(out', n, sent'.beside)
      <3>1. CASE x.content = 0 /\ Delivered(out, n, sent'.beside)
        BY <1>0, <1>1, <1>3, <3>1, NoText
      <3>2. CASE x.content = n /\ n >= 1 /\ n \notin sent'.beside /\ Delivered(out, n - 1, sent'.beside)
        <4>1. n \in Nat \ {0}
          BY <3>2
        <4>. QED BY <1>0, <1>1, <1>3, <3>2, <4>1, NextText
      <3>. QED BY <3>1, <3>2
    <2>2. CASE sent'.texts = n
      BY <2>1, <2>2
    <2>3. CASE sent'.texts = n + 1 /\ n + 1 \in sent'.beside
      BY <1>4, <2>1, <2>3, PassedOver
    <2>. QED BY <2>2, <2>3
  <1>8. TextInOrder'
    BY <1>5, <1>7, DeliveredInOrder
  <1>9. FinalIsEarned'
    <2>1. \A i \in 1..(Len(out) + 1) : i # Len(out) + 1 => i \in 1..Len(out)
      BY <1>0, Appended
    <2>2. \A i \in DOMAIN out' : out'[i].is_final => i = Len(out')
      BY <1>0, <1>1, <2>1, NoneFinal, Appended
    <2>3. out' # << >> /\ Last(out') = x
      BY <1>0, <1>1, <1>4, Appended DEF Last
    <2>4. /\ x.finish \in BOOLEAN /\ x.input \in BOOLEAN /\ x.output \in BOOLEAN
          /\ sent'.finish \in BOOLEAN
      BY DEF Deltas, Sent
    <2>5. /\ x.finish = sent'.finish
          /\ x.input = ("last" \in sent'.input) /\ x.output = ("last" \in sent'.output)
      BY <2>4 DEF TotalIn, TotalOut
    <2>. QED BY <1>1, <2>2, <2>3, <2>5 DEF FinalIsEarned
  <1>. QED BY <1>5, <1>6, <1>8, <1>9

-----------------------------------------------------------------------------
(* The steps.                                                              *)

\* Before the stream: a call is refused, marshalled or accepted.
LEMMA DispatchStep ==
    ASSUME IInv, ParseWorkerRef \/ Lookup \/ UnknownMode \/ Marshal \/ Refused \/ Accepted
    PROVE  IInv'
  <1>. USE DEF IInv
  <1>1. /\ phase \in {"new", "requested"}
        /\ body = "none" /\ out = << >> /\ scan = NoFrame /\ ~held /\ end = "open"
        /\ sent.texts = 0 /\ sent.beside = {}
        /\ ~sent.finish /\ ~TotalIn /\ ~TotalOut /\ ~sent.complete
    BY DEF PhaseInv, ParseWorkerRef, Lookup, UnknownMode, Marshal, Refused, Accepted
  <1>2. ref' = ref /\ scan' = scan /\ held' = held /\ out' = out /\ sent' = sent
    BY DEF ParseWorkerRef, Lookup, UnknownMode, Marshal, Refused, Accepted
  <1>3. CASE ParseWorkerRef \/ Lookup \/ UnknownMode \/ Refused
    <2>1. /\ phase' = "ended" /\ end' \in {"invalid", "not_found", "error"}
          /\ body' \in {"none", "closed"}
      BY <1>1, <1>3 DEF ParseWorkerRef, Lookup, UnknownMode, Refused, EndWith
    <2>2. Types'
      BY <1>2, <2>1 DEF Types, Phases, Ends
    <2>3. PhaseInv' /\ StreamInv' /\ NoBodyLeaks'
      BY <2>1 DEF PhaseInv, StreamInv, NoBodyLeaks
    <2>4. TextInOrder' /\ FinalIsEarned'
      BY <1>1, <1>2, <2>1 DEF TextInOrder, FinalIsEarned
    <2>. QED BY <2>2, <2>3, <2>4
  <1>4. CASE Marshal
    <2>1. phase' = "requested" /\ end' = end /\ body' = body /\ p \in Names
      BY <1>4 DEF Marshal
    <2>2. Types'
      BY <1>2, <2>1 DEF Types, Phases
    <2>3. PhaseInv' /\ StreamInv' /\ NoBodyLeaks'
      BY <1>1, <1>2, <2>1 DEF PhaseInv, StreamInv, NoBodyLeaks, p, TotalIn, TotalOut
    <2>4. TextInOrder' /\ FinalIsEarned'
      BY <1>1, <1>2, <2>1 DEF TextInOrder, FinalIsEarned
    <2>. QED BY <2>2, <2>3, <2>4
  <1>5. CASE Accepted
    <2>1. phase' = "streaming" /\ end' = end /\ body' = "open" /\ p \in Names
      BY <1>5 DEF Accepted, PhaseInv
    <2>2. Types'
      BY <1>2, <2>1 DEF Types, Phases
    <2>3. PhaseInv' /\ NoBodyLeaks'
      BY <1>1, <1>2, <2>1 DEF PhaseInv, NoBodyLeaks, p
    <2>4. FrameInv'
      BY <1>1, <1>2 DEF FrameInv, NoFrame
    <2>5. TextInv'
      <3>1. Delivered(out', sent'.texts, sent'.beside)
        BY <1>1, <1>2 DEF Delivered
      <3>. QED BY <1>1, <1>2, <3>1, EmptyFrame
    <2>6. TallyInv'
      BY <1>1, <1>2 DEF TallyInv, NoFrame, Bad, Data, TotalIn, TotalOut
    <2>7. TextInOrder' /\ FinalIsEarned'
      BY <1>1, <1>2, <2>1 DEF TextInOrder, FinalIsEarned
    <2>. QED BY <2>2, <2>3, <2>4, <2>5, <2>6, <2>7 DEF StreamInv
  <1>. QED BY <1>3, <1>4, <1>5

\* A line that is read changes the frame and what was sent, and nothing else.
LEMMA LineFrame ==
    ASSUME IInv, phase = "streaming", sent' \in Sent, sent.texts <= sent'.texts,
           \A t \in 1..sent.texts : t \in sent'.beside <=> t \in sent.beside,
           UNCHANGED <<ref, phase, held, body, out, end>>,
           scan' \in [name : EventNames \cup {NoName}, data : Payloads, lines : 0..2, any : BOOLEAN],
           FrameInv', Doomed' \/ (TextInv' /\ TallyInv')
    PROVE  IInv'
  <1>. USE DEF IInv
  <1>1. Types'
    BY DEF Types
  <1>2. PhaseInv' /\ NoBodyLeaks'
    BY DEF PhaseInv, NoBodyLeaks, p
  <1>3. end = "open" /\ sent'.texts \in Nat
    BY NoneFinal DEF Sent
  <1>4. TextInOrder'
    BY <1>3, MoreSent
  <1>5. FinalIsEarned'
    BY <1>3, NoneFinal DEF FinalIsEarned
  <1>. QED BY <1>1, <1>2, <1>4, <1>5 DEF StreamInv

\* Lines without data.
LEMMA OtherLineStep ==
    ASSUME IInv, (\E name \in EventNames : EventLine(name)) \/ OtherLine
    PROVE  IInv'
  <1>. USE DEF IInv
  <1>0. /\ scan \in [name : EventNames \cup {NoName}, data : Payloads, lines : 0..2, any : BOOLEAN]
        /\ sent \in Sent /\ sent.texts \in Nat
    BY DEF Types, Sent
  <1>1. CASE \E name \in EventNames : EventLine(name)
    <2>1. PICK name \in EventNames : EventLine(name)
      BY <1>1
    <2>2. /\ phase = "streaming" /\ p = "anthropic" /\ scan.lines = 0
          /\ UNCHANGED <<ref, phase, held, body, out, end, sent>>
          /\ scan' = [scan EXCEPT !.name = name, !.any = TRUE]
      BY <2>1 DEF EventLine
    <2>3. FrameInv /\ scan.data = Bad /\ TextInv /\ TallyInv
      BY <2>2 DEF StreamInv, FrameInv, Doomed
    <2>4. /\ scan'.data = Bad /\ scan'.lines = 0
          /\ scan' \in [name : EventNames \cup {NoName}, data : Payloads, lines : 0..2, any : BOOLEAN]
      BY <1>0, <2>2, <2>3
    <2>5. FrameInv'
      BY <2>2, <2>4 DEF FrameInv, p
    <2>6. TextInv'
      BY <2>2, <2>3, <2>4 DEF TextInv, Number
    <2>7. ~Bad.usage /\ ~Bad.finish
      BY DEF Bad, Data
    <2>8. TallyInv'
      BY <2>2, <2>3, <2>4, <2>7 DEF TallyInv, p, TotalIn, TotalOut
    <2>. QED BY <1>0, <2>2, <2>4, <2>5, <2>6, <2>8, LineFrame
  <1>2. CASE OtherLine
    <2>1. /\ phase = "streaming" /\ p # "fake"
          /\ UNCHANGED <<ref, phase, held, body, out, end, sent>>
          /\ scan' = [scan EXCEPT !.any = TRUE]
      BY <1>2 DEF OtherLine
    <2>2. /\ scan'.data = scan.data /\ scan'.lines = scan.lines /\ scan'.name = scan.name
          /\ scan' \in [name : EventNames \cup {NoName}, data : Payloads, lines : 0..2, any : BOOLEAN]
      BY <1>0, <2>1
    <2>3. FrameInv /\ (Doomed \/ (TextInv /\ TallyInv))
      BY <2>1 DEF StreamInv
    <2>4. FrameInv'
      BY <2>1, <2>2, <2>3 DEF FrameInv, DataLines, p
    <2>5. Doomed => Doomed'
      BY <2>1, <2>2 DEF Doomed, p
    <2>6. TextInv => TextInv'
      BY <2>1, <2>2 DEF TextInv, Number
    <2>7. TallyInv => TallyInv'
      BY <2>1, <2>2 DEF TallyInv, p, TotalIn, TotalOut
    <2>. QED BY <1>0, <2>1, <2>2, <2>3, <2>4, <2>5, <2>6, <2>7, LineFrame
  <1>. QED BY <1>1, <1>2

\* What may be in a data line.
LEMMA Documents ==
    ASSUME p \in Remote, NEW name \in EventNames \cup {NoName}, NEW d \in DataLines(p, name)
    PROVE  d \in Payloads
  <1>1. CASE p = "openai"
    BY <1>1, OpenaiDocuments DEF DataLines
  <1>2. CASE p = "anthropic"
    BY <1>2, AnthropicDocuments DEF DataLines
  <1>3. CASE p = "google"
    BY <1>3, GoogleDocuments DEF DataLines
  <1>. QED BY <1>1, <1>2, <1>3 DEF Remote

\* The first data line of a frame is what the frame holds.
LEMMA FirstData ==
    ASSUME IInv, phase = "streaming", p \in Remote, scan.lines = 0,
           NEW d \in DataLines(p, scan.name), DataLine(d)
    PROVE  TextInv' /\ TallyInv'
  <1>. USE DEF IInv
  <1>1. scan.data = Bad /\ TextInv /\ TallyInv /\ scan.name \in EventNames \cup {NoName}
    BY DEF StreamInv, FrameInv, Doomed, Types
  <1>2. /\ scan'.data = d /\ scan'.lines = 1 /\ scan'.name = scan.name
        /\ ref' = ref /\ held' = held /\ out' = out /\ sent' = Tally(d)
    BY DEF DataLine, Types
  <1>3. d \in Payloads
    BY <1>1, Documents
  <1>4. ~Bad.text /\ ~Bad.beside /\ ~Bad.finish /\ ~Bad.usage /\ ~Bad.choice
    BY DEF Bad, Data
  <1>5. /\ Delivered(out, sent.texts, sent.beside) /\ sent.texts \in Nat
        /\ sent.beside \subseteq 1..sent.texts
    <2>1. sent.texts \in Nat
      BY DEF Types, Sent
    <2>2. Pieces(scan.data) = 0
      BY <1>1, <1>4 DEF Pieces
    <2>3. sent.texts - Pieces(scan.data) = sent.texts
      BY <2>1, <2>2
    <2>. QED BY <1>1, <2>1, <2>3 DEF TextInv
  <1>6. TextInv'
    <2>1. /\ Pieces(d) \in 0..2
          /\ d.text => Pieces(d) = IF d.beside THEN 2 ELSE 1
          /\ d.beside => Pieces(d) >= 1
      BY <1>3 DEF Pieces
    <2>2. /\ sent'.texts = sent.texts + Pieces(d)
          /\ sent'.beside = sent.beside \cup (IF d.beside THEN {sent.texts + Pieces(d)} ELSE {})
      BY <1>2 DEF Tally
    <2>3. sent'.texts - Pieces(d) = sent.texts /\ sent'.texts >= Pieces(d)
      BY <1>5, <2>1, <2>2
    <2>4. sent'.beside \subseteq 1..sent'.texts
      BY <1>5, <2>1, <2>2
    <2>5. \A t \in 1..sent.texts : t \in sent'.beside <=> t \in sent.beside
      BY <1>5, <2>1, <2>2
    <2>6. Delivered(out, sent.texts, sent'.beside)
      BY <1>5, <2>5 DEF Delivered
    <2>7. d.beside => sent'.texts \in sent'.beside
      BY <2>2
    <2>8. ASSUME d.text PROVE Number(d)' \notin sent'.beside
      <3>1. Number(d)' = sent.texts + 1
        BY <1>5, <2>1, <2>2, <2>8 DEF Number
      <3>2. sent.texts + 1 \notin sent.beside
        BY <1>5
      <3>3. d.beside => sent.texts + Pieces(d) # sent.texts + 1
        BY <1>5, <2>1, <2>8
      <3>. QED BY <2>2, <3>1, <3>2, <3>3
    <2>. QED BY <1>2, <2>3, <2>4, <2>6, <2>7, <2>8 DEF TextInv, Number
  <1>7. p' = p
    BY <1>2 DEF p
  <1>8. CASE p = "openai"
    <2>1. /\ sent.finish <=> held
          /\ sent.complete <=> held
          /\ ~TotalIn /\ ~TotalOut
      BY <1>1, <1>4, <1>8 DEF TallyInv
    <2>2. /\ sent'.finish <=> sent.finish \/ d.finish
          /\ sent'.complete <=> sent.complete \/ d.finish \/ (d.usage /\ ~d.choice)
      BY <1>2, <1>8 DEF Tally, IsTotal
    <2>3. /\ TotalIn' <=> TotalIn \/ (d.usage /\ (~d.choice \/ d.finish))
          /\ TotalOut' <=> TotalOut \/ (d.usage /\ (~d.choice \/ d.finish))
      BY <1>2, <1>8 DEF Tally, IsTotal, UsageOf, TotalIn, TotalOut
    <2>. QED BY <1>2, <1>6, <1>7, <1>8, <2>1, <2>2, <2>3 DEF TallyInv
  <1>9. CASE p = "anthropic"
    <2>1. /\ TotalIn <=> held
          /\ ~sent.finish /\ ~TotalOut /\ ~sent.complete
      BY <1>1, <1>4, <1>9 DEF TallyInv
    <2>2. /\ sent'.finish <=> sent.finish \/ d.finish
          /\ sent'.complete <=> sent.complete \/ d.finish \/ scan.name = "message_delta"
      BY <1>2, <1>9 DEF Tally
    <2>3. /\ TotalIn' <=> TotalIn \/ (d.usage /\ scan.name = "message_start")
          /\ TotalOut' <=> TotalOut \/ (d.usage /\ scan.name = "message_delta")
      BY <1>2, <1>9 DEF Tally, IsTotal, UsageOf, TotalIn, TotalOut
    <2>4. d.finish => scan.name = "message_delta"
      BY <1>1, <1>9, AnthropicDocuments DEF DataLines
    <2>. QED BY <1>2, <1>6, <1>7, <1>9, <2>1, <2>2, <2>3, <2>4 DEF TallyInv
  <1>10. CASE p = "google"
    <2>1. ~sent.finish /\ ~sent.complete /\ ~TotalIn /\ ~TotalOut
      BY <1>1, <1>4, <1>10 DEF TallyInv
    <2>2. /\ sent'.finish <=> sent.finish \/ d.finish
          /\ sent'.complete <=> sent.complete \/ d.finish
      BY <1>2, <1>10 DEF Tally
    <2>3. /\ TotalIn' <=> TotalIn \/ (d.usage /\ d.finish)
          /\ TotalOut' <=> TotalOut \/ (d.usage /\ d.finish)
      BY <1>2, <1>10 DEF Tally, IsTotal, UsageOf, TotalIn, TotalOut
    <2>. QED BY <1>2, <1>6, <1>7, <1>10, <2>1, <2>2, <2>3 DEF TallyInv
  <1>. QED BY <1>6, <1>8, <1>9, <1>10 DEF Remote

\* A second data line spoils the frame, or is in a frame Recv does not look at,
\* which carries nothing.
LEMMA SecondData ==
    ASSUME IInv, phase = "streaming", p \in Remote, scan.lines # 0,
           NEW d \in DataLines(p, scan.name), DataLine(d)
    PROVE  Doomed' \/ (TextInv' /\ TallyInv')
  <1>. USE DEF IInv
  <1>0. scan.lines \in 0..2 /\ scan.name \in EventNames \cup {NoName} /\ sent.texts \in Nat
    BY DEF Types, Sent
  <1>1. /\ scan'.data = Bad /\ scan'.lines = 2 /\ scan'.name = scan.name
        /\ ref' = ref /\ held' = held /\ out' = out /\ sent' = Tally(d)
    BY <1>0 DEF DataLine, Types
  <1>2. p' = p
    BY <1>1 DEF p
  <1>3. CASE p = "anthropic" /\ scan.name \in {NoName, "ping"}
    <2>1. TextInv /\ TallyInv /\ FrameInv
      BY <1>3 DEF StreamInv, Doomed
    <2>2. scan.data \in DataLines(p, scan.name)
      BY <2>1 DEF FrameInv, DataLines
    <2>3. ~d.text /\ ~d.beside /\ ~d.finish /\ ~d.usage
      BY <1>0, <1>3, AnthropicDocuments DEF DataLines, NoName
    <2>4. ~scan.data.text /\ ~scan.data.beside /\ ~scan.data.finish /\ ~scan.data.usage
      BY <1>0, <1>3, <2>2, AnthropicDocuments DEF DataLines, NoName
    <2>5. ~Bad.text /\ ~Bad.beside /\ ~Bad.finish /\ ~Bad.usage
      BY DEF Bad, Data
    <2>6. sent'.texts = sent.texts /\ sent'.beside = sent.beside
      <3>1. Pieces(d) = 0
        BY <2>3 DEF Pieces
      <3>. QED BY <1>0, <1>1, <2>3, <3>1 DEF Tally
    <2>7. TextInv'
      <3>1. Pieces(scan.data) = 0 /\ Pieces(Bad) = 0
        BY <2>4, <2>5 DEF Pieces
      <3>. QED BY <1>1, <2>1, <2>4, <2>5, <2>6, <3>1 DEF TextInv
    <2>8. /\ sent'.finish <=> sent.finish
          /\ sent'.complete <=> sent.complete
          /\ TotalIn' <=> TotalIn
          /\ TotalOut' <=> TotalOut
      BY <1>1, <1>3, <2>3 DEF Tally, UsageOf, TotalIn, TotalOut, NoName
    <2>9. /\ TotalIn <=> held
          /\ ~sent.finish /\ ~TotalOut /\ ~sent.complete
      BY <1>3, <2>1, <2>4 DEF TallyInv, NoName
    <2>10. TallyInv'
      BY <1>1, <1>2, <1>3, <2>5, <2>8, <2>9 DEF TallyInv, NoName
    <2>. QED BY <2>7, <2>10
  <1>4. CASE ~(p = "anthropic" /\ scan.name \in {NoName, "ping"})
    BY <1>1, <1>2, <1>4 DEF Doomed
  <1>. QED BY <1>3, <1>4

\* A data line is read into the frame.
LEMMA DataLineStep ==
    ASSUME IInv, phase = "streaming", p # "fake",
           NEW d \in DataLines(p, scan.name), DataLine(d)
    PROVE  IInv'
  <1>. USE DEF IInv
  <1>0. p \in Remote
    BY DEF PhaseInv, Names, Remote
  <1>1. /\ scan \in [name : EventNames \cup {NoName}, data : Payloads, lines : 0..2, any : BOOLEAN]
        /\ sent \in Sent
    BY DEF Types
  <1>2. d \in Payloads
    BY <1>0, <1>1, Documents
  <1>3. /\ UNCHANGED <<ref, phase, held, body, out, end>> /\ sent' = Tally(d)
        /\ scan'.data = IF scan.lines = 0 THEN d ELSE Bad
        /\ scan'.name = scan.name
        /\ scan.lines = 0 => scan'.lines = 1
        /\ scan.lines # 0 => scan'.lines = 2
    BY <1>1 DEF DataLine
  <1>4. Bad \in Payloads
    BY DEF Bad, Data, Payloads
  <1>5. scan' \in [name : EventNames \cup {NoName}, data : Payloads, lines : 0..2, any : BOOLEAN]
    <2>1. (IF scan.lines = 0 THEN d ELSE Bad) \in Payloads
      BY <1>2, <1>4
    <2>2. (IF scan.lines = 2 THEN 2 ELSE scan.lines + 1) \in 0..2
      BY <1>1
    <2>. QED BY <1>1, <2>1, <2>2 DEF DataLine
  <1>6. /\ sent' \in Sent /\ sent.texts <= sent'.texts
        /\ \A t \in 1..sent.texts : t \in sent'.beside <=> t \in sent.beside
    <2>1. Pieces(d) \in Nat /\ (d.beside => Pieces(d) >= 1) /\ sent.texts \in Nat
      BY <1>1, <1>2 DEF Pieces, Sent
    <2>2. /\ Tally(d).texts = sent.texts + Pieces(d)
          /\ Tally(d).beside = sent.beside \cup (IF d.beside THEN {sent.texts + Pieces(d)} ELSE {})
      BY DEF Tally
    <2>3. Tally(d).texts \in Nat /\ sent.texts <= Tally(d).texts
      BY <2>1, <2>2
    <2>4. \A t \in 1..sent.texts : t \in Tally(d).beside <=> t \in sent.beside
      BY <2>1, <2>2
    <2>5. sent.beside \subseteq Nat /\ sent.input \subseteq When /\ sent.output \subseteq When
      BY <1>1 DEF Sent
    <2>6. Tally(d).beside \in SUBSET Nat
      BY <2>1, <2>2, <2>5
    <2>7. \A name : UsageOf(d, name) \subseteq When
      BY DEF UsageOf, When
    <2>8. Tally(d).input \in SUBSET When /\ Tally(d).output \in SUBSET When
      BY <2>5, <2>7 DEF Tally
    <2>9. Tally(d).finish \in BOOLEAN /\ Tally(d).complete \in BOOLEAN
      BY DEF Tally
    <2>10. Tally(d) = [texts |-> Tally(d).texts, beside |-> Tally(d).beside,
                       finish |-> Tally(d).finish, input |-> Tally(d).input,
                       output |-> Tally(d).output, complete |-> Tally(d).complete]
      BY DEF Tally
    <2>11. Tally(d) \in Sent
      BY <2>3, <2>6, <2>8, <2>9, <2>10 DEF Sent
    <2>. QED BY <1>3, <2>3, <2>4, <2>11
  <1>7. FrameInv'
    <2>1. p' = p
      BY <1>3 DEF p
    <2>. QED BY <1>3, <2>1 DEF FrameInv, DataLines
  <1>8. Doomed' \/ (TextInv' /\ TallyInv')
    BY <1>0, FirstData, SecondData
  <1>. QED BY <1>3, <1>5, <1>6, <1>7, <1>8, LineFrame

\* A frame is complete, by a blank line or the end of the body: Recv takes it.
LEMMA FrameTaken ==
    ASSUME IInv, phase = "streaming", scan.any, NEW goes_on \in {"streaming", "last"},
           Take(Recv(scan.name, scan.data), goes_on), ref' = ref, sent' = sent, scan' = NoFrame
    PROVE  IInv'
  <1>. USE DEF IInv
  <1>. DEFINE turn == Recv(scan.name, scan.data)
  <1>1. FrameInv /\ (Doomed \/ (TextInv /\ TallyInv)) /\ p \in Names
    BY DEF StreamInv, PhaseInv
  <1>2. Fails(turn) \/ (~Doomed /\ (Skips(turn) \/ Emits(turn) \/ Finishes(turn)))
    BY <1>1, RecvTurn
  <1>. DEFINE n == Number(scan.data)
  <1>7. ASSUME TextInv, scan.data.text
        PROVE  /\ n \in Nat \ {0} /\ n \notin sent.beside
               /\ Delivered(out, n - 1, sent.beside)
               /\ sent.texts = n \/ (sent.texts = n + 1 /\ n + 1 \in sent.beside)
    <2>1. /\ n \in Nat \ {0} /\ n - 1 = sent.texts - Pieces(scan.data)
          /\ sent.texts = IF scan.data.beside THEN n + 1 ELSE n
      BY <1>7, TextNumber
    <2>2. /\ Delivered(out, sent.texts - Pieces(scan.data), sent.beside) /\ n \notin sent.beside
          /\ scan.data.beside => sent.texts \in sent.beside
      BY <1>7 DEF TextInv
    <2>. HIDE DEF n
    <2>. QED BY <2>1, <2>2
  <1>. HIDE DEF turn, n
  <1>3. CASE Fails(turn)
    <2>1. PICK e \in {"eof", "error"} : turn = Fail(e)
      BY <1>3 DEF Fails
    <2>2. Take(Fail(e), goes_on)
      BY <2>1 DEF turn
    <2>. QED BY <2>2, TakeFail
  <1>4. CASE ~Doomed /\ Skips(turn)
    <2>1. PICK h \in BOOLEAN : turn = Skip(h) /\ ~scan.data.text /\ Settled(h)
      BY <1>4 DEF Skips
    <2>2. Take(Skip(h), goes_on)
      BY <2>1 DEF turn
    <2>. QED BY <1>1, <1>4, <2>1, <2>2, TakeSkip
  <1>5. CASE ~Doomed /\ Emits(turn)
    <2>1. PICK h \in BOOLEAN : turn = Emit(n, h) /\ scan.data.text /\ Settled(h)
      BY <1>5 DEF Emits, n
    <2>2. Take(Emit(n, h), goes_on)
      BY <2>1 DEF turn
    <2>3. /\ n \in Nat \ {0} /\ n \notin sent.beside
          /\ Delivered(out, n - 1, sent.beside)
          /\ sent.texts = n \/ (sent.texts = n + 1 /\ n + 1 \in sent.beside)
      BY <1>1, <1>5, <1>7, <2>1
    <2>4. Settled(h)'
      BY <2>1 DEF Settled, p, TotalIn, TotalOut
    <2>5. sent' \in Sent /\ sent.beside \subseteq 1..sent.texts
      BY <1>1, <1>5 DEF TextInv, Types
    <2>. QED BY <2>2, <2>3, <2>4, <2>5, TakeEmit
  <1>6. CASE ~Doomed /\ Finishes(turn)
    <2>1. PICK x \in Deltas : turn = Finish(x) /\ Closing(x)
      BY <1>6 DEF Finishes
    <2>2. Take(Finish(x), goes_on)
      BY <2>1 DEF turn
    <2>3. /\ x.is_final /\ sent'.complete /\ (x.finish <=> sent'.finish)
          /\ (x.input <=> TotalIn') /\ (x.output <=> TotalOut') /\ sent' \in Sent
      BY <2>1 DEF Closing, Types, TotalIn, TotalOut
    <2>4. CASE scan.data.text
      <3>1. /\ n \in Nat /\ n >= 1 /\ x.content = n /\ n \notin sent'.beside
            /\ Delivered(out, n - 1, sent'.beside)
            /\ sent'.texts = n \/ (sent'.texts = n + 1 /\ n + 1 \in sent'.beside)
        BY <1>1, <1>6, <1>7, <2>1, <2>4 DEF Closing, n
      <3>. QED BY <2>2, <2>3, <3>1, TakeFinish
    <2>5. CASE ~scan.data.text
      <3>. DEFINE m == sent'.texts - Pieces(scan.data)
      <3>1. /\ m \in Nat /\ x.content = 0 /\ Delivered(out, m, sent'.beside)
            /\ sent'.texts = m \/ (sent'.texts = m + 1 /\ m + 1 \in sent'.beside)
        <4>1. sent.texts \in Nat /\ scan.data \in Payloads
          BY DEF Types, Sent
        <4>2. CASE scan.data.beside
          <5>1. Pieces(scan.data) = 1
            BY <2>5, <4>2 DEF Pieces
          <5>2. sent.texts >= 1 /\ Delivered(out, sent.texts - Pieces(scan.data), sent.beside) /\ sent.texts \in sent.beside
            BY <1>1, <1>6, <4>2, <5>1 DEF TextInv
          <5>3. m \in Nat /\ sent.texts = m + 1
            BY <4>1, <5>1, <5>2
          <5>. QED BY <2>1, <2>5, <5>2, <5>3 DEF Closing
        <4>3. CASE ~scan.data.beside
          <5>1. Pieces(scan.data) = 0
            BY <2>5, <4>3 DEF Pieces
          <5>2. Delivered(out, sent.texts - Pieces(scan.data), sent.beside)
            BY <1>1, <1>6 DEF TextInv
          <5>3. m = sent.texts
            BY <4>1, <5>1
          <5>. QED BY <2>1, <2>5, <4>1, <5>2, <5>3 DEF Closing
        <4>. QED BY <4>2, <4>3
      <3>. HIDE DEF m
      <3>. QED BY <2>2, <2>3, <3>1, TakeFinish
    <2>. QED BY <2>4, <2>5
  <1>. QED BY <1>2, <1>3, <1>4, <1>5, <1>6

\* provider-fake's documents need no frame.
LEMMA FakeStep ==
    ASSUME IInv, FakeChunk \/ FakeFinal \/ FakeEnds
    PROVE  IInv'
  <1>. USE DEF IInv
  <1>1. phase = "streaming" /\ p = "fake" /\ ref' = ref /\ scan' = scan
    BY DEF FakeChunk, FakeFinal, FakeEnds
  <1>2. scan = NoFrame /\ TextInv /\ TallyInv /\ sent \in Sent /\ sent.texts \in Nat
    BY <1>1 DEF StreamInv, FrameInv, Doomed, NoFrame, Types, Sent
  <1>3. ~scan.data.text
    BY <1>2 DEF NoFrame, Bad, Data
  <1>4. /\ Delivered(out, sent.texts, sent.beside) /\ sent.beside \subseteq 1..sent.texts
        /\ sent.texts + 1 \notin sent.beside
    <2>1. Pieces(scan.data) = 0
      BY <1>2 DEF NoFrame, Bad, Data, Pieces
    <2>2. sent.texts - Pieces(scan.data) = sent.texts
      BY <1>2, <2>1
    <2>3. Delivered(out, sent.texts, sent.beside) /\ sent.beside \subseteq 1..sent.texts
      BY <1>2, <2>2 DEF TextInv
    <2>. QED BY <1>2, <2>3
  <1>5. ~sent.finish /\ ~TotalIn /\ ~TotalOut /\ ~sent.complete
    BY <1>1, <1>2 DEF TallyInv
  <1>6. CASE FakeChunk
    <2>1. sent' = [sent EXCEPT !.texts = @ + 1] /\ Take(Emit(sent.texts + 1, FALSE), "streaming")
      BY <1>6 DEF FakeChunk
    <2>2. sent'.texts = sent.texts + 1 /\ sent'.beside = sent.beside /\ sent' \in Sent
      BY <1>2, <2>1 DEF Sent
    <2>3. sent'.texts \in Nat \ {0} /\ sent'.texts - 1 = sent.texts
      BY <1>2, <2>2
    <2>4. ~sent'.finish /\ ~TotalIn' /\ ~TotalOut' /\ ~sent'.complete
      BY <1>2, <1>5, <2>1 DEF Sent, TotalIn, TotalOut
    <2>5. Settled(FALSE)'
      BY <1>1, <2>4 DEF Settled, p
    <2>6. Take(Emit(sent'.texts, FALSE), "streaming") /\ Delivered(out, sent'.texts - 1, sent'.beside)
      BY <1>4, <2>1, <2>2, <2>3
    <2>7. sent'.beside \subseteq 1..sent'.texts /\ sent'.texts \notin sent'.beside
      BY <1>2, <1>4, <2>2
    <2>. QED BY <1>1, <1>2, <2>2, <2>3, <2>5, <2>6, <2>7, TakeEmit
  <1>7. CASE FakeFinal
    <2>. DEFINE x == FinalDelta(0, TRUE, TRUE, TRUE)
    <2>1. /\ sent' = [sent EXCEPT !.finish = TRUE, !.input = {"last"}, !.output = {"last"},
                                  !.complete = TRUE]
          /\ Take(Finish(x), "ended")
      BY <1>7 DEF FakeFinal
    <2>2. /\ sent'.texts = sent.texts /\ sent'.beside = sent.beside
          /\ sent'.finish /\ TotalIn' /\ TotalOut' /\ sent'.complete
      BY <1>2, <2>1 DEF Sent, TotalIn, TotalOut
    <2>4. sent' \in Sent
      BY <1>2, <2>1 DEF Sent, When
    <2>3. /\ x \in Deltas /\ x.is_final /\ x.finish /\ x.input /\ x.output
          /\ x.content = 0
      BY DEF FinalDelta, Deltas
    <2>. HIDE DEF x
    <2>5. Delivered(out, sent'.texts, sent'.beside)
      BY <1>4, <2>2
    <2>. QED BY <1>1, <1>2, <2>1, <2>2, <2>3, <2>4, <2>5, TakeFinish
  <1>8. CASE FakeEnds
    <2>1. Take(Fail("eof"), "ended") /\ sent' = sent
      BY <1>8 DEF FakeEnds
    <2>. QED BY <1>1, <2>1, TakeFail
  <1>. QED BY <1>6, <1>7, <1>8

\* IInv is kept by every step.
LEMMA StepIInv == IInv /\ [Next]_vars => IInv'
  <1>. SUFFICES ASSUME IInv, [Next]_vars PROVE IInv'
    OBVIOUS
  <1>1. CASE ParseWorkerRef \/ Lookup \/ UnknownMode \/ Marshal \/ Refused \/ Accepted
    BY <1>1, DispatchStep
  <1>2. CASE (\E name \in EventNames : EventLine(name)) \/ OtherLine
    BY <1>2, OtherLineStep
  <1>3. CASE phase = "streaming" /\ p # "fake" /\ \E d \in DataLines(p, scan.name) : DataLine(d)
    BY <1>3, DataLineStep
  <1>4. CASE BlankLine
    BY <1>4, FrameTaken DEF BlankLine
  <1>5. CASE BodyEnds
    <2>1. phase = "streaming" /\ scan' = NoFrame /\ ref' = ref /\ sent' = sent
      BY <1>5 DEF BodyEnds
    <2>2. CASE scan.any
      BY <1>5, <2>1, <2>2, FrameTaken DEF BodyEnds
    <2>3. CASE ~scan.any
      BY <1>5, <2>1, <2>3, TakeFail DEF BodyEnds
    <2>. QED BY <2>2, <2>3
  <1>6. CASE LastRead
    BY <1>6, TakeFail DEF LastRead
  <1>7. CASE ReadFails
    BY <1>7, TakeFail DEF ReadFails
  <1>8. CASE FakeChunk \/ FakeFinal \/ FakeEnds
    BY <1>8, FakeStep
  <1>9. CASE Done \/ UNCHANGED vars
    <2>1. UNCHANGED vars
      BY <1>9 DEF Done
    <2>2. ref' = ref /\ phase' = phase /\ scan' = scan /\ held' = held /\ body' = body
          /\ out' = out /\ end' = end /\ sent' = sent
      BY <2>1 DEF vars
    <2>3. Types' /\ PhaseInv' /\ NoBodyLeaks'
      BY <2>2 DEF IInv, Types, PhaseInv, NoBodyLeaks, p, TotalIn, TotalOut
    <2>4. StreamInv'
      BY <2>2 DEF IInv, StreamInv, FrameInv, DataLines, Doomed, TextInv, Number, TallyInv, TotalIn,
                  TotalOut, p
    <2>5. TextInOrder' /\ FinalIsEarned'
      BY <2>2 DEF IInv, TextInOrder, Passed, FinalIsEarned
    <2>. QED BY <2>3, <2>4, <2>5 DEF IInv
  <1>. QED BY <1>1, <1>2, <1>3, <1>4, <1>5, <1>6, <1>7, <1>8, <1>9 DEF Next

\* The inductive invariant holds at the start.
LEMMA InitIInv == Init => IInv
  <1>. SUFFICES ASSUME Init PROVE IInv
    OBVIOUS
  <1>. USE DEF Init
  <1>1. Types
    <2>1. NoFrame \in [name : EventNames \cup {NoName}, data : Payloads, lines : 0..2,
                       any : BOOLEAN]
      BY DEF NoFrame, Bad, Data, Payloads
    <2>2. sent \in Sent
      BY DEF Sent, When
    <2>3. /\ ref \in WorkerRefs /\ phase \in Phases /\ end \in Ends
          /\ scan = NoFrame /\ body \in {"none", "open", "closed"}
      BY DEF Phases, Ends
    <2>4. held \in BOOLEAN
      OBVIOUS
    <2>5. out \in Seq(Deltas)
      OBVIOUS
    <2>. QED BY <2>1, <2>2, <2>3, <2>4, <2>5 DEF Types
  <1>2. PhaseInv /\ StreamInv /\ NoBodyLeaks
    BY DEF PhaseInv, StreamInv, NoBodyLeaks, TotalIn, TotalOut
  <1>3. TextInOrder /\ FinalIsEarned
    BY DEF TextInOrder, FinalIsEarned
  <1>. QED BY <1>1, <1>2, <1>3 DEF IInv

-----------------------------------------------------------------------------
(* The theorems.                                                           *)

\* The inductive invariant holds in every reachable state.
THEOREM AdaptersInvariance == Spec => []IInv
  BY InitIInv, StepIInv, PTL DEF Spec

(* For answers of any length and upstreams that put anything between and   *)
(* into their frames: text that stands where Recv looks is returned once,  *)
(* in order, without gaps, and in full by an answer that ends with a final *)
(* delta, and of text that stands elsewhere nothing is.                    *)
THEOREM TextsInOrder == Spec => []TextInOrder
  <1>1. IInv => TextInOrder
    BY DEF IInv
  <1>. QED BY <1>1, AdaptersInvariance, PTL

(* A final delta comes once, last, and only for an answer the upstream has *)
(* completed, with the finish reason if one was sent and with the token    *)
(* counts exactly if the totals were sent where the format has them:       *)
(* counts that came only with earlier chunks are not billed.               *)
THEOREM FinalsAreEarned == Spec => []FinalIsEarned
  <1>1. IInv => FinalIsEarned
    BY DEF IInv
  <1>. QED BY <1>1, AdaptersInvariance, PTL

(* No way out of Invoke or Recv leaves the response body open.             *)
THEOREM BodiesAreClosed == Spec => []NoBodyLeaks
  <1>1. IInv => NoBodyLeaks
    BY DEF IInv
  <1>. QED BY <1>1, AdaptersInvariance, PTL

-----------------------------------------------------------------------------
(* The request.                                                            *)

(* A set of numbers has a least one.  Inductions over data below rest on   *)
(* it: the set of the turns of a loop at which a claim fails has none.     *)
LEMMA LeastNatural ==
    ASSUME NEW T, T \subseteq Nat, T # {}
    PROVE \E x \in T : \A y \in T : x <= y
<1> DEFINE R == OpToRel(<, Nat)
<1>1. IsWellFoundedOn(R, Nat)
  BY NatLessThanWellFounded
<1>2. \A x, y \in Nat : <<y, x>> \in R <=> y < x
  <2>1. R = {ss \in Nat \X Nat : ss[1] < ss[2]}
    BY DEF OpToRel
  <2> QED BY <2>1
<1> HIDE DEF R
<1>3. \E x \in T : \A y \in T : ~(<<y, x>> \in R)
  BY <1>1, WFMin
<1>4. \A x, y \in T : x \in Nat /\ y \in Nat /\ (y < x \/ x <= y)
  OBVIOUS
<1> QED BY <1>2, <1>3, <1>4

(* Induction over the turns of a loop: what holds before the first and is  *)
(* carried from each turn to the next holds at every one.                  *)
LEMMA CountUp ==
    ASSUME NEW n \in Nat, NEW T, 0 \in T, \A m \in 0..n : m \in T /\ m # n => m + 1 \in T
    PROVE \A m \in 0..n : m \in T
<1> SUFFICES ASSUME NEW m \in 0..n, m \notin T PROVE FALSE
  OBVIOUS
<1> DEFINE S == {k \in 0..n : k \notin T}
<1>1. S \subseteq Nat /\ S # {}
  OBVIOUS
<1>2. \A k \in S : k \in Nat /\ k <= n /\ k # 0 /\ k \notin T
  OBVIOUS
<1>3. \A k \in 0..n : k \in T \/ k \in S
  OBVIOUS
<1> HIDE DEF S
<1>4. PICK x \in S : \A y \in S : x <= y
  BY <1>1, LeastNatural
<1>5. x - 1 \in 0..n /\ x - 1 # n /\ x - 1 < x
  BY <1>2
<1>6. x - 1 \in T
  BY <1>3, <1>4, <1>5, <1>2
<1> QED BY <1>2, <1>5, <1>6

\* g is the loop of splitSystem over ms, up to its m-th turn.
Loops(g, ms, m) ==
    g = [i \in 0..m |-> IF i = 0 THEN unsplit(<< >>) ELSE place(g[i - 1], ms[i])]

(* The loop of splitSystem is defined, for lists of any length.            *)
LEMMA LoopExists ==
    ASSUME NEW n \in Nat, NEW ms
    PROVE \E g : Loops(g, ms, n)
<1> DEFINE T == {m \in 0..n : \E g : Loops(g, ms, m)}
<1>1. 0 \in T
  <2> DEFINE g == [i \in 0..0 |-> unsplit(<< >>)]
  <2>1. Loops(g, ms, 0)
    BY DEF Loops
  <2> QED BY <2>1
<1>2. ASSUME NEW m \in 0..n, m \in T, m # n PROVE m + 1 \in T
  <2>1. PICK g : Loops(g, ms, m)
    BY <1>2
  <2> DEFINE h == [i \in 0..m + 1 |-> IF i = m + 1 THEN place(g[m], ms[m + 1]) ELSE g[i]]
  <2>2. \A i \in 0..m : h[i] = g[i]
    OBVIOUS
  <2>3. \A i \in 0..m : g[i] = IF i = 0 THEN unsplit(<< >>) ELSE place(g[i - 1], ms[i])
    BY <2>1 DEF Loops
  <2>4. \A i \in 0..m + 1 : h[i] = IF i = 0 THEN unsplit(<< >>) ELSE place(h[i - 1], ms[i])
    <3> TAKE i \in 0..m + 1
    <3>1. CASE i = 0
      BY <2>2, <2>3, <3>1
    <3>2. CASE i \in 1..m
      <4>1. i - 1 \in 0..m /\ i \in 0..m /\ i # 0
        BY <3>2
      <4> QED BY <2>2, <2>3, <4>1
    <3>3. CASE i = m + 1
      <4>1. m \in 0..m /\ i # 0 /\ i - 1 = m
        BY <3>3
      <4>2. h[i] = place(g[m], ms[i])
        BY <3>3
      <4> QED BY <2>2, <4>1, <4>2
    <3> QED BY <3>1, <3>2, <3>3
  <2>5. h = [i \in 0..m + 1 |-> h[i]]
    OBVIOUS
  <2> HIDE DEF h
  <2>6. Loops(h, ms, m + 1)
    BY <2>4, <2>5 DEF Loops
  <2> QED BY <2>6, <1>2
<1> HIDE DEF T
<1>3. n \in T
  BY <1>1, <1>2, CountUp
<1> QED BY <1>3 DEF T

(* splitSystem is what its loop has made of the list at its end.           *)
LEMMA SplitLoops ==
    ASSUME NEW ms, Len(ms) \in Nat
    PROVE \E g : Loops(g, ms, Len(ms)) /\ splitSystem(ms) = g[Len(ms)]
<1> DEFINE g == CHOOSE g : g = [i \in 0..Len(ms) |->
                IF i = 0 THEN unsplit(<< >>) ELSE place(g[i - 1], ms[i])]
<1>1. \E h : h = [i \in 0..Len(ms) |->
                IF i = 0 THEN unsplit(<< >>) ELSE place(h[i - 1], ms[i])]
  BY LoopExists DEF Loops
<1>2. Loops(g, ms, Len(ms))
  BY <1>1 DEF Loops
<1>3. splitSystem(ms) = g[Len(ms)]
  BY DEF splitSystem
<1> QED BY <1>2, <1>3

\* The numbers in s go up.
Rising(s) == \A i, j \in DOMAIN s : i < j => s[i] < s[j]

Ids(ms) == [i \in DOMAIN ms |-> ms[i].id]

\* x is what a split of the first n messages may be: each of them is on one side,
\* in order, system messages on one and the others, unchanged, on the other.
Halves(x, ms, n) ==
    /\ x = [system |-> x.system, rest |-> x.rest]
    /\ x.system \in Seq(1..n)
    /\ x.rest \in Seq([role : Roles \ {"system"}, id : 1..n])
    /\ Rising(x.system)
    /\ \A i, j \in DOMAIN x.rest : i < j => x.rest[i].id < x.rest[j].id
    /\ \A k \in 1..n : \/ \E i \in DOMAIN x.system : x.system[i] = k
                       \/ \E i \in DOMAIN x.rest : x.rest[i].id = k
    /\ Len(x.system) + Len(x.rest) = n
    /\ \A i \in DOMAIN x.rest : x.rest[i] = ms[x.rest[i].id]

(* The messages of a request are a list in which each has its position.    *)
LEMMA NumberedConversation ==
    ASSUME NEW roles \in Conversations
    PROVE /\ Numbered(roles) \in Seq([role : Roles, id : Nat])
          /\ Len(Numbered(roles)) \in 0..MaxMessages
          /\ DOMAIN Numbered(roles) = 1..Len(Numbered(roles))
          /\ \A i \in DOMAIN Numbered(roles) :
                Numbered(roles)[i] \in [role : Roles, id : {i}]
<1>1. PICK n \in 0..MaxMessages : roles \in [1..n -> Roles]
  BY DEF Conversations
<1>2. n \in Nat
  BY AdaptersAssumption DEF AdaptersAssumption
<1> DEFINE f == [i \in 1..n |-> [role |-> roles[i], id |-> i]]
<1>3. Numbered(roles) = f
  BY <1>1 DEF Numbered
<1>4. \A i \in 1..n : f[i] \in [role : Roles, id : {i}] /\ f[i] \in [role : Roles, id : Nat]
  BY <1>1
<1>5. f \in [1..n -> [role : Roles, id : Nat]]
  BY <1>4
<1>6. DOMAIN f = 1..n
  OBVIOUS
<1> HIDE DEF f
<1>7. f \in Seq([role : Roles, id : Nat])
  BY <1>2, <1>5, SeqDef
<1>8. Len(f) = n
  BY <1>2, <1>6, <1>7, LenProperties
<1> QED BY <1>2, <1>3, <1>4, <1>6, <1>7, <1>8

(* A turn of the loop that finds a system message keeps the halves halves. *)
LEMMA SystemPlaced ==
    ASSUME NEW ms, NEW n \in Nat, NEW x, Halves(x, ms, n),
           ms[n + 1] \in [role : Roles, id : {n + 1}],
           ms[n + 1].role = "system"
    PROVE Halves(place(x, ms[n + 1]), ms, n + 1)
<1> DEFINE s == Append(x.system, n + 1)
           y == [system |-> s, rest |-> x.rest]
<1>1. place(x, ms[n + 1]) = y
  BY DEF place, Halves
<1>2. /\ s \in Seq(1..n + 1)
      /\ Len(s) = Len(x.system) + 1
      /\ \A i \in 1..Len(x.system) : s[i] = x.system[i] /\ s[i] \in 1..n
      /\ s[Len(x.system) + 1] = n + 1
      /\ Len(x.system) \in Nat
      /\ DOMAIN s = 1..Len(x.system) + 1
      /\ DOMAIN x.system = 1..Len(x.system)
  <2>1. x.system \in Seq(1..n) /\ x.system \in Seq(1..n + 1)
    BY DEF Halves
  <2> QED BY <2>1
<1> HIDE DEF s
<1>3. Rising(s)
  <2> SUFFICES ASSUME NEW i \in DOMAIN s, NEW j \in DOMAIN s, i < j PROVE s[i] < s[j]
    BY DEF Rising
  <2>1. CASE j = Len(x.system) + 1
    BY <1>2, <2>1
  <2>2. CASE j # Len(x.system) + 1
    <3>1. i \in 1..Len(x.system) /\ j \in 1..Len(x.system)
      BY <1>2, <2>2
    <3>2. x.system[i] < x.system[j]
      BY <1>2, <3>1 DEF Halves, Rising
    <3> QED BY <1>2, <3>1, <3>2
  <2> QED BY <2>1, <2>2
<1>4. x.rest \in Seq([role : Roles \ {"system"}, id : 1..n + 1])
  <2>1. [role : Roles \ {"system"}, id : 1..n] \subseteq [role : Roles \ {"system"}, id : 1..n + 1]
    OBVIOUS
  <2>2. x.rest \in Seq([role : Roles \ {"system"}, id : 1..n])
    BY DEF Halves
  <2> QED BY <2>1, <2>2, SeqMonotonic
<1>5. ASSUME NEW k \in 1..n + 1
      PROVE \/ \E i \in DOMAIN s : s[i] = k
            \/ \E i \in DOMAIN x.rest : x.rest[i].id = k
  <2>1. CASE k = n + 1
    BY <1>2, <2>1
  <2>2. CASE k \in 1..n
    <3>1. \/ \E i \in DOMAIN x.system : x.system[i] = k
          \/ \E i \in DOMAIN x.rest : x.rest[i].id = k
      BY <2>2 DEF Halves
    <3>2. \A i \in DOMAIN x.system : i \in DOMAIN s /\ s[i] = x.system[i]
      BY <1>2
    <3> QED BY <3>1, <3>2
  <2> QED BY <2>1, <2>2
<1>6. Len(s) + Len(x.rest) = n + 1
  <2>1. Len(x.rest) \in Nat
    BY DEF Halves
  <2>2. Len(x.system) + Len(x.rest) = n
    BY DEF Halves
  <2>3. Len(s) = Len(x.system) + 1 /\ Len(x.system) \in Nat
    BY <1>2
  <2>4. PICK a \in Nat, b \in Nat : a = Len(x.system) /\ b = Len(x.rest)
    BY <2>1, <2>3
  <2>5. a + b = n /\ Len(s) = a + 1
    BY <2>2, <2>3, <2>4
  <2>6. a + 1 + b = n + 1
    BY <2>5
  <2> QED BY <2>4, <2>5, <2>6
<1>7. y.system = s /\ y.rest = x.rest
  OBVIOUS
<1>8. Halves(y, ms, n + 1)
  <2>1. y = [system |-> y.system, rest |-> y.rest]
    BY <1>7
  <2> HIDE DEF y
  <2>2. /\ \A i, j \in DOMAIN x.rest : i < j => x.rest[i].id < x.rest[j].id
        /\ \A i \in DOMAIN x.rest : x.rest[i] = ms[x.rest[i].id]
    BY DEF Halves
  <2>3. y.system \in Seq(1..n + 1) /\ Rising(y.system)
    BY <1>2, <1>3, <1>7
  <2>4. y.rest \in Seq([role : Roles \ {"system"}, id : 1..n + 1])
    BY <1>4, <1>7
  <2>5. /\ \A i, j \in DOMAIN y.rest : i < j => y.rest[i].id < y.rest[j].id
        /\ \A i \in DOMAIN y.rest : y.rest[i] = ms[y.rest[i].id]
    BY <1>7, <2>2, Zenon
  <2>6. ASSUME NEW k \in 1..n + 1
        PROVE \/ \E i \in DOMAIN y.system : y.system[i] = k
              \/ \E i \in DOMAIN y.rest : y.rest[i].id = k
    <3>1. \/ \E i \in DOMAIN s : s[i] = k
          \/ \E i \in DOMAIN x.rest : x.rest[i].id = k
      BY <1>5, Zenon
    <3> QED BY <1>7, <3>1, Zenon
  <2>7. Len(y.system) + Len(y.rest) = n + 1
    BY <1>6, <1>7, Zenon
  <2> QED BY <2>1, <2>3, <2>4, <2>5, <2>6, <2>7, Zenon DEF Halves
<1> QED BY <1>1, <1>8

(* So does a turn that finds another message.                              *)
LEMMA OtherPlaced ==
    ASSUME NEW ms, NEW n \in Nat, NEW x, Halves(x, ms, n),
           ms[n + 1] \in [role : Roles, id : {n + 1}],
           ms[n + 1].role # "system"
    PROVE Halves(place(x, ms[n + 1]), ms, n + 1)
<1> DEFINE r == Append(x.rest, ms[n + 1])
           y == [system |-> x.system, rest |-> r]
           W(m) == [role : Roles \ {"system"}, id : 1..m]
<1>1. place(x, ms[n + 1]) = y
  BY DEF place, Halves
<1>2. /\ r \in Seq(W(n + 1))
      /\ Len(r) = Len(x.rest) + 1
      /\ \A i \in 1..Len(x.rest) : r[i] = x.rest[i] /\ r[i] \in W(n)
      /\ r[Len(x.rest) + 1] = ms[n + 1]
      /\ Len(x.rest) \in Nat
      /\ DOMAIN r = 1..Len(x.rest) + 1
      /\ DOMAIN x.rest = 1..Len(x.rest)
  <2>1. x.rest \in Seq(W(n))
    BY DEF Halves
  <2>2. W(n) \subseteq W(n + 1)
    OBVIOUS
  <2>3. ms[n + 1] \in W(n + 1)
    OBVIOUS
  <2> HIDE DEF W
  <2>4. x.rest \in Seq(W(n + 1))
    BY <2>1, <2>2, SeqMonotonic
  <2> QED BY <2>1, <2>3, <2>4
<1>3. ms[n + 1].id = n + 1
  OBVIOUS
<1>4. \A i \in 1..Len(x.rest) : r[i].id \in 1..n
  BY <1>2
<1> HIDE DEF r
<1>5. ASSUME NEW i \in DOMAIN r, NEW j \in DOMAIN r, i < j PROVE r[i].id < r[j].id
  <2>1. CASE j = Len(x.rest) + 1
    <3>1. i \in 1..Len(x.rest)
      BY <1>2, <1>5, <2>1
    <3> QED BY <1>2, <1>3, <1>4, <2>1, <3>1
  <2>2. CASE j # Len(x.rest) + 1
    <3>1. i \in 1..Len(x.rest) /\ j \in 1..Len(x.rest)
      BY <1>2, <1>5, <2>2
    <3>2. x.rest[i].id < x.rest[j].id
      BY <1>2, <1>5, <3>1 DEF Halves
    <3> QED BY <1>2, <3>1, <3>2
  <2> QED BY <2>1, <2>2
<1>6. x.system \in Seq(1..n + 1)
  BY DEF Halves
<1>7. ASSUME NEW k \in 1..n + 1
      PROVE \/ \E i \in DOMAIN x.system : x.system[i] = k
            \/ \E i \in DOMAIN r : r[i].id = k
  <2>1. CASE k = n + 1
    BY <1>2, <1>3, <2>1
  <2>2. CASE k \in 1..n
    <3>1. \/ \E i \in DOMAIN x.system : x.system[i] = k
          \/ \E i \in DOMAIN x.rest : x.rest[i].id = k
      BY <2>2 DEF Halves
    <3>2. \A i \in DOMAIN x.rest : i \in DOMAIN r /\ r[i] = x.rest[i]
      BY <1>2
    <3> QED BY <3>1, <3>2
  <2> QED BY <2>1, <2>2
<1>8. Len(x.system) + Len(r) = n + 1
  <2>1. Len(x.system) \in Nat
    BY DEF Halves
  <2>2. Len(x.system) + Len(x.rest) = n
    BY DEF Halves
  <2>3. Len(r) = Len(x.rest) + 1 /\ Len(x.rest) \in Nat
    BY <1>2
  <2>4. PICK a \in Nat, b \in Nat : a = Len(x.system) /\ b = Len(x.rest)
    BY <2>1, <2>3
  <2>5. a + b = n /\ Len(r) = b + 1
    BY <2>2, <2>3, <2>4
  <2>6. a + (b + 1) = n + 1
    BY <2>5
  <2> QED BY <2>4, <2>5, <2>6
<1>9. ASSUME NEW i \in DOMAIN r PROVE r[i] = ms[r[i].id]
  <2>1. CASE i = Len(x.rest) + 1
    BY <1>2, <1>3, <2>1
  <2>2. CASE i \in 1..Len(x.rest)
    BY <1>2, <2>2 DEF Halves
  <2> QED BY <1>2, <2>1, <2>2
<1>10. y.system = x.system /\ y.rest = r
  OBVIOUS
<1>11. Halves(y, ms, n + 1)
  <2>1. y = [system |-> y.system, rest |-> y.rest]
    BY <1>10
  <2> HIDE DEF y
  <2>2. y.rest \in Seq([role : Roles \ {"system"}, id : 1..n + 1])
    BY <1>2, <1>10
  <2>3. Rising(x.system)
    BY DEF Halves
  <2>4. y.system \in Seq(1..n + 1) /\ Rising(y.system)
    BY <1>6, <1>10, <2>3
  <2>5. \A i, j \in DOMAIN y.rest : i < j => y.rest[i].id < y.rest[j].id
    BY <1>5, <1>10
  <2>6. ASSUME NEW k \in 1..n + 1
        PROVE \/ \E i \in DOMAIN y.system : y.system[i] = k
              \/ \E i \in DOMAIN y.rest : y.rest[i].id = k
    <3>1. \/ \E i \in DOMAIN x.system : x.system[i] = k
          \/ \E i \in DOMAIN r : r[i].id = k
      BY <1>7, Zenon
    <3> QED BY <1>10, <3>1, Zenon
  <2>7. Len(y.system) + Len(y.rest) = n + 1
    BY <1>8, <1>10, Zenon
  <2>8. \A i \in DOMAIN y.rest : y.rest[i] = ms[y.rest[i].id]
    BY <1>9, <1>10
  <2> QED BY <2>1, <2>2, <2>4, <2>5, <2>6, <2>7, <2>8, Zenon DEF Halves
<1> QED BY <1>1, <1>11

(* splitSystem loses, doubles and moves nothing, for lists of any length.  *)
LEMMA SplitKeeps ==
    ASSUME NEW roles \in Conversations
    PROVE Halves(splitSystem(Numbered(roles)), Numbered(roles), Len(Numbered(roles)))
<1> DEFINE ms == Numbered(roles)
           n == Len(ms)
<1>1. n \in Nat /\ DOMAIN ms = 1..n /\ \A i \in 1..n : ms[i] \in [role : Roles, id : {i}]
  BY NumberedConversation, AdaptersAssumption DEF AdaptersAssumption
<1> HIDE DEF ms
<1>2. PICK g : Loops(g, ms, n) /\ splitSystem(ms) = g[n]
  BY <1>1, SplitLoops
<1> HIDE DEF n
<1> DEFINE T == {m \in 0..n : Halves(g[m], ms, m)}
<1>3. 0 \in T
  <2>1. g[0] = [system |-> << >>, rest |-> << >>]
    BY <1>1, <1>2 DEF Loops, unsplit
  <2>2. /\ << >> \in Seq(1..0)
        /\ << >> \in Seq([role : Roles \ {"system"}, id : 1..0])
        /\ Len(<< >>) = 0 /\ DOMAIN << >> = {} /\ 1..0 = {}
    OBVIOUS
  <2>3. Halves(g[0], ms, 0)
    BY <2>1, <2>2 DEF Halves, Rising
  <2> QED BY <1>1, <2>3
<1>4. ASSUME NEW m \in 0..n, m \in T, m # n PROVE m + 1 \in T
  <2>1. m + 1 \in 1..n /\ m \in Nat /\ m + 1 # 0 /\ m + 1 \in 0..n /\ m + 1 - 1 = m
    BY <1>1, <1>4
  <2>2. g[m + 1] = place(g[m], ms[m + 1])
    BY <1>2, <2>1 DEF Loops
  <2>3. ms[m + 1] \in [role : Roles, id : {m + 1}] /\ Halves(g[m], ms, m)
    BY <1>1, <2>1, <1>4
  <2>4. Halves(place(g[m], ms[m + 1]), ms, m + 1)
    BY <2>1, <2>3, SystemPlaced, OtherPlaced
  <2> QED BY <2>1, <2>2, <2>4
<1> HIDE DEF T
<1>5. n \in T
  <2>1. \A m \in 0..n : m \in T /\ m # n => m + 1 \in T
    BY <1>4
  <2>2. n \in Nat /\ n \in 0..n
    BY <1>1
  <2> QED BY <1>3, <2>1, <2>2, CountUp
<1>6. Halves(g[n], ms, n)
  BY <1>5 DEF T
<1> QED BY <1>2, <1>6 DEF ms, n

\* The system text sys and the messages rest share the first n messages.
Shares(sys, rest, n) ==
    /\ sys \in Seq(1..n)
    /\ rest \in Seq([role : Roles \cup {"model"}, id : 1..n])
    /\ Rising(sys)
    /\ \A i, j \in DOMAIN rest : i < j => rest[i].id < rest[j].id
    /\ \A k \in 1..n : \/ \E i \in DOMAIN sys : sys[i] = k
                       \/ \E i \in DOMAIN rest : rest[i].id = k
    /\ Len(sys) + Len(rest) = n

(* Two lists that share n messages are, one after the other, a list of all *)
(* of them.                                                                *)
LEMMA SharesKept ==
    ASSUME NEW sys, NEW rest, NEW n \in Nat, Shares(sys, rest, n)
    PROVE LET ids == sys \o Ids(rest)
          IN /\ \A s \in {sys, Ids(rest)} : \A i, j \in DOMAIN s : i < j => s[i] < s[j]
             /\ {ids[i] : i \in DOMAIN ids} = 1..n
             /\ Len(ids) = n
<1> DEFINE r == Ids(rest)
           W == [role : Roles \cup {"model"}, id : 1..n]
<1>1. PICK a \in Nat, b \in Nat :
        /\ a = Len(sys) /\ b = Len(rest) /\ a + b = n
        /\ DOMAIN sys = 1..a /\ DOMAIN rest = 1..b
  <2>1. rest \in Seq(W) /\ sys \in Seq(1..n)
    BY DEF Shares
  <2> HIDE DEF W
  <2> QED BY <2>1 DEF Shares
<1>2. \A i \in 1..b : rest[i] \in W
  <2>1. rest \in Seq(W)
    BY DEF Shares
  <2> HIDE DEF W
  <2> QED BY <1>1, <2>1
<1>3. r = [i \in 1..b |-> rest[i].id]
  BY <1>1 DEF Ids
<1>4. r \in [1..b -> 1..n] /\ \A i \in 1..b : r[i] = rest[i].id
  BY <1>2, <1>3
<1> HIDE DEF r, W
<1>5. r \in Seq(1..n)
  BY <1>4, SeqDef
<1>6. DOMAIN r = 1..b
  BY <1>4
<1>7. Len(r) = b
  BY <1>5, <1>6, LenProperties
<1>8. sys \in Seq(1..n)
  BY DEF Shares
<1> DEFINE ids == sys \o r
<1>9. /\ ids \in Seq(1..n)
      /\ Len(ids) = a + b
      /\ DOMAIN ids = 1..a + b
      /\ \A i \in 1..a : ids[i] = sys[i]
      /\ \A i \in 1..b : ids[a + i] = r[i]
  <2>1. /\ ids \in Seq(1..n)
        /\ Len(ids) = Len(sys) + Len(r)
        /\ \A i \in 1..Len(sys) + Len(r) :
             ids[i] = IF i <= Len(sys) THEN sys[i] ELSE r[i - Len(sys)]
    BY <1>5, <1>8, ConcatProperties
  <2> HIDE DEF ids
  <2>2. Len(ids) = a + b /\ DOMAIN ids = 1..a + b
    BY <1>1, <1>7, <2>1
  <2>3. \A i \in 1..a + b : ids[i] = IF i <= a THEN sys[i] ELSE r[i - a]
    BY <1>1, <1>7, <2>1
  <2>4. \A i \in 1..b : a + i \in 1..a + b /\ ~(a + i <= a) /\ a + i - a = i
    OBVIOUS
  <2>5. \A i \in 1..a : i \in 1..a + b /\ i <= a
    OBVIOUS
  <2>6. \A i \in 1..a : ids[i] = sys[i]
    BY <2>3, <2>5
  <2>7. \A i \in 1..b : ids[a + i] = r[i]
    BY <2>3, <2>4
  <2> QED BY <2>1, <2>2, <2>6, <2>7
<1> HIDE DEF ids
<1>10. Rising(sys)
  BY DEF Shares
<1>11. Rising(r)
  <2>1. \A i, j \in DOMAIN rest : i < j => rest[i].id < rest[j].id
    BY DEF Shares
  <2> QED BY <1>1, <1>4, <1>6, <2>1 DEF Rising
<1>12. {ids[i] : i \in DOMAIN ids} = 1..n
  <2>1. \A i \in DOMAIN ids : ids[i] \in 1..n
    BY <1>9
  <2>2. ASSUME NEW k \in 1..n PROVE \E i \in DOMAIN ids : ids[i] = k
    <3>1. CASE \E i \in DOMAIN sys : sys[i] = k
      <4>1. PICK i \in 1..a : sys[i] = k
        BY <1>1, <3>1
      <4>2. i \in DOMAIN ids
        BY <1>9, <4>1
      <4> QED BY <1>9, <4>1, <4>2
    <3>2. CASE \E i \in DOMAIN rest : rest[i].id = k
      <4>1. PICK i \in 1..b : r[i] = k
        BY <1>1, <1>4, <3>2
      <4>2. a + i \in DOMAIN ids
        BY <1>9, <4>1
      <4> QED BY <1>9, <4>1, <4>2
    <3> QED BY <3>1, <3>2 DEF Shares
  <2> QED BY <2>1, <2>2
<1>13. Len(ids) = n
  BY <1>1, <1>9
<1>14. \A s \in {sys, r} : \A i, j \in DOMAIN s : i < j => s[i] < s[j]
  BY <1>10, <1>11 DEF Rising
<1> QED BY <1>12, <1>13, <1>14 DEF ids, r

(* Anthropic's request: the two halves as they are.                        *)
LEMMA HalvesShare ==
    ASSUME NEW x, NEW ms, NEW n \in Nat, Halves(x, ms, n)
    PROVE /\ Shares(x.system, x.rest, n)
          /\ \A i \in DOMAIN x.rest : x.rest[i].role # "system"
<1> DEFINE V == [role : Roles \ {"system"}, id : 1..n]
           W == [role : Roles \cup {"model"}, id : 1..n]
<1>1. x.rest \in Seq(V)
  BY DEF Halves
<1>2. V \subseteq W /\ \A m \in V : m.role # "system"
  OBVIOUS
<1> HIDE DEF V, W
<1>3. x.rest \in Seq(W)
  BY <1>1, <1>2, SeqMonotonic
<1>4. \A i \in DOMAIN x.rest : x.rest[i] \in V
  BY <1>1
<1> QED BY <1>2, <1>3, <1>4 DEF Halves, Shares, W

(* Google's request: mapRole renames roles and nothing else.               *)
LEMMA GoogleShares ==
    ASSUME NEW x, NEW ms, NEW n \in Nat, Halves(x, ms, n), NEW rest,
           rest = [i \in DOMAIN x.rest |-> [role |-> mapRole(x.rest[i].role), id |-> x.rest[i].id]]
    PROVE /\ Shares(x.system, rest, n)
          /\ \A i \in DOMAIN rest : rest[i].role \notin {"system", "assistant"}
<1> DEFINE V == [role : Roles \ {"system"}, id : 1..n]
           W == [role : Roles \cup {"model"}, id : 1..n]
<1>1. x.rest \in Seq(V)
  BY DEF Halves
<1>2. \A m \in V : /\ [role |-> mapRole(m.role), id |-> m.id] \in W
                   /\ mapRole(m.role) \notin {"system", "assistant"}
  BY DEF mapRole, Roles
<1> HIDE DEF V, W
<1>3. PICK b \in Nat : b = Len(x.rest) /\ DOMAIN x.rest = 1..b
  BY <1>1
<1>4. \A i \in 1..b : x.rest[i] \in V
  BY <1>1, <1>3
<1>5. /\ DOMAIN rest = 1..b
      /\ \A i \in 1..b : rest[i] = [role |-> mapRole(x.rest[i].role), id |-> x.rest[i].id]
  BY <1>3
<1>6. \A i \in 1..b : /\ rest[i] \in W
                      /\ rest[i].id = x.rest[i].id
                      /\ rest[i].role \notin {"system", "assistant"}
  BY <1>2, <1>4, <1>5
<1>7. rest \in [1..b -> W]
  <2>1. rest = [i \in 1..b |-> rest[i]]
    BY <1>3, <1>5
  <2> QED BY <1>6, <2>1
<1>8. rest \in Seq(W)
  BY <1>7, SeqDef
<1>9. Len(rest) = b
  BY <1>5, <1>8, LenProperties
<1>10. Shares(x.system, rest, n)
  <2>1. rest \in Seq([role : Roles \cup {"model"}, id : 1..n])
    BY <1>8 DEF W
  <2>2. \A i, j \in DOMAIN rest : i < j => rest[i].id < rest[j].id
    BY <1>3, <1>5, <1>6 DEF Halves
  <2>3. ASSUME NEW k \in 1..n
        PROVE \/ \E i \in DOMAIN x.system : x.system[i] = k
              \/ \E i \in DOMAIN rest : rest[i].id = k
    <3>1. \/ \E i \in DOMAIN x.system : x.system[i] = k
          \/ \E i \in DOMAIN x.rest : x.rest[i].id = k
      BY DEF Halves
    <3> QED BY <1>3, <1>5, <1>6, <3>1
  <2>4. Len(x.system) + Len(rest) = n
    BY <1>3, <1>9 DEF Halves
  <2>5. x.system \in Seq(1..n) /\ Rising(x.system)
    BY DEF Halves
  <2> QED BY <2>1, <2>2, <2>3, <2>4, <2>5 DEF Shares
<1> QED BY <1>5, <1>6, <1>10

(* The other providers get the list as it is.                              *)
LEMMA UnsplitShares ==
    ASSUME NEW roles \in Conversations
    PROVE Shares(<< >>, Numbered(roles), Len(Numbered(roles)))
<1> DEFINE W == [role : Roles \cup {"model"}, id : 1..Len(Numbered(roles))]
<1> DEFINE ms == Numbered(roles)
<1>0. /\ ms \in Seq([role : Roles, id : Nat])
      /\ Len(ms) \in 0..MaxMessages
      /\ DOMAIN ms = 1..Len(ms)
      /\ \A i \in DOMAIN ms : ms[i] \in [role : Roles, id : {i}]
  BY NumberedConversation
<1>1. PICK n \in Nat : /\ n = Len(ms) /\ DOMAIN ms = 1..n
                       /\ \A i \in 1..n : ms[i] \in [role : Roles, id : {i}]
  <2> HIDE DEF ms
  <2>1. Len(ms) \in Nat
    BY <1>0, AdaptersAssumption DEF AdaptersAssumption
  <2> QED BY <1>0, <2>1
<1>2. \A i \in 1..n : ms[i] \in W /\ ms[i].id = i
  BY <1>1
<1> HIDE DEF W, ms
<1>3. ms \in [1..n -> W]
  <2>1. ms = [i \in 1..n |-> ms[i]]
    BY <1>0, <1>1, LenProperties
  <2> QED BY <1>2, <2>1
<1>4. ms \in Seq(W)
  BY <1>3, SeqDef
<1>5. << >> \in Seq(1..n) /\ Len(<< >>) = 0 /\ DOMAIN << >> = {}
  OBVIOUS
<1>6. Len(<< >>) + Len(ms) = n
  BY <1>1, <1>5
<1>7. \A i, j \in DOMAIN ms : i < j => ms[i].id < ms[j].id
  BY <1>1, <1>2
<1>8. \A k \in 1..n : \E i \in DOMAIN ms : ms[i].id = k
  BY <1>1, <1>2
<1>9. ms \in Seq([role : Roles \cup {"model"}, id : 1..n])
  BY <1>1, <1>4 DEF W, ms
<1>10. Shares(<< >>, ms, n)
  BY <1>5, <1>6, <1>7, <1>8, <1>9 DEF Shares, Rising
<1> QED BY <1>1, <1>10 DEF ms

\* The request r is the messages ms in the shape of the provider pr.
Shaped(pr, r, ms) ==
    /\ Shares(r.system, r.rest, Len(ms))
    /\ pr \in {"anthropic", "google"} => \A i \in DOMAIN r.rest : r.rest[i].role # "system"
    /\ pr = "google" => \A i \in DOMAIN r.rest : r.rest[i].role # "assistant"

(* Every provider's request has its shape and keeps the messages.          *)
LEMMA WireShaped ==
    ASSUME NEW roles \in Conversations, NEW pr
    PROVE Shaped(pr, wireRequest(pr, Numbered(roles)), Numbered(roles))
<1> DEFINE ms == Numbered(roles)
           x == splitSystem(ms)
<1>1. Len(ms) \in Nat /\ Halves(x, ms, Len(ms)) /\ Shares(<< >>, ms, Len(ms))
  <2>1. Len(ms) \in Nat
    BY NumberedConversation, AdaptersAssumption DEF AdaptersAssumption
  <2>2. Halves(x, ms, Len(ms))
    BY SplitKeeps
  <2>3. Shares(<< >>, ms, Len(ms))
    BY UnsplitShares
  <2> QED BY <2>1, <2>2, <2>3
<1> HIDE DEF ms, x
<1>2. PICK n \in Nat : n = Len(ms)
  BY <1>1
<1>3. CASE pr = "anthropic"
  <2>1. wireRequest(pr, ms) = x
    BY <1>3 DEF wireRequest, x
  <2>2. Shares(x.system, x.rest, n) /\ \A i \in DOMAIN x.rest : x.rest[i].role # "system"
    BY <1>1, <1>2, HalvesShare
  <2> QED BY <1>2, <1>3, <2>1, <2>2 DEF Shaped, ms
<1>4. CASE pr = "google"
  <2> DEFINE rest == [i \in DOMAIN x.rest |->
                        [role |-> mapRole(x.rest[i].role), id |-> x.rest[i].id]]
  <2>1. x = [system |-> x.system, rest |-> x.rest]
    BY <1>1 DEF Halves
  <2>2. wireRequest(pr, ms) = [x EXCEPT !.rest = rest]
    BY <1>4 DEF wireRequest, googleRequest, x
  <2>3. [x EXCEPT !.rest = rest] = [system |-> x.system, rest |-> rest]
    BY <2>1
  <2>4. /\ Shares(x.system, rest, n)
        /\ \A i \in DOMAIN rest : rest[i].role \notin {"system", "assistant"}
    BY <1>1, <1>2, GoogleShares
  <2> HIDE DEF rest
  <2>5. PICK r : r = [system |-> x.system, rest |-> rest]
    OBVIOUS
  <2>6. r.system = x.system /\ r.rest = rest /\ wireRequest(pr, ms) = r
    BY <2>2, <2>3, <2>5
  <2> QED BY <1>2, <1>4, <2>4, <2>6 DEF Shaped, ms
<1>5. CASE pr \notin {"anthropic", "google"}
  <2>1. wireRequest(pr, ms) = unsplit(ms)
    BY <1>5 DEF wireRequest
  <2>2. unsplit(ms).system = << >> /\ unsplit(ms).rest = ms
    BY DEF unsplit
  <2> QED BY <1>1, <1>5, <2>1, <2>2 DEF Shaped, ms
<1> QED BY <1>3, <1>4, <1>5

\* The request of a call, from its marshalling to its sending.
RequestInv ==
    /\ phase \in {"new", "requested"} => \E roles \in Conversations : messages = Numbered(roles)
    /\ phase \notin {"new", "requested"} => messages = << >>
    /\ phase = "requested" => /\ Shaped(p, req, messages)
                              /\ req.max \in {"given", "default", "omitted"}
                              /\ p = "anthropic" => req.max # "omitted"
    /\ phase # "requested" => req = NoRequest

(* A call begins with its messages and no request.                         *)
LEMMA InitRequest == Init => RequestInv
BY DEF Init, RequestInv

(* Marshal is the only step that makes a request; all others that touch it *)
(* drop it.                                                                *)
LEMMA StepRequest == RequestInv /\ [Next]_vars => RequestInv'
<1> SUFFICES ASSUME RequestInv, [Next]_vars PROVE RequestInv'
  OBVIOUS
<1>1. ASSUME phase' = phase, UNCHANGED <<ref, messages, req>> PROVE RequestInv'
  BY <1>1 DEF RequestInv, p
<1>2. ASSUME phase' \notin {"new", "requested"}, messages' = << >>, req' = NoRequest
      PROVE RequestInv'
  BY <1>2 DEF RequestInv
<1>3. ASSUME phase \notin {"new", "requested"}, phase' \notin {"new", "requested"},
             UNCHANGED <<messages, req>>
      PROVE RequestInv'
  BY <1>2, <1>3 DEF RequestInv
<1>4. CASE Marshal
  <2>1. PICK given \in BOOLEAN :
          req' = [system |-> wireRequest(p, messages).system,
                  rest |-> wireRequest(p, messages).rest, max |-> maxTokens(p, given)]
    BY <1>4 DEF Marshal
  <2>2. PICK roles \in Conversations : messages = Numbered(roles)
    BY <1>4 DEF Marshal, RequestInv
  <2>3. messages' = messages /\ phase' = "requested" /\ p' = p
    BY <1>4 DEF Marshal, p
  <2>4. Shaped(p, wireRequest(p, messages), messages)
    BY <2>2, WireShaped
  <2>5. /\ req'.system = wireRequest(p, messages).system
        /\ req'.rest = wireRequest(p, messages).rest
        /\ req'.max = maxTokens(p, given)
    BY <2>1
  <2>6. Shaped(p, req', messages)
    BY <2>4, <2>5 DEF Shaped
  <2>7. /\ req'.max \in {"given", "default", "omitted"}
        /\ p = "anthropic" => req'.max # "omitted"
    BY <2>5 DEF maxTokens
  <2> QED BY <2>2, <2>3, <2>6, <2>7 DEF RequestInv
<1>5. CASE ParseWorkerRef \/ Lookup \/ UnknownMode \/ Refused \/ Accepted
  <2>1. phase' \in {"ended", "streaming"} /\ messages' = << >> /\ req' = NoRequest
    BY <1>5 DEF ParseWorkerRef, Lookup, UnknownMode, Refused, Accepted, EndWith
  <2> QED BY <1>2, <2>1
<1>6. CASE (\E name \in EventNames : EventLine(name)) \/ OtherLine
           \/ (\E d \in DataLines(p, scan.name) : DataLine(d)) \/ Done
  <2>1. UNCHANGED <<ref, phase, messages, req>>
    BY <1>6 DEF EventLine, OtherLine, DataLine, Done, vars
  <2> QED BY <1>1, <2>1
<1>7. CASE BlankLine \/ BodyEnds \/ LastRead \/ ReadFails \/ FakeChunk \/ FakeFinal \/ FakeEnds
  <2>1. ASSUME NEW turn, NEW next \in {"streaming", "last", "ended"}, Take(turn, next)
        PROVE phase' \notin {"new", "requested"}
    BY <2>1 DEF Take
  <2>2. phase \in {"streaming", "last"} /\ UNCHANGED <<messages, req>>
    BY <1>7 DEF BlankLine, BodyEnds, LastRead, ReadFails, FakeChunk, FakeFinal, FakeEnds
  <2>3. \E turn : \E next \in {"streaming", "last", "ended"} : Take(turn, next)
    BY <1>7 DEF BlankLine, BodyEnds, LastRead, ReadFails, FakeChunk, FakeFinal, FakeEnds
  <2> QED BY <1>3, <2>1, <2>2, <2>3
<1>8. CASE UNCHANGED vars
  BY <1>1, <1>8 DEF vars
<1> QED BY <1>4, <1>5, <1>6, <1>7, <1>8 DEF Next

(* The shape of a request says all that is promised of it.                 *)
LEMMA RequestKept == RequestInv => RequestKeepsMessages
<1> SUFFICES ASSUME RequestInv, phase = "requested" PROVE RequestKeepsMessages
  BY DEF RequestKeepsMessages
<1>1. PICK roles \in Conversations : messages = Numbered(roles)
  BY DEF RequestInv
<1>2. Len(messages) \in Nat /\ DOMAIN messages = 1..Len(messages)
  BY <1>1, NumberedConversation, AdaptersAssumption DEF AdaptersAssumption
<1>3. PICK n \in Nat : n = Len(messages)
  BY <1>2
<1>4. Shaped(p, req, messages) /\ (p = "anthropic" => req.max # "omitted")
  BY DEF RequestInv
<1>5. Shares(req.system, req.rest, n)
  BY <1>3, <1>4 DEF Shaped
<1> DEFINE rest == [i \in DOMAIN req.rest |-> req.rest[i].id]
           ids == req.system \o rest
<1>6. /\ \A s \in {req.system, rest} : \A i, j \in DOMAIN s : i < j => s[i] < s[j]
      /\ {ids[i] : i \in DOMAIN ids} = 1..n
      /\ Len(ids) = n
  BY <1>5, SharesKept DEF Ids
<1>7. {ids[i] : i \in DOMAIN ids} = DOMAIN messages /\ Len(ids) = Len(messages)
  BY <1>2, <1>3, <1>6
<1> QED BY <1>4, <1>6, <1>7 DEF RequestKeepsMessages, Shaped

-----------------------------------------------------------------------------
(* RequestKeepsMessages: whatever the conversation, no message is lost,    *)
(* doubled or moved when Marshal gives it its provider's shape.            *)
THEOREM RequestsKeepMessages == Spec => []RequestKeepsMessages
<1>1. RequestInv /\ [Next]_vars => RequestInv'
  BY StepRequest
<1> QED BY <1>1, InitRequest, RequestKept, PTL DEF Spec

(* What the invariants say of the variables, taken together.               *)
LEMMA TypesOfRequest == Types /\ RequestInv => TypeOK
<1> SUFFICES ASSUME Types, RequestInv PROVE TypeOK
  OBVIOUS
<1>1. \A i \in DOMAIN messages : messages[i] \in [role : Roles, id : Nat]
  <2>1. CASE phase \in {"new", "requested"}
    <3>1. messages \in Seq([role : Roles, id : Nat])
      BY <2>1, NumberedConversation DEF RequestInv
    <3> QED BY <3>1, LenProperties, ElementOfSeq
  <2>2. CASE phase \notin {"new", "requested"}
    BY <2>2 DEF RequestInv
  <2> QED BY <2>1, <2>2
<1>2. /\ \A i \in DOMAIN req.system : req.system[i] \in Nat
      /\ \A i \in DOMAIN req.rest : req.rest[i] \in WireMessages
      /\ req.max \in {"given", "default", "omitted"}
  <2>1. CASE phase = "requested"
    <3>1. PICK roles \in Conversations : messages = Numbered(roles)
      BY <2>1 DEF RequestInv
    <3>2. PICK n \in Nat : n = Len(messages)
      BY <3>1, NumberedConversation, AdaptersAssumption DEF AdaptersAssumption
    <3> DEFINE W == [role : Roles \cup {"model"}, id : 1..n]
    <3>3. req.system \in Seq(1..n) /\ req.rest \in Seq(W)
      BY <2>1, <3>2 DEF RequestInv, Shaped, Shares
    <3>4. W \subseteq WireMessages
      BY DEF WireMessages
    <3> HIDE DEF W
    <3>5. \A i \in DOMAIN req.system : req.system[i] \in 1..n
      BY <3>3
    <3>6. \A i \in DOMAIN req.rest : req.rest[i] \in W
      BY <3>3
    <3>7. req.max \in {"given", "default", "omitted"}
      BY <2>1 DEF RequestInv
    <3>8. \A i \in DOMAIN req.system : req.system[i] \in Nat
      BY <3>5
    <3>9. \A i \in DOMAIN req.rest : req.rest[i] \in WireMessages
      BY <3>4, <3>6
    <3> QED BY <3>7, <3>8, <3>9
  <2>2. CASE phase # "requested"
    BY <2>2 DEF RequestInv, NoRequest
  <2> QED BY <2>1, <2>2
<1> QED BY <1>1, <1>2 DEF TypeOK, Types

(* TypeOK: the scanner, the deltas and the request have their types.       *)
THEOREM AdaptersTypeCorrect == Spec => []TypeOK
<1>1. RequestInv /\ [Next]_vars => RequestInv'
  BY StepRequest
<1>2. Spec => []RequestInv
  BY <1>1, InitRequest, PTL DEF Spec
<1>3. IInv => Types
  BY DEF IInv
<1> QED BY <1>2, <1>3, AdaptersInvariance, TypesOfRequest, PTL

-----------------------------------------------------------------------------
(* LeaderSeesStream.                                                       *)

\* The kinds of the deltas returned, and the mapped state.
Kinds    == {"more", "final"}
Kind(x)  == IF x.is_final THEN "final" ELSE "more"
Finals   == [i \in DOMAIN out |-> IF out[i].is_final THEN "final" ELSE "more"]
finals   == [s \in {"call"} |-> Finals]
standing == [s \in {"call"} |-> IF end \in {"invalid", "not_found"} THEN "declined" ELSE end]

\* The ways a turn of Recv's loop can go, as the leader sees it.
LeaderTurn(turn) ==
    \/ \E e \in {"eof", "error"} : turn = Fail(e)
    \/ \E h \in BOOLEAN : turn = Skip(h)
    \/ \E h \in BOOLEAN, n \in Nat : turn = Emit(n, h)
    \/ \E x \in Deltas : turn = Finish(x) /\ x.is_final

\* Every read is such a turn.
LEMMA ReadTurns ==
    ASSUME IInv, BlankLine \/ BodyEnds \/ LastRead \/ ReadFails \/ FakeChunk \/ FakeFinal \/ FakeEnds
    PROVE  /\ phase \in {"streaming", "last"}
           /\ \E turn, goes_on : LeaderTurn(turn) /\ Take(turn, goes_on)
  <1>. USE DEF IInv
  <1>1. phase \in {"streaming", "last"}
    BY DEF BlankLine, BodyEnds, LastRead, ReadFails, FakeChunk, FakeFinal, FakeEnds
  <1>2. ASSUME NEW e \in {"eof", "error"} PROVE LeaderTurn(Fail(e))
    BY DEF LeaderTurn
  <1>3. ASSUME phase = "streaming", scan.any
        PROVE  LeaderTurn(Recv(scan.name, scan.data))
    <2>. DEFINE turn == Recv(scan.name, scan.data)
    <2>1. FrameInv /\ (Doomed \/ (TextInv /\ TallyInv)) /\ p \in Names
      BY <1>3 DEF StreamInv, PhaseInv
    <2>2. Fails(turn) \/ (~Doomed /\ (Skips(turn) \/ Emits(turn) \/ Finishes(turn)))
      BY <1>3, <2>1, RecvTurn
    <2>3. ~Doomed /\ scan.data.text => Number(scan.data) \in Nat
      BY <2>1, TextNumber
    <2>. HIDE DEF turn
    <2>4. LeaderTurn(turn)
      BY <2>2, <2>3 DEF Fails, Skips, Emits, Finishes, Closing, LeaderTurn
    <2>. QED BY <2>4 DEF turn
  <1>4. CASE BlankLine
    BY <1>3, <1>4, <1>1 DEF BlankLine
  <1>5. CASE BodyEnds
    BY <1>2, <1>3, <1>5, <1>1 DEF BodyEnds
  <1>6. CASE LastRead \/ ReadFails \/ FakeEnds
    BY <1>2, <1>6, <1>1 DEF LastRead, ReadFails, FakeEnds
  <1>7. CASE FakeChunk
    <2>1. Take(Emit(sent.texts + 1, FALSE), "streaming")
      BY <1>7 DEF FakeChunk
    <2>2. sent.texts + 1 \in Nat
      BY DEF Types, Sent
    <2>. QED BY <1>1, <2>1, <2>2 DEF LeaderTurn
  <1>8. CASE FakeFinal
    <2>1. Take(Finish(FinalDelta(0, TRUE, TRUE, TRUE)), "ended")
      BY <1>8 DEF FakeFinal
    <2>2. FinalDelta(0, TRUE, TRUE, TRUE) \in Deltas /\ FinalDelta(0, TRUE, TRUE, TRUE).is_final
      BY DEF FinalDelta, Deltas
    <2>. QED BY <1>1, <2>1, <2>2 DEF LeaderTurn
  <1>. QED BY <1>4, <1>5, <1>6, <1>7, <1>8

\* A delta that is returned comes last in what the leader has seen.
LEMMA NextFinals ==
    ASSUME Types, NEW x \in Deltas, out' = out \o <<x>>
    PROVE  finals' = [finals EXCEPT !["call"] = Append(finals["call"], Kind(x))]
  <1>1. out \in Seq(Deltas)
    BY DEF Types
  <1>2. PICK n \in Nat : n = Len(out)
    BY <1>1, LenProperties
  <1>3. /\ DOMAIN out = 1..n /\ DOMAIN out' = 1..(n + 1)
        /\ \A i \in 1..n : out'[i] = out[i] /\ out[i] \in Deltas
        /\ out'[n + 1] = x
    BY <1>1, <1>2, Appended
  <1>4. Kind(x) \in Kinds
    BY DEF Kind, Kinds
  <1>5. Finals \in [1..n -> Kinds]
    BY <1>3 DEF Finals, Kinds
  <1>6. Finals \in Seq(Kinds) /\ Len(Finals) = n
    BY <1>2, <1>5, SeqDef
  <1>7. /\ Append(Finals, Kind(x)) \in Seq(Kinds) /\ Len(Append(Finals, Kind(x))) = n + 1
        /\ \A i \in 1..n : Append(Finals, Kind(x))[i] = Finals[i]
        /\ Append(Finals, Kind(x))[n + 1] = Kind(x)
    BY <1>4, <1>6, AppendProperties
  <1>8. Finals' = [i \in 1..(n + 1) |-> Kind(out'[i])]
    BY <1>3 DEF Finals, Kind
  <1>9. \A i \in 1..(n + 1) : i \in 1..n \/ i = n + 1
    BY <1>2
  <1>10. \A i \in 1..(n + 1) : Kind(out'[i]) \in Kinds
    BY DEF Kind, Kinds
  <1>11. Finals' \in [1..(n + 1) -> Kinds] /\ n + 1 \in Nat
    BY <1>2, <1>8, <1>10
  <1>12. Finals' \in Seq(Kinds) /\ Len(Finals') = n + 1
    <2>1. Finals' \in Seq(Kinds)
      BY <1>11, SeqDef
    <2>. QED BY <1>11, <2>1
  <1>13. \A i \in 1..n : Finals[i] = Kind(out[i])
    BY <1>3 DEF Finals, Kind
  <1>14. \A i \in 1..(n + 1) : Finals'[i] = Append(Finals, Kind(x))[i]
    BY <1>3, <1>7, <1>8, <1>9, <1>13
  <1>15. Finals' = Append(Finals, Kind(x))
    BY <1>7, <1>12, <1>14, SeqEqual
  <1>. QED BY <1>15 DEF finals

\* A turn is a step of the leader's stream, or none.
LEMMA TurnMapped ==
    ASSUME IInv, end = "open", NEW turn, NEW goes_on, LeaderTurn(turn), Take(turn, goes_on)
    PROVE  Leader!StreamNext \/ UNCHANGED Leader!streamVars
  <1>1. out' = out \o turn.deltas /\ end' = turn.ending /\ standing["call"] = "open" /\ out \in Seq(Deltas)
    BY DEF Take, standing, IInv, Types
  <1>2. ASSUME turn.deltas = << >> PROVE finals' = finals
    <2>1. out' = out
      BY <1>1, <1>2
    <2>. QED BY <2>1 DEF finals, Finals
  <1>3. CASE \E e \in {"eof", "error"} : turn = Fail(e)
    <2>1. PICK e \in {"eof", "error"} : turn = Fail(e)
      BY <1>3
    <2>2. turn.deltas = << >> /\ end' = e
      BY <1>1, <2>1 DEF Fail, Turn
    <2>3. standing' = [standing EXCEPT !["call"] = e]
      BY <2>2 DEF standing
    <2>4. Leader!Break("call")
      BY <1>2, <2>2, <2>3 DEF Leader!Break, Leader!Becomes, finals, Finals, standing
    <2>. QED BY <1>1, <2>4 DEF Leader!StreamNext, standing
  <1>4. CASE \E h \in BOOLEAN : turn = Skip(h)
    <2>1. turn.deltas = << >> /\ end' = end
      BY <1>1, <1>4 DEF Skip, Turn
    <2>. QED BY <1>2, <2>1 DEF Leader!streamVars, finals, Finals
  <1>5. CASE \E h \in BOOLEAN, n \in Nat : turn = Emit(n, h)
    <2>1. PICK n \in Nat : turn.deltas = <<TextDelta(n)>> /\ end' = end
      BY <1>1, <1>5 DEF Emit, Turn
    <2>2. TextDelta(n) \in Deltas /\ TextDelta(n).is_final = FALSE
      BY DEF TextDelta, Deltas
    <2>3. finals' = [finals EXCEPT !["call"] = Append(finals["call"], "more")]
      BY <1>1, <2>1, <2>2, NextFinals DEF IInv, Kind
    <2>4. Leader!Delta("call")
      BY <2>1, <2>3 DEF Leader!Delta, Leader!Comes, finals, Finals
    <2>. QED BY <1>1, <2>4 DEF Leader!StreamNext, standing
  <1>6. CASE \E x \in Deltas : turn = Finish(x) /\ x.is_final
    <2>1. PICK x \in Deltas : turn.deltas = <<x>> /\ x.is_final /\ end' = "final"
      BY <1>1, <1>6 DEF Finish, Turn
    <2>2. x.is_final = TRUE
      BY <2>1
    <2>3. finals' = [finals EXCEPT !["call"] = Append(finals["call"], "final")]
      BY <1>1, <2>1, <2>2, NextFinals DEF IInv, Kind
    <2>4. standing' = [standing EXCEPT !["call"] = "final"]
      BY <2>1 DEF standing
    <2>5. Leader!Final("call")
      BY <2>3, <2>4 DEF Leader!Final, Leader!Comes, Leader!Becomes, finals, Finals, standing
    <2>. QED BY <1>1, <2>5 DEF Leader!StreamNext, standing
  <1>. QED BY <1>3, <1>4, <1>5, <1>6 DEF LeaderTurn

\* A call that ends before it streams has returned no delta.
LEMMA DispatchMapped ==
    ASSUME IInv, ParseWorkerRef \/ Lookup \/ UnknownMode \/ Marshal \/ Refused \/ Accepted
    PROVE  Leader!StreamNext \/ UNCHANGED Leader!streamVars
  <1>1. out' = out /\ out = << >> /\ end = "open" /\ end' \in {"open", "invalid", "not_found", "error"}
    BY DEF IInv, PhaseInv, ParseWorkerRef, Lookup, UnknownMode, Marshal, Refused, Accepted, EndWith
  <1>2. finals' = finals /\ standing["call"] = "open"
    BY <1>1 DEF finals, Finals, standing
  <1>3. CASE end' = "open"
    BY <1>1, <1>2, <1>3 DEF Leader!streamVars, finals, Finals
  <1>4. CASE end' = "error"
    <2>1. standing' = [standing EXCEPT !["call"] = "error"]
      BY <1>4 DEF standing
    <2>2. Leader!Break("call")
      BY <1>2, <2>1 DEF Leader!Break, Leader!Becomes, finals, Finals, standing
    <2>. QED BY <1>2, <2>2 DEF Leader!StreamNext, standing
  <1>5. CASE end' \in {"invalid", "not_found"}
    <2>1. standing' = [standing EXCEPT !["call"] = "declined"]
      BY <1>5 DEF standing
    <2>2. Finals \in Seq(Kinds) /\ Len(Finals) = 0
      <3>1. Finals = [i \in 1..0 |-> Kind(out[i])]
        BY <1>1 DEF Finals, Kind
      <3>2. Finals \in [1..0 -> Kinds]
        BY <3>1
      <3>. QED BY <3>2, SeqDef
    <2>3. finals["call"] = << >>
      BY <2>2, EmptySeq DEF finals
    <2>4. Leader!Decline("call")
      BY <1>2, <2>1, <2>3 DEF Leader!Decline, Leader!Becomes, finals, Finals, standing
    <2>. QED BY <1>2, <2>4 DEF Leader!StreamNext, standing
  <1>. QED BY <1>1, <1>3, <1>4, <1>5

(* What the leader drains from any of the adapters is a stream, for any    *)
(* upstream, any number of texts and wherever the connection breaks.       *)
THEOREM LeadersGetStreams == Spec => LeaderSeesStream
  <1>1. Init => Leader!StreamInit
    <2>. SUFFICES ASSUME Init PROVE Leader!StreamInit
      OBVIOUS
    <2>1. end = "open" /\ out = << >>
      BY DEF Init
    <2>2. [i \in DOMAIN out |-> IF out[i].is_final THEN "final" ELSE "more"] = << >>
      BY <2>1
    <2>. QED BY <2>1, <2>2 DEF Leader!StreamInit
  <1>2. IInv /\ [Next]_vars => [Leader!StreamNext]_(Leader!streamVars)
    <2>. SUFFICES ASSUME IInv, [Next]_vars
                  PROVE  Leader!StreamNext \/ UNCHANGED Leader!streamVars
      OBVIOUS
    <2>1. CASE ParseWorkerRef \/ Lookup \/ UnknownMode \/ Marshal \/ Refused \/ Accepted
      BY <2>1, DispatchMapped
    <2>2. CASE BlankLine \/ BodyEnds \/ LastRead \/ ReadFails \/ FakeChunk \/ FakeFinal \/ FakeEnds
      <3>1. /\ phase \in {"streaming", "last"}
            /\ \E turn, goes_on : LeaderTurn(turn) /\ Take(turn, goes_on)
        BY <2>2, ReadTurns
      <3>2. end = "open"
        BY <3>1 DEF IInv, PhaseInv
      <3>. QED BY <3>1, <3>2, TurnMapped
    <2>3. CASE \/ \E name \in EventNames : EventLine(name)
               \/ OtherLine
               \/ phase = "streaming" /\ p # "fake" /\ \E d \in DataLines(p, scan.name) : DataLine(d)
               \/ Done \/ UNCHANGED vars
      <3>1. out' = out /\ end' = end
        BY <2>3 DEF EventLine, OtherLine, DataLine, Done, vars
      <3>. QED BY <3>1 DEF Leader!streamVars
    <2>. QED BY <2>1, <2>2, <2>3 DEF Next
  <1>. QED BY <1>1, <1>2, AdaptersInvariance, PTL DEF Spec, LeaderSeesStream, Leader!StreamSpec
=============================================================================
