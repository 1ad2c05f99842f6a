------------------------------ MODULE Adapters ------------------------------
(***************************************************************************)
(* provider-gateway/internal/adapters: one call through a provider's       *)
(* adapter, from the worker_ref to the last delta the leader drains.  The  *)
(* upstream is the environment: it answers with any lines its wire format  *)
(* allows, in any order, and may break off at any of them.  The adapter    *)
(* named "openai" also stands for the compatible providers registered      *)
(* under other names (grok, kimi, glm), which differ by name and path.     *)
(***************************************************************************)
EXTENDS Naturals, Sequences, SequencesExt

CONSTANTS
    MaxTexts,       \* bound: pieces of text an upstream sends
    MaxMessages,    \* bound: messages of a request
    Canned          \* number of provider-fake's canned chunks

ASSUME AdaptersAssumption ==
    /\ MaxTexts \in Nat
    /\ MaxMessages \in Nat
    /\ Canned \in Nat \ {0, 1}

Names == {"openai", "anthropic", "google", "fake"}      \* the registry's

\* azure, bedrock and vllm compile but are not registered.
Scaffolds == {"azure", "bedrock", "vllm"}

Modes == {"normal", "slow", "fail", "fail_mid_stream", "garbled"}

\* A worker_ref: no colon or no provider, or a provider and a model.  Only the
\* fake adapter looks into the model.
Malformed == [ok |-> FALSE, provider |-> "none", model |-> "none"]

WorkerRefs ==
    {Malformed} \cup [ok : {TRUE}, provider : Names \cup Scaffolds, model : Modes]

(***************************************************************************)
(* What goes out: the request in the provider's shape.  A message is its   *)
(* role and its position.                                                  *)
(***************************************************************************)
Roles == {"system", "user", "assistant"}

Conversations == UNION {[1..n -> Roles] : n \in 0..MaxMessages}

Numbered(roles) == [i \in DOMAIN roles |-> [role |-> roles[i], id |-> i]]

WireMessages == [role : Roles \cup {"model"}, id : Nat]

unsplit(messages) == [system |-> << >>, rest |-> messages]

\* mutant: a system message after the first stays among the others
placeFirst(split, m) ==
    IF m.role = "system" /\ m.id = 1 THEN [split EXCEPT !.system = Append(@, m.id)]
    ELSE [split EXCEPT !.rest = Append(@, m)]

\* A system message joins the system text, any other is kept as it is.
place(split, m) ==
    IF m.role = "system" THEN [split EXCEPT !.system = Append(@, m.id)]
    ELSE [split EXCEPT !.rest = Append(@, m)]

splitSystem(messages) ==
    LET split[i \in 0..Len(messages)] ==
          IF i = 0 THEN unsplit(<< >>) ELSE place(split[i - 1], messages[i])
    IN split[Len(messages)]

mapRole(role) == IF role = "assistant" THEN "model" ELSE role

googleRequest(messages) ==
    LET split == splitSystem(messages)
    IN [split EXCEPT !.rest =
            [i \in DOMAIN @ |-> [role |-> mapRole(@[i].role), id |-> @[i].id]]]

wireRequest(p, messages) ==
    CASE p = "anthropic" -> splitSystem(messages)
      [] p = "google"    -> googleRequest(messages)
      [] OTHER           -> unsplit(messages)

\* Anthropic requires max_tokens and gets a default when the caller set none.
maxTokens(p, given) == IF p = "anthropic" /\ ~given THEN "default"
                       ELSE IF given THEN "given" ELSE "omitted"

NoRequest == [system |-> << >>, rest |-> << >>, max |-> "omitted"]

(***************************************************************************)
(* What comes in.  A data line holds one JSON document, reduced to what    *)
(* Recv asks of it: a choice (candidate), text in it, a finish reason, and *)
(* token usage; and to what it does not ask of it: text beside the piece   *)
(* it reads (a further part or choice, or the text of a chunk with         *)
(* OpenAI's finish reason).                                                *)
(***************************************************************************)
Data(kind, choice, text, finish, usage) ==
    [kind |-> kind, choice |-> choice, text |-> text, beside |-> FALSE, finish |-> finish, usage |-> usage]

Bad == Data("malformed", FALSE, FALSE, FALSE, FALSE)    \* not JSON: also a frame without data

Payloads == [kind : {"chunk", "done", "error", "malformed"}, choice : BOOLEAN,
             text : BOOLEAN, beside : BOOLEAN, finish : BOOLEAN, usage : BOOLEAN]

\* OpenAI: a role, text, the finish reason, the usage on a chunk of its own, on the
\* one with the finish reason (GLM) or on any other; the end mark.
openaiData ==
    {d \in [kind : {"chunk"}, choice : {TRUE}, text : BOOLEAN, beside : BOOLEAN,
            finish : BOOLEAN, usage : BOOLEAN] : ~(d.text /\ d.finish)}
    \cup {Data("chunk", FALSE, FALSE, FALSE, TRUE), Data("chunk", FALSE, FALSE, FALSE, FALSE),
          Data("done", FALSE, FALSE, FALSE, FALSE), Data("error", FALSE, FALSE, FALSE, FALSE)}

\* Anthropic: the event's name says what the data is.
EventNames == {"message_start", "content_block_delta", "message_delta", "error", "ping"}

NoName == "unnamed"     \* Event.Name of a frame without an event: line

anthropicData(name) ==
    CASE name = "message_start"       -> {Data("chunk", FALSE, FALSE, FALSE, TRUE)}
      [] name = "content_block_delta" -> {Data("chunk", TRUE, t, FALSE, FALSE) : t \in BOOLEAN}
      [] name = "message_delta"       -> {Data("chunk", FALSE, FALSE, f, TRUE) : f \in BOOLEAN}
      [] OTHER                        -> {Data("chunk", FALSE, FALSE, FALSE, FALSE)}

\* Google: several parts in a candidate, usage on any chunk, text on the last one.
googleData ==
    [kind : {"chunk"}, choice : {TRUE}, text : BOOLEAN, beside : BOOLEAN, finish : BOOLEAN, usage : BOOLEAN]
    \cup {Data("chunk", FALSE, FALSE, FALSE, u) : u \in BOOLEAN}

DataLines(p, name) == {Bad} \cup CASE p = "openai"    -> openaiData
                                   [] p = "anthropic" -> anthropicData(name)
                                   [] p = "google"    -> googleData

(***************************************************************************)
(* What is handed to the leader.  A piece of text is its number; 0 is nil. *)
(***************************************************************************)
Deltas == [content : Nat, finish : BOOLEAN, is_final : BOOLEAN,
           input : BOOLEAN, output : BOOLEAN]

TextDelta(t) == [content |-> t, finish |-> FALSE, is_final |-> FALSE,
                 input |-> FALSE, output |-> FALSE]

FinalDelta(t, finish, input, output) ==
    [content |-> t, finish |-> finish, is_final |-> TRUE, input |-> input, output |-> output]

\* One turn of Recv's loop: the deltas it returns, how the stream ends (or that
\* it goes on), what it keeps for later, and whether it closes the body.
Turn(deltas, ending, held, closes) ==
    [deltas |-> deltas, ending |-> ending, held |-> held, closes |-> closes]

Skip(held)     == Turn(<< >>, "open", held, FALSE)
Emit(t, held)  == Turn(<<TextDelta(t)>>, "open", held, FALSE)
Finish(d)      == Turn(<<d>>, "final", FALSE, TRUE)
Fail(ending)   == Turn(<< >>, ending, FALSE, TRUE)

VARIABLES
    ref,        \* the call's worker_ref
    phase,      \* where the call is
    messages,   \* the caller's messages, until they are sent
    req,        \* the request as marshalled, until it is sent
    scan,       \* sse.Scanner: the frame being read
    held,       \* pendingFinishReason (openai), inputTokens (anthropic)
    body,       \* the response body
    out,        \* the deltas returned so far
    end,        \* how the call has ended, or "open"
    sent        \* history: what the upstream has sent in complete lines

vars == <<ref, phase, messages, req, scan, held, body, out, end, sent>>

p == ref.provider

Phases == {"new", "requested", "streaming", "last", "ended"}
Ends   == {"open", "final", "eof", "error", "invalid", "not_found"}

NoFrame == [name |-> NoName, data |-> Bad, lines |-> 0, any |-> FALSE]

\* Usage is sent where the format gives its totals, or earlier in the answer.
When == {"last", "early"}

Sent == [texts : Nat, beside : SUBSET Nat, finish : BOOLEAN,
         input : SUBSET When, output : SUBSET When, complete : BOOLEAN]

TypeOK ==
    /\ ref \in WorkerRefs
    /\ phase \in Phases
    /\ \A i \in DOMAIN messages : messages[i] \in [role : Roles, id : Nat]
    /\ \A i \in DOMAIN req.system : req.system[i] \in Nat
    /\ \A i \in DOMAIN req.rest : req.rest[i] \in WireMessages
    /\ req.max \in {"given", "default", "omitted"}
    /\ scan \in [name : EventNames \cup {NoName}, data : Payloads, lines : 0..2, any : BOOLEAN]
    /\ held \in BOOLEAN
    /\ body \in {"none", "open", "closed"}
    /\ out \in Seq(Deltas)
    /\ end \in Ends
    /\ sent \in Sent

Init ==
    /\ ref \in WorkerRefs
    /\ phase = "new"
    /\ \E roles \in Conversations : messages = Numbered(roles)
    /\ req = NoRequest
    /\ scan = NoFrame
    /\ held = FALSE
    /\ body = "none"
    /\ out = << >>
    /\ end = "open"
    /\ sent = [texts |-> 0, beside |-> {}, finish |-> FALSE, input |-> {}, output |-> {}, complete |-> FALSE]

EndWith(e) == phase' = "ended" /\ end' = e /\ messages' = << >> /\ req' = NoRequest

(***************************************************************************)
(* Dispatch: ParseWorkerRef, Registry.Lookup, Adapter.Invoke.              *)
(***************************************************************************)
ParseWorkerRef ==
    /\ phase = "new"
    /\ ~ref.ok
    /\ EndWith("invalid")
    /\ UNCHANGED <<ref, scan, held, body, out, sent>>

Lookup ==
    /\ phase = "new"
    /\ ref.ok
    /\ p \notin Names
    /\ EndWith("not_found")
    /\ UNCHANGED <<ref, scan, held, body, out, sent>>

parseMode(model) == model \in {"normal", "slow", "fail", "fail_mid_stream"}

UnknownMode ==
    /\ phase = "new"
    /\ p = "fake"
    /\ ~parseMode(ref.model)
    /\ EndWith("error")
    /\ UNCHANGED <<ref, scan, held, body, out, sent>>

Marshal ==
    /\ phase = "new"
    /\ p \in Names
    /\ p = "fake" => parseMode(ref.model)
    /\ phase' = "requested"
    /\ \E given \in BOOLEAN :
         LET r == wireRequest(p, messages)
         IN req' = [system |-> r.system, rest |-> r.rest, max |-> maxTokens(p, given)]
    /\ UNCHANGED <<ref, messages, scan, held, body, out, end, sent>>

\* mutant: the body of a refusal is not closed
RefusedOpen ==
    /\ phase = "requested"
    /\ EndWith("error")
    /\ body' \in {"none", "open"}
    /\ UNCHANGED <<ref, scan, held, out, sent>>

\* No connection, or a status other than 200, whose body is read and closed.
Refused ==
    /\ phase = "requested"
    /\ EndWith("error")
    /\ body' \in {"none", "closed"}
    /\ UNCHANGED <<ref, scan, held, out, sent>>

\* provider-fake answers 200 unless its mode is fail.
Accepted ==
    /\ phase = "requested"
    /\ p = "fake" => ref.model # "fail"
    /\ phase' = "streaming"
    /\ messages' = << >>
    /\ req' = NoRequest
    /\ body' = "open"
    /\ UNCHANGED <<ref, scan, held, out, end, sent>>

(***************************************************************************)
(* Recv of each adapter: what it makes of one frame (one JSON document for *)
(* the fake), n being the number of the text it reads.                     *)
(***************************************************************************)
\* mutant: the finish reason is not kept for the usage chunk that follows
openaiForgetful(d, h, n) ==
    IF d.kind = "done"
    THEN IF h THEN Finish(FinalDelta(0, TRUE, FALSE, FALSE)) ELSE Fail("eof")
    ELSE IF d.kind \in {"malformed", "error"} THEN Fail("error")
    ELSE IF ~d.choice
    THEN IF d.usage THEN Finish(FinalDelta(0, FALSE, TRUE, TRUE)) ELSE Skip(h)
    ELSE IF d.finish
    THEN IF d.usage THEN Finish(FinalDelta(0, TRUE, TRUE, TRUE)) ELSE Skip(TRUE)
    ELSE IF d.text THEN Emit(n, h) ELSE Skip(h)

openaiRecv(d, h, n) ==
    IF d.kind = "done"
    THEN IF h THEN Finish(FinalDelta(0, TRUE, FALSE, FALSE)) ELSE Fail("eof")
    ELSE IF d.kind \in {"malformed", "error"} THEN Fail("error")
    ELSE IF ~d.choice
    THEN IF d.usage THEN Finish(FinalDelta(0, h, TRUE, TRUE)) ELSE Skip(h)
    ELSE IF d.finish
    THEN IF d.usage THEN Finish(FinalDelta(0, TRUE, TRUE, TRUE)) ELSE Skip(TRUE)
    ELSE IF d.text THEN Emit(n, h) ELSE Skip(h)

anthropicRecv(name, d, h, n) ==
    IF name = "error" THEN Fail("error")
    ELSE IF name \in {NoName, "ping"} THEN Skip(h)
    ELSE IF d.kind = "malformed" THEN Fail("error")
    ELSE CASE name = "message_start" -> Skip(TRUE)
           [] name = "content_block_delta" -> IF d.text THEN Emit(n, h) ELSE Skip(h)
           [] name = "message_delta" -> Finish(FinalDelta(0, d.finish, h, TRUE))

\* mutant: the text of the last chunk is dropped
googleTerse(d, n) ==
    IF d.kind = "malformed" THEN Fail("error")
    ELSE IF ~d.choice THEN Skip(FALSE)
    ELSE IF d.finish THEN Finish(FinalDelta(0, TRUE, d.usage, d.usage))
    ELSE IF d.text THEN Emit(n, FALSE) ELSE Skip(FALSE)

googleRecv(d, n) ==
    IF d.kind = "malformed" THEN Fail("error")
    ELSE IF ~d.choice THEN Skip(FALSE)
    ELSE IF d.finish THEN Finish(FinalDelta(IF d.text THEN n ELSE 0, TRUE, d.usage, d.usage))
    ELSE IF d.text THEN Emit(n, FALSE) ELSE Skip(FALSE)

\* Of the pieces in a document the one Recv reads comes first.
Number(d) == IF d.beside THEN sent.texts - 1 ELSE sent.texts

Recv(name, d) ==
    CASE p = "openai"    -> openaiRecv(d, held, Number(d))
      [] p = "anthropic" -> anthropicRecv(name, d, held, Number(d))
      [] p = "google"    -> googleRecv(d, Number(d))

\* mutant: an error in a frame does not end the reading
TakeOn(turn, goes_on) ==
    /\ out' = out \o turn.deltas
    /\ held' = turn.held
    /\ body' = IF turn.closes THEN "closed" ELSE body
    /\ end' = turn.ending
    /\ phase' = IF turn.ending \in {"open", "error"} THEN goes_on ELSE "ended"

\* The leader drains until a final delta or an error.
Take(turn, goes_on) ==
    /\ out' = out \o turn.deltas
    /\ held' = turn.held
    /\ body' = IF turn.closes THEN "closed" ELSE body
    /\ end' = turn.ending
    /\ phase' = IF turn.ending = "open" THEN goes_on ELSE "ended"

(***************************************************************************)
(* sse.Scanner.Next, line by line.                                         *)
(***************************************************************************)
EventLine(name) ==
    /\ phase = "streaming"
    /\ p = "anthropic"
    /\ scan.lines = 0       \* upstreams put the name before the data
    /\ scan' = [scan EXCEPT !.name = name, !.any = TRUE]
    /\ UNCHANGED <<ref, phase, messages, req, held, body, out, end, sent>>

\* A comment (keep-alive), id: or retry: line.
OtherLine ==
    /\ phase = "streaming"
    /\ p # "fake"
    /\ scan' = [scan EXCEPT !.any = TRUE]
    /\ UNCHANGED <<ref, phase, messages, req, held, body, out, end, sent>>

\* How many pieces of text a document holds.
Pieces(d) == (IF d.text THEN 1 ELSE 0) + (IF d.beside THEN 1 ELSE 0)

\* When the usage in a document is the answer's total.
IsTotal(d) == CASE p = "openai" -> ~d.choice \/ d.finish
             [] p = "google" -> d.finish
             [] OTHER        -> TRUE

UsageOf(d, name) ==
    IF d.usage /\ (p = "anthropic" => scan.name = name)
    THEN {IF IsTotal(d) THEN "last" ELSE "early"} ELSE {}

\* All the upstream has sent: its text, its usage, and its word that the answer is
\* complete, as each wire format gives it.
Tally(d) ==
    [texts    |-> sent.texts + Pieces(d),
     beside   |-> sent.beside \cup (IF d.beside THEN {sent.texts + Pieces(d)} ELSE {}),
     finish   |-> sent.finish \/ d.finish,
     input    |-> sent.input \cup UsageOf(d, "message_start"),
     output   |-> sent.output \cup UsageOf(d, "message_delta"),
     complete |-> sent.complete \/ d.finish \/ (p = "openai" /\ d.usage /\ IsTotal(d))
                                \/ (p = "anthropic" /\ scan.name = "message_delta")]

\* Data lines of one frame are joined; two documents in a frame are no document.
DataLine(d) ==
    /\ phase = "streaming"
    /\ p # "fake"
    /\ sent.texts + Pieces(d) <= MaxTexts
    /\ scan' = [scan EXCEPT !.data = IF scan.lines = 0 THEN d ELSE Bad,
                            !.lines = IF @ = 2 THEN 2 ELSE @ + 1, !.any = TRUE]
    /\ sent' = Tally(d)
    /\ UNCHANGED <<ref, phase, messages, req, held, body, out, end>>

BlankLine ==
    /\ phase = "streaming"
    /\ scan.any
    /\ scan' = NoFrame
    /\ Take(Recv(scan.name, scan.data), "streaming")
    /\ UNCHANGED <<ref, messages, req, sent>>

\* The body ends: a frame without its blank line still counts.
BodyEnds ==
    /\ phase = "streaming"
    /\ p # "fake"
    /\ scan' = NoFrame
    /\ IF scan.any THEN Take(Recv(scan.name, scan.data), "last")
       ELSE Take(Fail("eof"), "ended")
    /\ UNCHANGED <<ref, messages, req, sent>>

LastRead ==
    /\ phase = "last"
    /\ Take(Fail("eof"), "ended")
    /\ UNCHANGED <<ref, messages, req, scan, sent>>

\* A connection that breaks, a line over the buffer, the client's timeout; for
\* the fake also a document that breaks off.
ReadFails ==
    /\ phase = "streaming"
    /\ scan' = NoFrame
    /\ Take(Fail("error"), "ended")
    /\ UNCHANGED <<ref, messages, req, sent>>

(***************************************************************************)
(* provider-fake's handleFakeComplete, read by the fake adapter's Recv.    *)
(***************************************************************************)
cannedChunks == IF ref.model = "fail_mid_stream" THEN 2 ELSE Canned

FakeChunk ==
    /\ phase = "streaming"
    /\ p = "fake"
    /\ sent.texts < cannedChunks
    /\ sent' = [sent EXCEPT !.texts = @ + 1]
    /\ Take(Emit(sent.texts + 1, FALSE), "streaming")
    /\ UNCHANGED <<ref, messages, req, scan>>

FakeFinal ==
    /\ phase = "streaming"
    /\ p = "fake"
    /\ sent.texts = cannedChunks
    /\ ref.model # "fail_mid_stream"
    /\ sent' = [sent EXCEPT !.finish = TRUE, !.input = {"last"}, !.output = {"last"}, !.complete = TRUE]
    /\ Take(Finish(FinalDelta(0, TRUE, TRUE, TRUE)), "ended")
    /\ UNCHANGED <<ref, messages, req, scan>>

\* provider-fake dies between two documents.
FakeEnds ==
    /\ phase = "streaming"
    /\ p = "fake"
    /\ Take(Fail("eof"), "ended")
    /\ UNCHANGED <<ref, messages, req, scan, sent>>

Done == phase = "ended" /\ UNCHANGED vars

Next ==
    \/ ParseWorkerRef \/ Lookup \/ UnknownMode \/ Marshal \/ Refused \/ Accepted
    \/ \E name \in EventNames : EventLine(name)
    \/ OtherLine
    \/ phase = "streaming" /\ p # "fake" /\ \E d \in DataLines(p, scan.name) : DataLine(d)
    \/ BlankLine \/ BodyEnds \/ LastRead \/ ReadFails
    \/ FakeChunk \/ FakeFinal \/ FakeEnds
    \/ Done

Spec == Init /\ [][Next]_vars

(***************************************************************************)
(* Properties.                                                             *)
(***************************************************************************)
Passed(t) == \E i \in DOMAIN out : out[i].content = t

(* Text that stands where Recv reads it reaches the leader once and in     *)
(* order, whatever lies between the chunks that carry it, with none of it  *)
(* left out in the middle, and none at all when a final delta ends the     *)
(* answer; of the text beside it (Google's parts after the first, text on  *)
(* OpenAI's finish chunk) none is passed on.                               *)
TextInOrder ==
    /\ \A i, j \in DOMAIN out :
         i < j /\ out[i].content # 0 /\ out[j].content # 0 => out[i].content < out[j].content
    /\ \A i \in DOMAIN out :
         /\ out[i].content <= sent.texts
         /\ \A t \in 1..out[i].content : Passed(t) <=> t \notin sent.beside
    /\ end = "final" => \A t \in 1..sent.texts : Passed(t) <=> t \notin sent.beside

Leader == INSTANCE DeltaStream WITH
    Streams    <- {"call"},
    BestEffort <- FALSE,
    deltas     <- [s \in {"call"} |-> [i \in DOMAIN out |-> IF out[i].is_final THEN "final" ELSE "more"]],
    state      <- [s \in {"call"} |-> IF end \in {"invalid", "not_found"} THEN "declined" ELSE end]

(* Whatever an upstream sends, and wherever it breaks off, the leader gets *)
(* a stream: one delta per Recv, nothing after the final one or after an   *)
(* error.  It is all that Gateway assumes of an adapter.                   *)
LeaderSeesStream == Leader!StreamSpec

(* There is one final delta, the last, only for an answer the upstream has *)
(* completed, and it carries the finish reason and both token counts if    *)
(* the upstream has sent them where its format gives the totals, the two   *)
(* counts of Anthropic in different events.  Counts sent only earlier, on  *)
(* a chunk that does not end the answer, are the ones that are lost: such  *)
(* a call is not billed.                                                   *)
FinalIsEarned ==
    /\ \A i \in DOMAIN out : out[i].is_final => i = Len(out) /\ end = "final"
    /\ end = "final" =>
         /\ out # << >> /\ Last(out).is_final
         /\ sent.complete
         /\ Last(out).finish = sent.finish
         /\ Last(out).input = ("last" \in sent.input)
         /\ Last(out).output = ("last" \in sent.output)

(* Every way out of a call has closed the response body: none of the       *)
(* returns of Invoke and Recv leaks its connection.                        *)
NoBodyLeaks == phase = "ended" => body # "open"

(* No message is lost or moved when a request takes its provider's shape:  *)
(* system texts and the others keep their order and together are all of    *)
(* them, and the roles are ones the provider accepts.                      *)
RequestKeepsMessages ==
    phase = "requested" =>
        LET rest == [i \in DOMAIN req.rest |-> req.rest[i].id]
            ids  == req.system \o rest
        IN /\ \A s \in {req.system, rest} : \A i, j \in DOMAIN s : i < j => s[i] < s[j]
           /\ {ids[i] : i \in DOMAIN ids} = DOMAIN messages
           /\ Len(ids) = Len(messages)
           /\ p \in {"anthropic", "google"} =>
                \A i \in DOMAIN req.rest : req.rest[i].role # "system"
           /\ p = "google" => \A i \in DOMAIN req.rest : req.rest[i].role # "assistant"
           /\ p = "anthropic" => req.max # "omitted"
=============================================================================
