---------------------------- MODULE ModelStream ----------------------------
(* One request through a model port: OpenAIModelPort (providers/openai_port.py)
   or AnthropicModelPort (providers/anthropic_port.py).  The port translates
   the context, opens the provider's stream, assembles the answer from pieces
   that come in any order, and ends in a completion or an error.

   Each await is raced with the Run's token (CancellationToken.run), in the
   port and again in whoever consumes it: so a stream that was opened may be
   dropped before the port resumes.  Of a piece only what it brings, the call
   it names and its position are kept.                                        *)
EXTENDS Integers, SequencesExt, FiniteSets

CONSTANTS
  Indexes,     \* indexes a provider gives to the calls of a message
  NoIndex,     \* a piece of a call that gives none
  Fragments,   \* what a piece of a call may bring: an id, a name, part of the arguments
  MaxPlace,    \* bound on the place of a piece of a call in its chunk
  MaxPieces,   \* bound on the pieces of one stream
  MaxSegments, \* bound on the exchanges of a context
  MaxAnswers   \* bound on the calls of a message of the context

ASSUME StreamAssumption ==
  /\ Indexes \subseteq Nat /\ IsFiniteSet(Indexes) /\ NoIndex \notin Nat
  /\ Fragments \subseteq SUBSET {"id", "name", "part"} /\ MaxPlace \in Nat
  /\ MaxPieces \in Nat /\ MaxSegments \in Nat /\ MaxAnswers \in Nat

VARIABLES
  port,     \* "openai" or "anthropic"
  client,   \* of the port: "none", "own", "given"; start() fills it
  started,  \* _started
  context,  \* messages of the ModelRequest
  request,  \* what the port makes of them
  phase,    \* where the port's generator is
  halted,   \* the token is cancelled
  conn,     \* the provider's stream: none, open, closed (its close was called), dropped
  got,      \* what the port has gathered
  reply,    \* how the stream ends
  answer,   \* the message of ModelResponseCompleted
  said      \* history: the pieces the provider has sent

streamVars == <<port, client, started, context, request, phase, halted, conn, got,
                reply, answer, said>>

Empty == [text |-> <<>>, calls |-> <<>>, usage |-> FALSE, finish |-> FALSE, stop |-> FALSE]
NoAnswer == [text |-> <<>>, calls |-> <<>>, usage |-> FALSE]

StreamInit ==
  /\ port \in {"openai", "anthropic"}
  /\ client \in {"none", "given"} /\ started = FALSE
  /\ context = <<>> /\ request = <<>>
  /\ phase = "new" /\ halted = FALSE /\ conn = "none"
  /\ got = Empty /\ reply = "none" /\ answer = NoAnswer
  /\ said = <<>>

-----------------------------------------------------------------------------
(* The context of a request *)

(* one exchange of a Run: a message and the results that answer its calls *)
Segments ==
  {<<[role |-> "user", calls |-> 0]>>, <<[role |-> "system", calls |-> 0]>>}
    \cup {<<[role |-> "assistant", calls |-> n]>>
            \o [i \in 1..n |-> [role |-> "result", calls |-> 0]] : n \in 0..MaxAnswers}

Contexts == {FlattenSeq(s) : s \in SeqOf(Segments, MaxSegments)}

AppendNever(messages) ==  \* mutant: a message for every result
  FALSE

(* _can_append_tool_result: the last message holds nothing but results *)
CanAppend(messages) ==
  messages # <<>> /\ Last(messages).role = "user" /\ ~Last(messages).text

(* _request_messages: system text is set apart, results in a row are one
   message of the user *)
Translated(messages, m) ==
  CASE m.role = "system" -> messages
    [] m.role = "result" /\ CanAppend(messages) ->
         [messages EXCEPT ![Len(messages)].results = @ + 1]
    [] m.role = "result" /\ ~CanAppend(messages) ->
         Append(messages, [role |-> "user", text |-> FALSE, results |-> 1, calls |-> 0])
    [] OTHER ->
         Append(messages, [role |-> m.role, text |-> TRUE, results |-> 0, calls |-> m.calls])

RequestMessages(c) ==
  LET made[k \in 0..Len(c)] == IF k = 0 THEN <<>> ELSE Translated(made[k - 1], c[k])
  IN made[Len(c)]

(* _message_to_openai: one message for each, a result in the role "tool" *)
MessageToOpenAI(m) ==
  [role |-> IF m.role = "result" THEN "tool" ELSE m.role, text |-> m.role # "result",
   results |-> IF m.role = "result" THEN 1 ELSE 0, calls |-> m.calls]

-----------------------------------------------------------------------------
(* The port *)

Start ==
  /\ ~started /\ phase = "new"
  /\ started' = TRUE
  /\ client' = IF client = "none" THEN "own" ELSE client
  /\ UNCHANGED <<port, context, request, phase, halted, conn, got, reply, answer, said>>

(* the harness stops its resources after the last Run: only a client of the
   port's own is closed *)
Shutdown ==
  /\ started /\ phase \in {"new", "over"}
  /\ started' = FALSE
  /\ client' = IF client = "own" THEN "none" ELSE client
  /\ UNCHANGED <<port, context, request, phase, halted, conn, got, reply, answer, said>>

(* stream() up to its first await; what it refuses ends it at once: Anthropic
   has no response_format and no request without messages *)
Translate ==
  /\ phase = "new" /\ started
  /\ context' \in Contexts
  /\ IF port = "anthropic"
       THEN /\ request' = RequestMessages(context')
            /\ \/ request' # <<>> /\ phase' = "translated" /\ UNCHANGED reply
               \/ request' # <<>> /\ phase' = "over" /\ reply' = "call_error"
               \/ request' = <<>> /\ phase' = "over" /\ reply' = "protocol_error"
       ELSE /\ request' = [k \in DOMAIN context' |-> MessageToOpenAI(context'[k])]
            /\ phase' = "translated" /\ UNCHANGED reply
  /\ UNCHANGED <<port, client, started, halted, conn, got, answer, said>>

Connect ==
  /\ phase = "translated"
  /\ IF halted THEN phase' = "over" /\ reply' = "cancelled"
               ELSE phase' = "opening" /\ UNCHANGED reply
  /\ context' = <<>> /\ request' = <<>>
  /\ UNCHANGED <<port, client, started, halted, conn, got, answer, said>>

(* the provider answers, the port has not resumed yet *)
Opened ==
  /\ phase = "opening"
  /\ conn' = "open" /\ phase' = "opened"
  /\ UNCHANGED <<port, client, started, context, request, halted, got, reply, answer, said>>

OpeningFails ==
  /\ phase = "opening"
  /\ phase' = "over" /\ reply' = "call_error"
  /\ UNCHANGED <<port, client, started, context, request, halted, conn, got, answer, said>>

(* the loop begins, or ends at raise_if_cancelled *)
ResumeOpened ==
  /\ phase = "opened"
  /\ IF halted THEN phase' = "closing" /\ reply' = "cancelled"
               ELSE phase' = "reading" /\ UNCHANGED reply
  /\ UNCHANGED <<port, client, started, context, request, halted, conn, got, answer, said>>

Pieces ==
  [kind : {"text", "usage", "finish", "stop"}, index : {NoIndex}, place : {0}, gives : {{}}]
    \cup [kind : {"call"}, index : Indexes \cup {NoIndex}, place : 0..MaxPlace,
          gives : Fragments]

(* OpenAI: a piece without an index belongs to its place in the chunk *)
Home(p) == IF p.index = NoIndex THEN p.place ELSE p.index

(* a call in the making: the piece that gave its id, 0 if none has, and those
   its name and its arguments are put together from *)
NewCall(i) == [index |-> i, id |-> 0, names |-> <<>>, parts |-> <<>>]

Holds(made, i) == \E k \in 1..Len(made) : made[k].index = i

(* the id is overwritten, the name and the arguments are appended; a block of
   Anthropic that starts again starts anew *)
WithPiece(call, p, n) ==
  LET old == IF port = "anthropic" /\ "id" \in p.gives THEN NewCall(call.index) ELSE call
      More(list, what) == IF what \in p.gives THEN Append(list, n) ELSE list
  IN [index |-> call.index, id |-> IF "id" \in p.gives THEN n ELSE old.id,
      names |-> More(old.names, "name"), parts |-> More(old.parts, "part")]

KeepPart(made, p, n) ==  \* mutant: a piece without an id is added to the call begun last
  LET known == IF Holds(made, Home(p)) THEN made ELSE Append(made, NewCall(Home(p)))
      k == IF "id" \notin p.gives THEN Len(known)
           ELSE CHOOSE j \in 1..Len(known) : known[j].index = Home(p)
  IN [known EXCEPT ![k] = WithPiece(@, p, n)]

(* a piece of a tool call, in the dict of calls by index *)
WithPart(made, p, n) ==
  LET known == IF Holds(made, Home(p)) THEN made ELSE Append(made, NewCall(Home(p)))
      k == CHOOSE j \in 1..Len(known) : known[j].index = Home(p)
  IN [known EXCEPT ![k] = WithPiece(@, p, n)]

(* the port's locals after a piece *)
Gathered(p, n) ==
  CASE p.kind = "text"   -> [got EXCEPT !.text = Append(@, n)]
    [] p.kind = "usage"  -> [got EXCEPT !.usage = TRUE]
    [] p.kind = "finish" -> [got EXCEPT !.finish = TRUE]
    [] p.kind = "stop"   -> [got EXCEPT !.stop = TRUE]
    [] OTHER             -> [got EXCEPT !.calls = WithPart(@, p, n)]

(* the pieces of one chunk are numbered from 0; those of Anthropic are blocks
   that start, with an index, an id and a name, and parts of them *)
Sends(p) ==
  /\ p.place > 0 => /\ said # <<>> /\ Last(said).kind = "call"
                    /\ Last(said).place = p.place - 1
  /\ p.kind = "stop" => port = "anthropic"
  /\ p.kind = "call" /\ port = "anthropic" =>
       p.index # NoIndex /\ p.place = 0 /\ p.gives \in {{"id", "name"}, {"part"}}

(* an input delta without a block that started *)
Stray(p) ==
  port = "anthropic" /\ p.kind = "call" /\ "id" \notin p.gives /\ ~Holds(got.calls, p.index)

(* a text is handed to the consumer, which may stop there *)
Receive ==
  /\ phase = "reading" /\ Len(said) < MaxPieces
  /\ \E p \in Pieces :
       /\ Sends(p)
       /\ said' = Append(said, p)
       /\ IF Stray(p)
            THEN phase' = "closing" /\ reply' = "protocol_error" /\ UNCHANGED got
            ELSE /\ got' = Gathered(p, Len(said'))
                 /\ phase' = IF p.kind = "text" THEN "yielded" ELSE "reading"
                 /\ UNCHANGED reply
  /\ UNCHANGED <<port, client, started, context, request, halted, conn, answer>>

(* a piece without meaning, an exception of the client, the provider's error *)
ReadingFails ==
  /\ phase = "reading"
  /\ phase' = "closing" /\ reply' \in {"protocol_error", "call_error"}
  /\ UNCHANGED <<port, client, started, context, request, halted, conn, got, answer, said>>

(* the consumer asks for the next event *)
Continue ==
  /\ phase = "yielded" /\ ~halted
  /\ phase' = "reading"
  /\ UNCHANGED <<port, client, started, context, request, halted, conn, got, reply, answer,
                 said>>

(* the provider's stream ends, complete or not *)
Drained ==
  /\ phase = "reading"
  /\ phase' = "closing" /\ reply' = "ended"
  /\ UNCHANGED <<port, client, started, context, request, halted, conn, got, answer, said>>

CancelKeeping ==  \* mutant: the finally clause sits inside the loop's error handling
  /\ phase \in {"opening", "opened", "reading", "yielded"}
  /\ phase' = "over" /\ reply' = "cancelled"
  /\ conn' = IF phase = "opened" THEN "dropped" ELSE conn
  /\ UNCHANGED <<port, client, started, context, request, halted, got, answer, said>>

(* the token, a timeout or the cancelled task of the consumer, or its aclose().
   What opened in the same instant is lost: the await raised, so the port has
   nothing to close *)
CancelStream ==
  /\ phase \in {"opening", "opened", "reading", "yielded"}
  /\ reply' = "cancelled"
  /\ IF phase \in {"reading", "yielded"}
       THEN phase' = "closing" /\ UNCHANGED conn
       ELSE phase' = "over" /\ conn' = IF phase = "opened" THEN "dropped" ELSE conn
  /\ UNCHANGED <<port, client, started, context, request, halted, got, answer, said>>

(* the port knows the answer to be whole *)
Whole(g) == g.finish /\ (port = "anthropic" => g.stop)

(* what _completed_tool_call asks of a call, apart from its arguments *)
Completable(call) == call.id # 0 /\ call.names # <<>>

ByIndex(made) ==
  CHOOSE sorted \in [1..Len(made) -> ToSet(made)] :
    /\ ToSet(sorted) = ToSet(made)
    /\ \A k \in 2..Len(made) : sorted[k - 1].index < sorted[k].index

(* the finally clause, then the completion: it needs the end the provider
   promised and calls with a name, an id and arguments that parse *)
CloseStream ==
  /\ phase = "closing"
  /\ conn' = "closed" /\ phase' = "over"
  /\ IF reply # "ended" THEN UNCHANGED <<reply, answer>>
     ELSE \/ reply' = "protocol_error" /\ UNCHANGED answer
          \/ /\ Whole(got) /\ \A k \in 1..Len(got.calls) : Completable(got.calls[k])
             /\ got.text # <<>> \/ got.calls # <<>>
             /\ reply' = "completed"
             /\ answer' = [text |-> got.text, calls |-> ByIndex(got.calls),
                           usage |-> got.usage]
  /\ UNCHANGED <<port, client, started, context, request, halted, got, said>>

Halt ==
  /\ ~halted /\ phase \notin {"new", "over"}
  /\ halted' = TRUE
  /\ UNCHANGED <<port, client, started, context, request, phase, conn, got, reply, answer,
                 said>>

StreamNext ==
  \/ Start \/ Shutdown \/ Translate \/ Connect \/ Opened \/ OpeningFails \/ ResumeOpened
  \/ Receive \/ ReadingFails \/ Continue \/ Drained \/ CancelStream \/ CloseStream \/ Halt

StreamSpec == StreamInit /\ [][StreamNext]_streamVars

-----------------------------------------------------------------------------
(* Every variable stays in the range the code gives it. *)
StreamTypeOK ==
  /\ port \in {"openai", "anthropic"} /\ started \in BOOLEAN /\ halted \in BOOLEAN
  /\ client \in {"none", "own", "given"} /\ (started => client # "none")
  /\ phase \in {"new", "translated", "opening", "opened", "reading", "yielded", "closing",
                "over"}
  /\ conn \in {"none", "open", "closed", "dropped"}
  /\ reply \in {"none", "ended", "completed", "cancelled", "protocol_error", "call_error"}
  /\ said \in Seq(Pieces)

(* Whatever ends a request, the close of its provider stream is called; only a
   stream that opened in the very instant of a cancellation, and of which
   nothing was read, is left behind. *)
StreamsAreClosed ==
  phase = "over" => conn # "open" /\ (conn = "dropped" => reply = "cancelled" /\ said = <<>>)

(* the places of the pieces of a kind *)
Positions(pieces, kind) == {n \in 1..Len(pieces) : pieces[n].kind = kind}

(* the piece brings something for call i: it gives the index, or stands at this
   place of its chunk and gives none *)
Gives(p, i, what) ==
  p.kind = "call" /\ (p.index = i \/ (p.index = NoIndex /\ p.place = i)) /\ what \in p.gives

IsLast(pieces, n, i) == \A m \in n + 1..Len(pieces) : ~Gives(pieces[m], i, "id")

(* where the latest id of a call is; and where what counts for it is: with
   Anthropic what came since that id, with OpenAI everything *)
LatestId(pieces, i) ==
  {n \in 1..Len(pieces) : Gives(pieces[n], i, "id") /\ IsLast(pieces, n, i)}
Counted(pieces, i, what) ==
  {n \in 1..Len(pieces) :
     Gives(pieces[n], i, what) /\ (port = "anthropic" => IsLast(pieces, n, i))}

(* a list of the numbers of a set, in their order *)
Lists(list, numbers) ==
  ToSet(list) = numbers /\ \A a, b \in 1..Len(list) : a < b => list[a] < list[b]

(* A completion is what the provider said until it said it was done: every text
   in order, usage exactly if it was told, and every call that was named, sorted
   by index, with its latest id and its own pieces of name and arguments in
   order, however the pieces of several calls interleave.  Calls are told apart
   by the index a piece gives, or else by its place in its chunk: calls that
   come without an index in chunks of their own are one call, place 0, of the
   last id and of all names and arguments (providers/openai_port.py:182-206). *)
AnswersAreWhole ==
  reply = "completed" =>
    /\ Positions(said, "finish") # {} /\ (port = "anthropic" => Positions(said, "stop") # {})
    /\ Lists(answer.text, Positions(said, "text"))
    /\ answer.usage <=> Positions(said, "usage") # {}
    /\ \A n \in Positions(said, "call") :
         \E k \in 1..Len(answer.calls) :
           answer.calls[k].index = IF said[n].index = NoIndex THEN said[n].place ELSE said[n].index
    /\ \A k \in 1..Len(answer.calls) :
         LET call == answer.calls[k]
         IN /\ LatestId(said, call.index) = {call.id}
            /\ call.names # <<>> /\ Lists(call.names, Counted(said, call.index, "name"))
            /\ Lists(call.parts, Counted(said, call.index, "part"))
            /\ k > 1 => answer.calls[k - 1].index < call.index

(* Every call of a message is answered where the vendor looks for it: for
   Anthropic by all the results in the one user message right after it, for
   OpenAI by as many tool messages; and no result stands anywhere else. *)
ResultsFollowTheirCalls ==
  phase = "translated" =>
    LET n == Len(request)
        Results(k) == IF k \in 1..n THEN request[k].results ELSE 0
    IN \A k \in 1..n :
         IF port = "anthropic"
         THEN /\ request[k].calls = Results(k + 1)
              /\ request[k].results > 0 => k > 1
         ELSE /\ \A i \in 1..request[k].calls : Results(k + i) = 1
              /\ Results(k) > 0 =>
                   \E i \in 1..k - 1 : k - i <= request[i].calls
=============================================================================
