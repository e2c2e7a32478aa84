----------------------------- MODULE ProviderStream -----------------------------
(***************************************************************************)
(* One streamed chat: the provider sends its reply as server-sent events,  *)
(* the network cuts them into chunks wherever it likes, postSse puts the   *)
(* records together again and the normalizers of the three transports      *)
(* gather text and tool calls from their fragments.                        *)
(*                                                                         *)
(* A record is three symbols: two halves of its data and the blank line    *)
(* that ends it.  A tool call is known by its id and its name alike, and   *)
(* argument text by the numbers of its fragments.                          *)
(*                                                                         *)
(* The provider is external: it sends what its reply holds, but it may     *)
(* refuse, break off, or lose the connection at any point.                 *)
(***************************************************************************)
EXTENDS Integers, Sequences, FiniteSets, SequencesExt

CONSTANTS Transports,  \* those of the catalogue that are looked at
          MaxText,     \* bound: fragments of text in a reply
          MaxCalls,    \* bound: tool calls in a reply
          MaxArgs,     \* bound: fragments of the arguments of a call
          MaxInFlight  \* bound: symbols the provider has sent and nobody has read

ASSUME KnownTransports ==
  Transports \subseteq {"chat_completions", "anthropic_messages", "codex_responses"}
ASSUME StreamBounds == {MaxText, MaxCalls, MaxArgs, MaxInFlight} \subseteq Nat

VARIABLES transport,  \* the transport of the selected provider
          reply,      \* what the provider has to say
          said,       \* how much of it was sent
          connection, \* what has become of the connection
          wire,       \* symbols on their way
          buffer,     \* symbols of the record that is not complete
          client,     \* the stream state
          phase       \* where the chat is

vars == <<transport, reply, said, connection, wire, buffer, client, phase>>

-----------------------------------------------------------------------------
\* A reply: fragments of text, and for every tool call fragments of its arguments.
Replies == [text : 0 .. MaxText, args : UNION {[1 .. n -> 0 .. MaxArgs] : n \in 0 .. MaxCalls}]

Null  == [kind |-> "null"]
Begin == [kind |-> "begin"]
End   == [kind |-> "end"]
Text(i)        == [kind |-> "text", part |-> i]
Open(c)        == [kind |-> "open", call |-> c]
Arguments(c,i) == [kind |-> "arguments", call |-> c, part |-> i]
Done(c, n)     == [kind |-> "done", call |-> c, parts |-> n]

\* The record of e on the wire.
Symbol(e, i) == [event |-> e, mark |-> <<"head", "tail", "blank">>[i]]
Record(e)    == [i \in 1 .. 3 |-> Symbol(e, i)]

Fresh == [text |-> << >>, calls |-> << >>, finish |-> FALSE, usage |-> {}]

Settled == {"completed", "limited", "failed"}

Init == /\ transport \in Transports
        /\ reply \in Replies
        /\ said = [begin |-> FALSE, text |-> 0, calls |-> [c \in DOMAIN reply.args |-> 0],
                   end |-> FALSE]
        /\ connection = "open"
        /\ wire = << >>
        /\ buffer = << >>
        /\ client = Fresh
        /\ phase = "waiting"

-----------------------------------------------------------------------------
\* The provider.  said.calls[c] is 0 before the call was opened, then one more than the
\* fragments sent; a Responses provider may repeat the arguments in a last event, which
\* counts as one more.
Opened(c)   == said.calls[c] > 0
Finished(c) == said.calls[c] >= reply.args[c] + 1

\* Calls are opened in order; only the Messages transport finishes one block, the text
\* included, before the next.
MaySay(c) ==
  /\ \A d \in 1 .. c - 1 : Opened(d)
  /\ transport = "anthropic_messages" =>
       said.text = reply.text /\ \A d \in 1 .. c - 1 : Finished(d)

Sends(e, s) == /\ wire' = wire \o Record(e)
               /\ said' = s

Utter ==
  /\ connection = "open" /\ phase = "open"
  /\ Len(wire) + 3 <= MaxInFlight
  /\ \/ ~said.begin /\ Sends(Begin, [said EXCEPT !.begin = TRUE])
     \/ /\ said.begin /\ ~said.end
        /\ \/ said.text < reply.text /\ Sends(Text(said.text + 1), [said EXCEPT !.text = @ + 1])
           \/ \E c \in DOMAIN reply.args :
                /\ MaySay(c)
                /\ \/ ~Opened(c) /\ Sends(Open(c), [said EXCEPT !.calls[c] = 1])
                   \/ /\ Opened(c) /\ ~Finished(c)
                      /\ Sends(Arguments(c, said.calls[c]), [said EXCEPT !.calls[c] = @ + 1])
                   \/ /\ transport = "codex_responses" /\ said.calls[c] = reply.args[c] + 1
                      /\ Sends(Done(c, reply.args[c]), [said EXCEPT !.calls[c] = @ + 1])
           \/ /\ said.text = reply.text
              /\ \A c \in DOMAIN reply.args : Finished(c)
              /\ Sends(End, [said EXCEPT !.end = TRUE])
  /\ UNCHANGED <<transport, reply, connection, buffer, client, phase>>

\* The provider closes after its last word, whose blank line it may leave out, or after the
\* body of a refusal.
Close ==
  /\ connection = "open"
  /\ \/ phase = "open" /\ said.end
     \/ phase \in {"throttled", "refused"}
  /\ connection' = "closed"
  /\ \/ wire' = wire
     \/ wire # << >> /\ wire' = Front(wire)
  /\ UNCHANGED <<transport, reply, said, buffer, client, phase>>

\* It closes in the middle of its reply, perhaps of a record.
BreakOff ==
  /\ connection = "open" /\ phase = "open" /\ ~said.end
  /\ connection' = "cut"
  /\ \E n \in 0 .. Len(wire) : wire' = SubSeq(wire, 1, n)
  /\ UNCHANGED <<transport, reply, said, buffer, client, phase>>

\* The connection is lost after the headers: the response has no listener for that, so
\* the rest never arrives and neither does its end.
Lose ==
  /\ connection = "open" /\ phase \in {"open", "refused", "throttled"}
  /\ connection' = "lost"
  /\ wire' = << >>
  /\ UNCHANGED <<transport, reply, said, buffer, client, phase>>

-----------------------------------------------------------------------------
\* The headers arrive: 2xx, 429, or another status.
Headers ==
  /\ phase = "waiting"
  /\ phase' \in {"open", "throttled", "refused"}
  /\ UNCHANGED <<transport, reply, said, connection, wire, buffer, client>>

\* The request fails before there is a response.
RequestError ==
  /\ phase = "waiting"
  /\ phase' = "failed"
  /\ UNCHANGED <<transport, reply, said, connection, wire, buffer, client>>

\* Mutated Key: the fragments of a call are looked up by their index alone.
KeyByIndex(e) == IF transport = "codex_responses" /\ e.call = 1 /\ e.kind = "open"
                 THEN <<"item", e.call>> ELSE <<"index", e.call>>

\* The key of the call an event belongs to.  The first item of a Responses reply has the
\* index 0, which counts as none, and is known by its id.
Key(e) == IF transport = "codex_responses" /\ e.call = 1
          THEN <<"item", e.call>> ELSE <<"index", e.call>>

\* trackedToolCall
Tracked(calls, key) ==
  IF \E i \in DOMAIN calls : calls[i].key = key THEN calls
  ELSE Append(calls, [key |-> key, name |-> 0, args |-> << >>])

\* applyToolCallMetadata
Applied(call, e) ==
  CASE e.kind = "open"      -> [call EXCEPT !.name = e.call]
    [] e.kind = "arguments" -> [call EXCEPT !.args = Append(@, e.part)]
    [] e.kind = "done"      -> [call EXCEPT !.name = e.call, !.args = [i \in 1 .. e.parts |-> i]]

\* normalizeStreamPayload.  Usage is merged: the Messages transport sends it in two halves.
Normalized(state, e) ==
  CASE e.kind = "null"  -> state
    [] e.kind = "text"  -> [state EXCEPT !.text = Append(@, e.part)]
    [] e.kind = "begin" -> IF transport = "anthropic_messages"
                           THEN [state EXCEPT !.usage = @ \cup {"input"}] ELSE state
    [] e.kind = "end"   -> [state EXCEPT !.finish = TRUE,
                                         !.usage = @ \cup IF transport = "anthropic_messages"
                                                          THEN {"output"} ELSE {"input", "output"}]
    [] OTHER            -> [state EXCEPT !.calls =
                              LET calls == Tracked(@, Key(e))
                              IN [i \in DOMAIN calls |-> IF calls[i].key = Key(e)
                                                         THEN Applied(calls[i], e) ELSE calls[i]]]

\* parseSseRecord: data that is cut short is no JSON.
Parsed(symbols) ==
  IF Len(symbols) = 2 /\ symbols[1].mark = "head" /\ symbols[2] = [symbols[1] EXCEPT !.mark = "tail"]
  THEN symbols[1].event ELSE Null

\* The loop of the data listener, a symbol at a time: a blank line takes the record in
\* the buffer off it.
Read(state, symbol) ==
  IF symbol.mark = "blank"
  THEN [buffer |-> << >>, client |-> Normalized(state.client, Parsed(state.buffer))]
  ELSE [state EXCEPT !.buffer = Append(@, symbol)]

\* Where a chunk of n symbols leaves it.
Chunk(n) ==
  LET read[i \in 0 .. n] == IF i = 0 THEN [buffer |-> buffer, client |-> client]
                            ELSE Read(read[i - 1], wire[i])
  IN  read[n]

\* The data listener of a 2xx response.
Data ==
  /\ phase = "open"
  /\ \E n \in 1 .. Len(wire) :
       /\ buffer' = Chunk(n).buffer
       /\ client' = Chunk(n).client
       /\ wire' = SubSeq(wire, n + 1, Len(wire))
  /\ UNCHANGED <<transport, reply, said, connection, phase>>

\* The end listener parses what is left in the buffer.
Remaining == Parsed(buffer)

\* Mutated EndArrives: an end in the middle of a record waits for the rest of it.
EndArrivesClean == connection \in {"closed", "cut"} /\ wire = << >> /\ buffer = << >>

EndArrives == connection \in {"closed", "cut"} /\ wire = << >>

\* The end of the response settles the promise, and the result is made of its status.
ResponseEnds ==
  /\ phase \in {"open", "throttled", "refused"}
  /\ EndArrives
  /\ client' = IF phase = "open" THEN Normalized(client, Remaining) ELSE client
  /\ phase' = CASE phase = "open"      -> "completed"
                [] phase = "throttled" -> "limited"
                [] phase = "refused"   -> "failed"
  /\ buffer' = << >>
  /\ UNCHANGED <<transport, reply, said, connection, wire>>

\* streamToolCallRequests: calls without id and name are dropped.
Requests(state) ==
  LET named   == {i \in DOMAIN state.calls : state.calls[i].name # 0}
      Rank(i) == Cardinality({k \in named : k <= i})
  IN  [r \in 1 .. Cardinality(named) |->
         state.calls[CHOOSE i \in named : Rank(i) = r]]

-----------------------------------------------------------------------------
\* Deviations of the provider and of the network.
Trouble == BreakOff \/ Lose \/ RequestError

Next == Utter \/ Close \/ Trouble \/ Headers \/ Data \/ ResponseEnds

\* A provider that answers goes on until it has closed, and what it sent arrives, unless
\* there is trouble.
Fairness == /\ WF_vars(Utter \/ Close)
            /\ WF_vars(Headers)
            /\ WF_vars(Data)
            /\ WF_vars(ResponseEnds)

Spec == Init /\ [][Next]_vars /\ Fairness

-----------------------------------------------------------------------------
Upto(n) == [i \in 1 .. n |-> i]

\* normalizeTransportResult: what the same reply gives when it comes in one piece.
Whole == [text   |-> Upto(reply.text),
          calls  |-> [c \in DOMAIN reply.args |-> [name |-> c, args |-> Upto(reply.args[c])]],
          finish |-> TRUE,
          usage  |-> {"input", "output"}]

Streamed == [text   |-> client.text,
             calls  |-> [i \in DOMAIN Requests(client) |->
                           [name |-> Requests(client)[i].name, args |-> Requests(client)[i].args]],
             finish |-> client.finish,
             usage  |-> client.usage]

\* However the reply is cut into chunks and its fragments are interleaved, a stream that
\* was sent to its end gives the result the unstreamed chat gives; one that ended early
\* gives a part of it, in order and with no fragment twice.
StreamedMatchesWhole ==
  /\ phase = "completed" /\ connection = "closed" => Streamed = Whole
  /\ IsPrefix(Streamed.text, Whole.text)
  /\ Len(Streamed.calls) <= Len(Whole.calls)
  /\ \A c \in DOMAIN Streamed.calls :
       /\ Streamed.calls[c].name = c
       /\ IsPrefix(Streamed.calls[c].args, Whole.calls[c].args)
  /\ phase \in {"limited", "failed"} => client = Fresh

\* A streamed chat comes to an end, whatever the provider does in its reply, unless the
\* connection is lost after the headers: then the promise never settles.
StreamSettles == <>(phase \in Settled \/ connection = "lost")
=============================================================================
