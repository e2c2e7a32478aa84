-------------------------- MODULE ProviderStreamProofs --------------------------
(***************************************************************************)
(* Proofs about ProviderStream for replies and chunks of any size: what    *)
(* the stream state and the symbols that are still to be read hold between *)
(* them.                                                                   *)
(*                                                                         *)
(* The state of the client is a function of the words it has heard         *)
(* (Gathered), and the buffer and the wire are the records of the words it *)
(* has still to hear (Pending).  A chunk is read a symbol at a time, so    *)
(* that one lemma about one symbol covers every way of cutting the stream. *)
(***************************************************************************)
EXTENDS ProviderStream, SequenceTheorems, FiniteSetTheorems, WellFoundedInduction, TLAPS

Calls == DOMAIN reply.args

\* How much of a reply was said or heard.
Progress == [begin : BOOLEAN, text : Nat, calls : [Calls -> Nat], end : BOOLEAN]

Opening(s) == {c \in Calls : s.calls[c] > 0}

\* The progress a provider can have made.
Spoken(s) ==
  /\ s \in Progress
  /\ s.text <= reply.text
  /\ \A c \in Calls : s.calls[c] <= reply.args[c] + 2
  /\ \E k \in 0 .. Len(reply.args) : Opening(s) = 1 .. k
  /\ s.end => /\ s.begin
              /\ s.text = reply.text
              /\ \A c \in Calls : s.calls[c] > reply.args[c]

\* Word e takes the provider from progress s to t.
Says(e, s, t) ==
  \/ ~s.begin /\ e = Begin /\ t = [s EXCEPT !.begin = TRUE]
  \/ /\ s.begin /\ ~s.end
     /\ \/ s.text < reply.text /\ e = Text(s.text + 1) /\ t = [s EXCEPT !.text = @ + 1]
        \/ \E c \in Calls :
             \/ /\ s.calls[c] = 0 /\ \A d \in 1 .. c - 1 : s.calls[d] > 0
                /\ e = Open(c) /\ t = [s EXCEPT !.calls[c] = 1]
             \/ /\ s.calls[c] \in 1 .. reply.args[c]
                /\ e = Arguments(c, s.calls[c]) /\ t = [s EXCEPT !.calls[c] = @ + 1]
             \/ /\ s.calls[c] = reply.args[c] + 1
                /\ e = Done(c, reply.args[c]) /\ t = [s EXCEPT !.calls[c] = @ + 1]
        \/ /\ s.text = reply.text /\ \A c \in Calls : s.calls[c] > reply.args[c]
           /\ e = End /\ t = [s EXCEPT !.end = TRUE]

\* The fragments of the arguments of c that were said, repetitions aside.
Parts(s, c) == IF s.calls[c] > reply.args[c] THEN reply.args[c] ELSE s.calls[c] - 1

Usage(s) == IF transport = "anthropic_messages"
            THEN (IF s.begin THEN {"input"} ELSE {}) \cup (IF s.end THEN {"output"} ELSE {})
            ELSE IF s.end THEN {"input", "output"} ELSE {}

Call(c, n) == [key |-> Key(Open(c)), name |-> c, args |-> Upto(n)]

\* The stream state that has heard s.
Gathered(s) == [text   |-> Upto(s.text),
                calls  |-> [c \in Opening(s) |-> Call(c, Parts(s, c))],
                finish |-> s.end,
                usage  |-> Usage(s)]

Words == {Begin, End} \cup {Text(i) : i \in Nat} \cup {Open(c) : c \in Nat}
           \cup {Arguments(c, i) : c \in Nat, i \in Nat} \cup {Done(c, n) : c \in Nat, n \in Nat}

Symbols == [event : Words, mark : {"head", "tail", "blank"}]

\* The records of n words come to l symbols: to all of them while the link is open, and
\* perhaps all but the last blank line when it was closed.
Amount(l, n, link) == /\ l <= 3 * n
                      /\ link = "open" => l = 3 * n
                      /\ link = "closed" => l \in {3 * n - 1, 3 * n}

\* Through words a client that has heard h[0] comes to last.
Story(heard, n, words, h, last) ==
  /\ \A i \in 0 .. n : Spoken(h[i])
  /\ \A i \in 1 .. n : words[i] \in Words /\ Says(words[i], h[i - 1], h[i])
  /\ heard = Gathered(h[0])
  /\ h[n] = last

\* The place on the wire of the k-th symbol of word i, when q symbols are in the buffer.
Place(i, k, q) == 3 * (i - 1) + k - q

\* The symbols kept in the buffer and those that are coming are the records of words.
Sent(kept, coming, n, words, link) ==
  /\ kept \in Seq(Symbols) /\ Len(kept) <= 2
  /\ coming \in Seq(Symbols)
  /\ Amount(Len(kept) + Len(coming), n, link)
  /\ \A k \in 1 .. Len(kept) : kept[k] = Symbol(words[1], k)
  /\ \A i \in 1 .. n, k \in 1 .. 3 :
       Place(i, k, Len(kept)) \in 1 .. Len(coming) =>
         coming[Place(i, k, Len(kept))] = Symbol(words[i], k)

\* The client in state heard has still to hear the words whose symbols are in the buffer and
\* on the wire.
Pending(kept, heard, coming, last, link) ==
  \E n \in Nat : \E words, h : /\ Story(heard, n, words, h, last)
                               /\ Sent(kept, coming, n, words, link)

StageInv ==
  /\ phase \in {"waiting", "open", "throttled", "refused"} \cup Settled
  /\ connection \in {"open", "closed", "cut", "lost"}
  /\ phase = "waiting" => connection = "open"
  /\ phase \notin {"open", "completed"} => client = Fresh /\ wire = << >> /\ buffer = << >>
  /\ phase \in {"open", "completed"} /\ connection = "closed" => said.end

\* What a finished stream has heard: all there was, unless it was cut short.
HeardInv ==
  phase = "completed" =>
    \E s : /\ Spoken(s) /\ client = Gathered(s)
           /\ connection = "closed" => s = said

IInv == /\ transport \in Transports
        /\ reply \in Replies
        /\ Spoken(said)
        /\ StageInv
        /\ phase # "completed" => Pending(buffer, client, wire, said, connection)
        /\ HeardInv

-----------------------------------------------------------------------------
\* A reply has numbers of fragments.
LEMMA ReplyFacts ==
  ASSUME reply \in Replies
  PROVE  /\ reply.text \in Nat
         /\ Len(reply.args) \in Nat
         /\ Calls = 1 .. Len(reply.args)
         /\ \A c \in Calls : c \in Nat /\ c >= 1 /\ reply.args[c] \in Nat
<1>1. MaxText \in Nat /\ MaxCalls \in Nat /\ MaxArgs \in Nat
  BY StreamBounds
<1>2. PICK n \in 0 .. MaxCalls : reply.args \in [1 .. n -> 0 .. MaxArgs]
  BY DEF Replies
<1>3. reply.text \in 0 .. MaxText
  BY DEF Replies
<1>4. n \in Nat
  BY <1>1, <1>2
<1>5. reply.args \in Seq(0 .. MaxArgs)
  BY <1>2, <1>4, SeqDef
<1>6. Len(reply.args) \in Nat /\ DOMAIN reply.args = 1 .. Len(reply.args)
  BY <1>5, LenProperties
<1>7. \A c \in 1 .. n : reply.args[c] \in Nat
  BY <1>1, <1>2
<1>8. DOMAIN reply.args = 1 .. n
  BY <1>2
<1> QED
  BY <1>1, <1>3, <1>4, <1>6, <1>7, <1>8 DEF Calls

\* The kinds of words are different, and calls have keys of their own.
LEMMA WordFacts ==
  ASSUME NEW c \in Nat, NEW d \in Nat, NEW i
  PROVE  /\ Begin.kind = "begin" /\ End.kind = "end" /\ Null.kind = "null"
         /\ Text(i).kind = "text" /\ Text(i).part = i
         /\ Open(c).kind = "open" /\ Open(c).call = c
         /\ Arguments(c, i).kind = "arguments" /\ Arguments(c, i).call = c
         /\ Arguments(c, i).part = i
         /\ Done(c, i).kind = "done" /\ Done(c, i).call = c /\ Done(c, i).parts = i
  BY DEF Begin, End, Null, Text, Open, Arguments, Done

LEMMA KeyFacts ==
  ASSUME NEW c \in Nat, NEW d \in Nat, NEW e, e.call = d
  PROVE  /\ Key(e) = Key(Open(d))
         /\ Key(Open(c)) = Key(e) <=> c = d
<1>1. Open(c).call = c /\ Open(d).call = d
  BY DEF Open
<1>2. Key(e) = Key(Open(d))
  BY <1>1 DEF Key
<1>3. Key(Open(c)) = Key(Open(d)) => c = d
  <2>1. <<"item", c>> # <<"index", d>> /\ <<"index", c>> # <<"item", d>>
    OBVIOUS
  <2>2. <<"index", c>> = <<"index", d>> => c = d
    OBVIOUS
  <2> QED
    BY <1>1, <2>1, <2>2 DEF Key
<1> QED
  BY <1>2, <1>3

\* One more fragment.
LEMMA UptoFacts ==
  ASSUME NEW n \in Nat
  PROVE  /\ Upto(n) \in Seq(Nat)
         /\ Len(Upto(n)) = n
         /\ Append(Upto(n), n + 1) = Upto(n + 1)
<1>1. /\ Upto(n) \in Seq(Nat) /\ Upto(n + 1) \in Seq(Nat)
      /\ Len(Upto(n)) = n /\ Len(Upto(n + 1)) = n + 1
  BY DEF Upto
<1>2. /\ Append(Upto(n), n + 1) \in Seq(Nat)
      /\ Len(Append(Upto(n), n + 1)) = n + 1
      /\ \A i \in 1 .. n : Append(Upto(n), n + 1)[i] = Upto(n)[i]
      /\ Append(Upto(n), n + 1)[n + 1] = n + 1
  BY <1>1, AppendProperties
<1>3. \A i \in 1 .. n + 1 : Append(Upto(n), n + 1)[i] = Upto(n + 1)[i]
  BY <1>2 DEF Upto
<1> QED
  BY <1>1, <1>2, <1>3, SeqEqual


LEMMA UptoBefore ==
  ASSUME NEW n \in Nat, n > 0
  PROVE  Append(Upto(n - 1), n) = Upto(n)
<1> DEFINE m == n - 1
<1>1. m \in Nat /\ n = m + 1
  OBVIOUS
<1> HIDE DEF m
<1>2. Append(Upto(m), n) = Upto(n)
  BY <1>1, UptoFacts
<1> QED
  BY <1>2 DEF m

\* An interval grows by its next number only.
LEMMA OneMore ==
  ASSUME NEW k \in Nat, NEW j \in Nat, NEW c \in Nat, c >= 1, c \notin 1 .. k,
         1 .. j = (1 .. k) \cup {c}
  PROVE  c = k + 1 /\ j = k + 1
<1>1. c > k /\ c \in 1 .. j
  OBVIOUS
<1>2. c <= j /\ j \in 1 .. j
  BY <1>1
<1>3. j = c
  <2>1. j \in (1 .. k) \cup {c}
    BY <1>2
  <2> QED
    BY <1>1, <1>2, <2>1
<1>4. k + 1 \in 1 .. j
  BY <1>1, <1>3
<1>5. k + 1 \in (1 .. k) \cup {c}
  BY <1>4
<1> QED
  BY <1>3, <1>5

\* What is gathered of the calls is a sequence, the calls in their order.
LEMMA GatheredCalls ==
  ASSUME reply \in Replies, NEW s, Spoken(s)
  PROVE  \E k \in 0 .. Len(reply.args) :
           /\ Opening(s) = 1 .. k
           /\ k \in Nat
           /\ Gathered(s).calls = [c \in 1 .. k |-> Call(c, Parts(s, c))]
           /\ \A c \in 1 .. k : c \in Calls /\ c \in Nat /\ Parts(s, c) \in 0 .. reply.args[c]
<1>1. /\ Len(reply.args) \in Nat
      /\ Calls = 1 .. Len(reply.args)
      /\ \A c \in Calls : c \in Nat /\ c >= 1 /\ reply.args[c] \in Nat
  BY ReplyFacts
<1>2. PICK k \in 0 .. Len(reply.args) : Opening(s) = 1 .. k
  BY DEF Spoken
<1>3. k \in Nat /\ \A c \in 1 .. k : c \in Calls /\ c \in Nat
  BY <1>1
<1>4. s.calls \in [Calls -> Nat]
  BY DEF Spoken, Progress
<1>5. \A c \in Opening(s) : s.calls[c] \in Nat /\ s.calls[c] > 0
  BY <1>4 DEF Opening
<1>6. \A c \in 1 .. k : Parts(s, c) \in 0 .. reply.args[c]
  BY <1>1, <1>2, <1>3, <1>5 DEF Parts
<1>7. Gathered(s).calls = [c \in 1 .. k |-> Call(c, Parts(s, c))]
  BY <1>2 DEF Gathered
<1> QED
  BY <1>2, <1>3, <1>6, <1>7

\* A word that is of no call leaves what is gathered of the calls.
LEMMA SameCalls ==
  ASSUME NEW s, NEW t, t.calls = s.calls
  PROVE  Gathered(t).calls = Gathered(s).calls
<1>1. Opening(t) = Opening(s)
  BY DEF Opening
<1>2. \A c : Parts(t, c) = Parts(s, c)
  BY DEF Parts
<1> QED
  BY <1>1, <1>2 DEF Gathered

LEMMA SameRest ==
  ASSUME NEW s, NEW t, t.calls = s.calls, t.end = s.end
  PROVE  /\ t.text = s.text => Gathered(t) = [Gathered(s) EXCEPT !.usage = Usage(t)]
         /\ Usage(t) = Usage(s) => Gathered(t) = [Gathered(s) EXCEPT !.text = Upto(t.text)]
<1>1. Gathered(t).calls = Gathered(s).calls
  BY SameCalls
<1>2. ASSUME NEW r
      PROVE  LET g == Gathered(r)
             IN  g = [text |-> Upto(r.text), calls |-> g.calls, finish |-> r.end, usage |-> Usage(r)]
  BY DEF Gathered
<1>3. Gathered(t) = [text |-> Upto(t.text), calls |-> Gathered(s).calls, finish |-> s.end,
                     usage |-> Usage(t)]
  BY <1>1, <1>2
<1>4. Gathered(s) = [text |-> Upto(s.text), calls |-> Gathered(s).calls, finish |-> s.end,
                     usage |-> Usage(s)]
  BY <1>2
<1> QED
  BY <1>3, <1>4

\* A word of a call leaves the rest.
LEMMA ToolWord ==
  ASSUME NEW state, NEW e, e.kind \in {"open", "arguments", "done"}
  PROVE  Normalized(state, e) =
           [state EXCEPT !.calls = [i \in DOMAIN Tracked(state.calls, Key(e)) |->
              IF Tracked(state.calls, Key(e))[i].key = Key(e)
              THEN Applied(Tracked(state.calls, Key(e))[i], e)
              ELSE Tracked(state.calls, Key(e))[i]]]
  BY DEF Normalized

LEMMA CallFields ==
  ASSUME NEW c, NEW n
  PROVE  /\ Call(c, n).key = Key(Open(c))
         /\ Call(c, n).name = c
         /\ Call(c, n).args = Upto(n)
  BY DEF Call

\* The entries of calls 1, ... k with P[1], ... P[k] fragments.
Entries(k, P) == [d \in 1 .. k |-> Call(d, P[d])]

\* With e, P becomes Q.
Fills(e, k, P, Q) == /\ e.kind \in {"open", "arguments", "done"}
                     /\ e.call \in 1 .. k
                     /\ \A d \in 1 .. k : d # e.call => Q[d] = P[d]
                     /\ Applied(Call(e.call, P[e.call]), e) = Call(e.call, Q[e.call])

\* A word of a call that is there already changes the entry of that call alone.
LEMMA KnownCall ==
  ASSUME NEW state, NEW k \in Nat, NEW P, NEW Q, NEW e,
         state.calls = Entries(k, P), Fills(e, k, P, Q)
  PROVE  Normalized(state, e) = [state EXCEPT !.calls = Entries(k, Q)]
<1> USE DEF Fills
<1>1. \A d \in 1 .. k : d \in Nat /\ (Call(d, P[d]).key = Key(e) <=> d = e.call)
  BY KeyFacts, CallFields
<1>2. DOMAIN state.calls = 1 .. k /\ \A d \in 1 .. k : state.calls[d] = Call(d, P[d])
  BY DEF Entries
<1>3. Tracked(state.calls, Key(e)) = state.calls
  BY <1>1, <1>2 DEF Tracked
<1>4. ASSUME NEW d \in 1 .. k
      PROVE  (IF state.calls[d].key = Key(e) THEN Applied(state.calls[d], e)
              ELSE state.calls[d]) = Call(d, Q[d])
  BY <1>1, <1>2
<1>5. [i \in 1 .. k |-> IF state.calls[i].key = Key(e) THEN Applied(state.calls[i], e)
                        ELSE state.calls[i]]
      = Entries(k, Q)
  BY <1>4 DEF Entries
<1> QED
  BY <1>2, <1>3, <1>5, ToolWord

\* A new call comes after those that are there.
LEMMA NewCall ==
  ASSUME NEW state, NEW k \in Nat, NEW P, NEW Q, NEW e, e = Open(k + 1),
         state.calls = Entries(k, P),
         \A d \in 1 .. k : Q[d] = P[d],
         Q[k + 1] = 0
  PROVE  Normalized(state, e) = [state EXCEPT !.calls = Entries(k + 1, Q)]
<1> DEFINE old   == state.calls
           blank == [key |-> Key(e), name |-> 0, args |-> << >>]
           S     == {Call(d, P[d]) : d \in 1 .. k} \cup {blank}
           new   == Append(old, blank)
<1>1. k + 1 \in Nat /\ e.kind = "open" /\ e.call = k + 1
  BY WordFacts
<1>2. /\ old \in Seq(S) /\ Len(old) = k /\ blank \in S
      /\ \A d \in 1 .. k : old[d] = Call(d, P[d])
  <2>1. old \in [1 .. k -> S] /\ \A d \in 1 .. k : old[d] = Call(d, P[d])
    BY DEF Entries
  <2>2. blank \in S
    OBVIOUS
  <2> HIDE DEF old, S, blank
  <2>3. old \in Seq(S)
    BY <2>1, SeqDef
  <2>4. Len(old) = k
    BY <2>1, <2>3, LenProperties
  <2> QED
    BY <2>1, <2>2, <2>3, <2>4
<1>3. /\ DOMAIN new = 1 .. k + 1
      /\ \A d \in 1 .. k : new[d] = old[d]
      /\ new[k + 1] = blank
  <2> HIDE DEF old, blank, S
  <2> QED
    BY <1>2, AppendProperties, LenProperties
<1>4. \A d \in 1 .. k : d \in Nat /\ d # k + 1 /\ Call(d, P[d]).key # Key(e)
  BY <1>1, KeyFacts, CallFields
<1>5. Tracked(old, Key(e)) = new
  <2>1. ~ \E i \in DOMAIN old : old[i].key = Key(e)
    BY <1>2, <1>4
  <2> QED
    BY <2>1 DEF Tracked
<1>6. Applied(blank, e) = Call(k + 1, 0)
  <2>1. Key(e) = Key(Open(k + 1))
    OBVIOUS
  <2>2. Upto(0) = << >>
    BY DEF Upto
  <2> QED
    BY <1>1, <2>1, <2>2 DEF Applied, Call
<1>7. ASSUME NEW d \in 1 .. k + 1
      PROVE  (IF new[d].key = Key(e) THEN Applied(new[d], e) ELSE new[d])
             = Call(d, Q[d])
  <2> HIDE DEF old, new, blank
  <2>1. CASE d = k + 1
    <3>1. blank.key = Key(e)
      BY DEF blank
    <3> QED
      BY <2>1, <1>3, <1>6, <3>1
  <2>2. CASE d \in 1 .. k
    BY <2>2, <1>2, <1>3, <1>4
  <2> QED
    BY <2>1, <2>2
<1>8. [i \in 1 .. k + 1 |-> IF new[i].key = Key(e) THEN Applied(new[i], e) ELSE new[i]]
      = Entries(k + 1, Q)
  BY <1>7 DEF Entries
<1> HIDE DEF new
<1> QED
  BY <1>1, <1>3, <1>5, <1>8, ToolWord

\* What one word does: the client that heard s and hears e has heard t.
HeardNext(s, e, t) == e \in Words /\ Spoken(t) /\ Normalized(Gathered(s), e) = Gathered(t)

LEMMA HeardBegin ==
  ASSUME reply \in Replies, NEW s, Spoken(s), ~s.begin
  PROVE  HeardNext(s, Begin, [s EXCEPT !.begin = TRUE])
<1> DEFINE t == [s EXCEPT !.begin = TRUE]
<1>1. /\ s \in Progress /\ ~s.end
      /\ t \in Progress /\ t.begin /\ t.end = s.end /\ t.calls = s.calls /\ t.text = s.text
  BY DEF Spoken, Progress
<1>2. Opening(t) = Opening(s)
  BY <1>1 DEF Opening
<1>3. Spoken(t)
  BY <1>1, <1>2 DEF Spoken
<1>4. Gathered(t).calls = Gathered(s).calls
  BY <1>1, SameCalls
<1>5. Begin.kind = "begin"
  BY DEF Begin
<1>6. Usage(t) = IF transport = "anthropic_messages" THEN Usage(s) \cup {"input"} ELSE Usage(s)
  BY <1>1 DEF Usage
<1>7. Normalized(Gathered(s), Begin) = IF transport = "anthropic_messages"
                                       THEN [Gathered(s) EXCEPT !.usage = @ \cup {"input"}]
                                       ELSE Gathered(s)
  BY <1>5 DEF Normalized
<1>8. Normalized(Gathered(s), Begin) = Gathered(t)
  <2>1. Gathered(t) = [Gathered(s) EXCEPT !.usage = Usage(t)]
    BY <1>1, SameRest
  <2>2. Gathered(s).usage = Usage(s) /\ [Gathered(s) EXCEPT !.usage = Usage(s)] = Gathered(s)
    BY DEF Gathered
  <2> QED
    BY <2>1, <2>2, <1>6, <1>7
<1> QED
  BY <1>3, <1>8 DEF HeardNext, Words

LEMMA HeardEnd ==
  ASSUME reply \in Replies, NEW s, Spoken(s), s.begin, ~s.end,
         s.text = reply.text, \A c \in Calls : s.calls[c] > reply.args[c]
  PROVE  HeardNext(s, End, [s EXCEPT !.end = TRUE])
<1> DEFINE t == [s EXCEPT !.end = TRUE]
<1>1. /\ s \in Progress
      /\ t \in Progress /\ t.begin /\ t.end /\ t.calls = s.calls /\ t.text = s.text
  BY DEF Spoken, Progress
<1>2. Opening(t) = Opening(s)
  BY <1>1 DEF Opening
<1>3. Spoken(t)
  BY <1>1, <1>2 DEF Spoken
<1>4. Gathered(t).calls = Gathered(s).calls
  BY <1>1, SameCalls
<1>5. End.kind = "end"
  BY DEF End
<1>6. Usage(t) = Usage(s) \cup IF transport = "anthropic_messages"
                               THEN {"output"} ELSE {"input", "output"}
  BY <1>1 DEF Usage
<1>7. Normalized(Gathered(s), End) =
        [Gathered(s) EXCEPT !.finish = TRUE,
                            !.usage = @ \cup IF transport = "anthropic_messages"
                                             THEN {"output"} ELSE {"input", "output"}]
  BY <1>5 DEF Normalized
<1>8. Normalized(Gathered(s), End) = Gathered(t)
  BY <1>1, <1>4, <1>6, <1>7 DEF Gathered
<1> QED
  BY <1>3, <1>8 DEF HeardNext, Words

LEMMA HeardText ==
  ASSUME reply \in Replies, NEW s, Spoken(s), s.begin, ~s.end, s.text < reply.text
  PROVE  HeardNext(s, Text(s.text + 1), [s EXCEPT !.text = @ + 1])
<1> DEFINE t == [s EXCEPT !.text = @ + 1]
           e == Text(s.text + 1)
<1>1. /\ s \in Progress /\ s.text \in Nat /\ reply.text \in Nat
      /\ t.begin /\ t.end = s.end /\ t.calls = s.calls /\ t.text = s.text + 1
      /\ t \in Progress /\ t.text <= reply.text
  BY ReplyFacts DEF Spoken, Progress
<1>2. Opening(t) = Opening(s)
  BY <1>1 DEF Opening
<1>3. Spoken(t)
  BY <1>1, <1>2 DEF Spoken
<1>4. Gathered(t).calls = Gathered(s).calls
  BY <1>1, SameCalls
<1>5. e.kind = "text" /\ e.part = s.text + 1 /\ e \in Words
  BY <1>1 DEF Text, Words
<1>6. Usage(t) = Usage(s)
  BY <1>1 DEF Usage
<1>7. Normalized(Gathered(s), e) = [Gathered(s) EXCEPT !.text = Append(@, e.part)]
  BY <1>5 DEF Normalized
<1>8. Append(Upto(s.text), s.text + 1) = Upto(t.text)
  BY <1>1, UptoFacts
<1> HIDE DEF e
<1>9. Normalized(Gathered(s), e) = Gathered(t)
  <2>1. Gathered(t) = [Gathered(s) EXCEPT !.text = Upto(t.text)]
    BY <1>1, <1>6, SameRest
  <2>2. Gathered(s).text = Upto(s.text)
    BY DEF Gathered
  <2>3. Normalized(Gathered(s), e) = [Gathered(s) EXCEPT !.text = Append(Upto(s.text), s.text + 1)]
    BY <2>2, <1>5, <1>7
  <2> QED
    BY <2>1, <2>3, <1>8
<1> QED
  BY <1>3, <1>5, <1>9 DEF HeardNext, e

\* The words of a call.
LEMMA CallProgress ==
  ASSUME reply \in Replies, NEW s, Spoken(s), s.begin, ~s.end,
         NEW c \in Calls, NEW n \in Nat, n > 0, n <= reply.args[c] + 2,
         NEW t, t = [s EXCEPT !.calls[c] = n],
         s.calls[c] = 0 => \A d \in 1 .. c - 1 : s.calls[d] > 0
  PROVE  /\ Spoken(t)
         /\ Opening(t) = Opening(s) \cup {c}
         /\ \A d \in Calls : d # c => Parts(t, d) = Parts(s, d)
         /\ Parts(t, c) = IF n > reply.args[c] THEN reply.args[c] ELSE n - 1
         /\ t.text = s.text /\ t.end = s.end /\ Usage(t) = Usage(s)
<1>1. /\ Len(reply.args) \in Nat /\ Calls = 1 .. Len(reply.args)
      /\ \A d \in Calls : d \in Nat /\ d >= 1 /\ reply.args[d] \in Nat
  BY ReplyFacts
<1>2. s \in Progress /\ s.calls \in [Calls -> Nat]
  BY DEF Spoken, Progress
<1>3. /\ t \in Progress
      /\ t.text = s.text /\ t.end = s.end /\ t.begin = s.begin
      /\ t.calls = [s.calls EXCEPT ![c] = n]
  BY <1>2 DEF Progress
<1>4. /\ t.calls[c] = n
      /\ \A d \in Calls : d # c => t.calls[d] = s.calls[d]
  BY <1>2, <1>3
<1>5. Opening(t) = Opening(s) \cup {c}
  BY <1>2, <1>4 DEF Opening
<1>6. \E k \in 0 .. Len(reply.args) : Opening(t) = 1 .. k
  <2>1. PICK k \in 0 .. Len(reply.args) : Opening(s) = 1 .. k
    BY DEF Spoken
  <2>2. CASE s.calls[c] > 0
    <3>1. c \in 1 .. k
      BY <2>1, <2>2 DEF Opening
    <3> QED
      BY <2>1, <3>1, <1>5
  <2>3. CASE ~ s.calls[c] > 0
    <3>1. s.calls[c] = 0
      BY <2>3, <1>2
    <3>2. \A d \in 1 .. c - 1 : d \in Calls /\ d \in Opening(s)
      BY <3>1, <1>1 DEF Opening
    <3>3. c \notin 1 .. k
      BY <3>1, <2>1, <1>1 DEF Opening
    <3>4. c = k + 1
      <4>1. c \in Nat /\ c >= 1 /\ c <= Len(reply.args) /\ k \in Nat
        BY <1>1
      <4>2. c - 1 <= k
        <5>1. CASE c = 1
          BY <5>1, <4>1
        <5>2. CASE c > 1
          <6>1. c - 1 \in 1 .. c - 1
            BY <5>2, <4>1
          <6>2. c - 1 \in 1 .. k
            BY <6>1, <3>2, <2>1
          <6> QED
            BY <6>2, <4>1
        <5> QED
          BY <5>1, <5>2, <4>1
      <4> QED
        BY <4>1, <4>2, <3>3
    <3>5. k + 1 \in 0 .. Len(reply.args) /\ 1 .. k + 1 = (1 .. k) \cup {k + 1}
      BY <3>4, <1>1
    <3> QED
      BY <2>1, <3>4, <3>5, <1>5
  <2> QED
    BY <2>2, <2>3
<1>7. \A d \in Calls : t.calls[d] <= reply.args[d] + 2
  BY <1>4 DEF Spoken
<1>8. Spoken(t)
  BY <1>3, <1>6, <1>7 DEF Spoken
<1>9. /\ \A d \in Calls : d # c => Parts(t, d) = Parts(s, d)
      /\ Parts(t, c) = IF n > reply.args[c] THEN reply.args[c] ELSE n - 1
  BY <1>4 DEF Parts
<1>10. Usage(t) = Usage(s)
  BY <1>3 DEF Usage
<1> QED
  BY <1>3, <1>5, <1>8, <1>9, <1>10

LEMMA CallsOnly ==
  ASSUME NEW s, NEW t, t.text = s.text, t.end = s.end, Usage(t) = Usage(s)
  PROVE  Gathered(t) = [Gathered(s) EXCEPT !.calls = Gathered(t).calls]
<1>1. ASSUME NEW r
      PROVE  LET g == Gathered(r)
             IN  g = [text |-> Upto(r.text), calls |-> g.calls, finish |-> r.end, usage |-> Usage(r)]
  BY DEF Gathered
<1>2. Gathered(t) = [text |-> Upto(s.text), calls |-> Gathered(t).calls, finish |-> s.end,
                     usage |-> Usage(s)]
  BY <1>1
<1>3. Gathered(s) = [text |-> Upto(s.text), calls |-> Gathered(s).calls, finish |-> s.end,
                     usage |-> Usage(s)]
  BY <1>1
<1> QED
  BY <1>2, <1>3

\* A fragment of a call that is open, or all of its arguments again.
LEMMA HeardMore ==
  ASSUME reply \in Replies, NEW s, Spoken(s), s.begin, ~s.end,
         NEW c \in Calls, s.calls[c] > 0, NEW n \in Nat, n > 0, n <= reply.args[c] + 2,
         NEW t, t = [s EXCEPT !.calls[c] = n],
         NEW e \in Words, e.kind \in {"arguments", "done"}, e.call = c,
         Applied(Call(c, Parts(s, c)), e) = Call(c, Parts(t, c))
  PROVE  HeardNext(s, e, t)
<1>1. s.calls \in [Calls -> Nat]
  BY DEF Spoken, Progress
<1>2. s.calls[c] # 0
  BY <1>1
<1>3. /\ Spoken(t)
      /\ Opening(t) = Opening(s) \cup {c}
      /\ \A d \in Calls : d # c => Parts(t, d) = Parts(s, d)
      /\ t.text = s.text /\ t.end = s.end /\ Usage(t) = Usage(s)
  BY <1>2, CallProgress
<1>4. c \in Opening(s)
  BY DEF Opening
<1>5. Opening(t) = Opening(s)
  BY <1>3, <1>4
<1>6. PICK k \in 0 .. Len(reply.args) :
        /\ Opening(s) = 1 .. k /\ k \in Nat
        /\ Gathered(s).calls = [d \in 1 .. k |-> Call(d, Parts(s, d))]
        /\ \A d \in 1 .. k : d \in Calls
  BY GatheredCalls
<1> DEFINE P == [d \in 1 .. k |-> Parts(s, d)]
           Q == [d \in 1 .. k |-> Parts(t, d)]
<1>7. /\ Gathered(s).calls = Entries(k, P)
      /\ c \in 1 .. k /\ P[c] = Parts(s, c) /\ Q[c] = Parts(t, c)
      /\ \A d \in 1 .. k : d # c => Q[d] = P[d]
  BY <1>3, <1>4, <1>6 DEF Entries
<1>8. Gathered(t).calls = Entries(k, Q)
  BY <1>5, <1>6 DEF Gathered, Entries
<1> HIDE DEF P, Q
<1>9. Applied(Call(c, P[c]), e) = Call(c, Q[c])
  BY <1>7
<1>10. Normalized(Gathered(s), e) = [Gathered(s) EXCEPT !.calls = Entries(k, Q)]
  <2>1. Fills(e, k, P, Q)
    BY <1>7, <1>9 DEF Fills
  <2> QED
    BY <2>1, <1>6, <1>7, KnownCall
<1>11. Gathered(t) = [Gathered(s) EXCEPT !.calls = Gathered(t).calls]
  BY <1>3, CallsOnly
<1> QED
  BY <1>3, <1>8, <1>10, <1>11 DEF HeardNext

LEMMA HeardArguments ==
  ASSUME reply \in Replies, NEW s, Spoken(s), s.begin, ~s.end,
         NEW c \in Calls, s.calls[c] \in 1 .. reply.args[c]
  PROVE  HeardNext(s, Arguments(c, s.calls[c]), [s EXCEPT !.calls[c] = @ + 1])
<1> DEFINE t == [s EXCEPT !.calls[c] = @ + 1]
           m == s.calls[c]
           e == Arguments(c, m)
<1>1. /\ Len(reply.args) \in Nat /\ c \in Nat /\ reply.args[c] \in Nat
      /\ s \in Progress /\ s.calls \in [Calls -> Nat] /\ m \in Nat /\ m > 0 /\ m <= reply.args[c]
  BY ReplyFacts DEF Spoken, Progress
<1>2. t = [s EXCEPT !.calls[c] = m + 1]
  OBVIOUS
<1>3. e.kind = "arguments" /\ e.call = c /\ e.part = m /\ e \in Words
  BY <1>1 DEF Arguments, Words
<1>4. m + 1 \in Nat /\ m + 1 > 0 /\ m + 1 <= reply.args[c] + 2 /\ m # 0 /\ m - 1 \in Nat
  BY <1>1
<1>5. Parts(s, c) = m - 1
  BY <1>1 DEF Parts
<1>6. Parts(t, c) = m
  <2>1. Parts(t, c) = IF m + 1 > reply.args[c] THEN reply.args[c] ELSE (m + 1) - 1
    BY <1>2, <1>4, CallProgress
  <2>2. (m + 1) - 1 = m /\ (m + 1 > reply.args[c] => reply.args[c] = m)
    <3> HIDE DEF m
    <3> QED
      BY <1>1
  <2> HIDE DEF t, m
  <2> QED
    BY <2>1, <2>2
<1>7. Applied(Call(c, m - 1), e) = Call(c, m)
  <2>1. Append(Upto(m - 1), m) = Upto(m)
    BY <1>1, UptoBefore
  <2>2. Applied(Call(c, m - 1), e) = [Call(c, m - 1) EXCEPT !.args = Append(@, m)]
    BY <1>3 DEF Applied
  <2> QED
    BY <2>1, <2>2 DEF Call
<1> HIDE DEF e, t, m
<1>8. HeardNext(s, e, t)
  BY <1>1, <1>2, <1>3, <1>4, <1>5, <1>6, <1>7, HeardMore DEF m
<1> QED
  BY <1>8 DEF e, t, m

LEMMA HeardDone ==
  ASSUME reply \in Replies, NEW s, Spoken(s), s.begin, ~s.end,
         NEW c \in Calls, s.calls[c] = reply.args[c] + 1
  PROVE  HeardNext(s, Done(c, reply.args[c]), [s EXCEPT !.calls[c] = @ + 1])
<1> DEFINE t == [s EXCEPT !.calls[c] = @ + 1]
           m == reply.args[c]
           e == Done(c, m)
<1>1. c \in Nat /\ m \in Nat
  BY ReplyFacts
<1>2. t = [s EXCEPT !.calls[c] = m + 2]
  BY <1>1
<1>3. e.kind = "done" /\ e.call = c /\ e.parts = m /\ e \in Words
  BY <1>1 DEF Done, Words
<1>4. s.calls[c] > 0 /\ s.calls[c] # 0 /\ m + 2 \in Nat /\ m + 2 > 0 /\ m + 2 <= m + 2
  BY <1>1
<1>5. Parts(s, c) = m
  BY <1>1 DEF Parts
<1>6. Parts(t, c) = m
  <2>1. Parts(t, c) = IF m + 2 > m THEN m ELSE (m + 2) - 1
    BY <1>2, <1>4, CallProgress
  <2> QED
    BY <2>1, <1>1
<1>7. Applied(Call(c, m), e) = Call(c, m)
  <2>1. Applied(Call(c, m), e) = [Call(c, m) EXCEPT !.name = c, !.args = Upto(m)]
    BY <1>3 DEF Applied, Upto
  <2> QED
    BY <2>1 DEF Call
<1> HIDE DEF e, t
<1>8. HeardNext(s, e, t)
  BY <1>1, <1>2, <1>3, <1>4, <1>5, <1>6, <1>7, HeardMore
<1> QED
  BY <1>8 DEF e, t

LEMMA HeardOpen ==
  ASSUME reply \in Replies, NEW s, Spoken(s), s.begin, ~s.end,
         NEW c \in Calls, s.calls[c] = 0, \A d \in 1 .. c - 1 : s.calls[d] > 0
  PROVE  HeardNext(s, Open(c), [s EXCEPT !.calls[c] = 1])
<1> DEFINE t == [s EXCEPT !.calls[c] = 1]
           e == Open(c)
<1>1. /\ Len(reply.args) \in Nat /\ Calls = 1 .. Len(reply.args)
      /\ c \in Nat /\ reply.args[c] \in Nat
  BY ReplyFacts
<1>2. 1 \in Nat /\ 1 > 0 /\ 1 <= reply.args[c] + 2
  BY <1>1
<1>3. /\ Spoken(t)
      /\ Opening(t) = Opening(s) \cup {c}
      /\ \A d \in Calls : d # c => Parts(t, d) = Parts(s, d)
      /\ Parts(t, c) = IF 1 > reply.args[c] THEN reply.args[c] ELSE 1 - 1
      /\ t.text = s.text /\ t.end = s.end /\ Usage(t) = Usage(s)
  BY <1>2, CallProgress
<1>4. Parts(t, c) = 0
  BY <1>1, <1>3
<1>5. PICK k \in 0 .. Len(reply.args) :
        /\ Opening(s) = 1 .. k /\ k \in Nat
        /\ Gathered(s).calls = [d \in 1 .. k |-> Call(d, Parts(s, d))]
        /\ \A d \in 1 .. k : d \in Calls /\ d \in Nat
  BY GatheredCalls
<1>6. PICK j \in 0 .. Len(reply.args) : Opening(t) = 1 .. j
  BY <1>3 DEF Spoken
<1>7. c = k + 1 /\ j = k + 1
  <2>1. c \notin Opening(s)
    BY DEF Opening
  <2>2. 1 .. j = (1 .. k) \cup {c}
    BY <1>3, <1>5, <1>6
  <2>3. c \notin 1 .. k
    BY <2>1, <1>5
  <2>4. j \in Nat /\ c >= 1
    BY <1>1, <1>6
  <2> QED
    BY <2>2, <2>3, <2>4, <1>1, <1>5, OneMore
<1> DEFINE P == [d \in 1 .. k |-> Parts(s, d)]
           Q == [d \in 1 .. k + 1 |-> Parts(t, d)]
<1>8. \A d \in 1 .. k : d \in 1 .. k + 1 /\ d # c
  BY <1>5, <1>7
<1>9. /\ Gathered(s).calls = Entries(k, P)
      /\ Q[k + 1] = 0
      /\ \A d \in 1 .. k : Q[d] = P[d]
  <2>1. Gathered(s).calls = Entries(k, P)
    BY <1>5 DEF Entries
  <2>2. Q[k + 1] = 0
    <3>1. k + 1 \in 1 .. k + 1
      BY <1>5
    <3> QED
      BY <3>1, <1>4, <1>7
  <2>3. ASSUME NEW d \in 1 .. k
        PROVE  Q[d] = P[d]
    <3> HIDE DEF t
    <3>1. d \in Calls /\ d # c /\ d \in 1 .. k + 1
      BY <1>5, <1>8
    <3> QED
      BY <3>1, <1>3
  <2> QED
    BY <2>1, <2>2, <2>3
<1>10. Gathered(t).calls = Entries(k + 1, Q)
  BY <1>6, <1>7 DEF Gathered, Entries
<1> HIDE DEF P, Q, t
<1>11. Normalized(Gathered(s), e) = [Gathered(s) EXCEPT !.calls = Entries(k + 1, Q)]
  BY <1>5, <1>7, <1>9, NewCall
<1>12. Gathered(t) = [Gathered(s) EXCEPT !.calls = Gathered(t).calls]
  BY <1>3, CallsOnly
<1>13. e \in Words
  BY <1>1 DEF Words
<1> QED
  BY <1>3, <1>10, <1>11, <1>12, <1>13 DEF HeardNext, t

\* The client that heard s and hears the next word has heard what was said with it.
LEMMA HeardWord ==
  ASSUME reply \in Replies, NEW s, Spoken(s), NEW e, NEW t, Says(e, s, t)
  PROVE  e \in Words /\ Spoken(t) /\ Normalized(Gathered(s), e) = Gathered(t)
<1>1. CASE ~s.begin
  BY <1>1, HeardBegin DEF Says, HeardNext
<1>2. CASE s.begin /\ ~s.end /\ s.text < reply.text /\ e = Text(s.text + 1)
             /\ t = [s EXCEPT !.text = @ + 1]
  BY <1>2, HeardText DEF HeardNext
<1>3. CASE \E c \in Calls :
             /\ s.begin /\ ~s.end
             /\ s.calls[c] = 0 /\ \A d \in 1 .. c - 1 : s.calls[d] > 0
             /\ e = Open(c) /\ t = [s EXCEPT !.calls[c] = 1]
  BY <1>3, HeardOpen DEF HeardNext
<1>4. CASE \E c \in Calls :
             /\ s.begin /\ ~s.end
             /\ s.calls[c] \in 1 .. reply.args[c]
             /\ e = Arguments(c, s.calls[c]) /\ t = [s EXCEPT !.calls[c] = @ + 1]
  BY <1>4, HeardArguments DEF HeardNext
<1>5. CASE \E c \in Calls :
             /\ s.begin /\ ~s.end
             /\ s.calls[c] = reply.args[c] + 1
             /\ e = Done(c, reply.args[c]) /\ t = [s EXCEPT !.calls[c] = @ + 1]
  BY <1>5, HeardDone DEF HeardNext
<1>6. CASE /\ s.begin /\ ~s.end
           /\ s.text = reply.text /\ \A c \in Calls : s.calls[c] > reply.args[c]
           /\ e = End /\ t = [s EXCEPT !.end = TRUE]
  BY <1>6, HeardEnd DEF HeardNext
<1> QED
  BY <1>1, <1>2, <1>3, <1>4, <1>5, <1>6 DEF Says

\* The three symbols of a record are told apart by their marks.
LEMMA SymbolFacts ==
  ASSUME NEW e \in Words
  PROVE  /\ Symbol(e, 1) = [event |-> e, mark |-> "head"]
         /\ Symbol(e, 2) = [event |-> e, mark |-> "tail"]
         /\ Symbol(e, 3) = [event |-> e, mark |-> "blank"]
         /\ \A k \in 1 .. 3 : Symbol(e, k) \in Symbols /\ (Symbol(e, k).mark = "blank" <=> k = 3)
<1>1. /\ Symbol(e, 1) = [event |-> e, mark |-> "head"]
      /\ Symbol(e, 2) = [event |-> e, mark |-> "tail"]
      /\ Symbol(e, 3) = [event |-> e, mark |-> "blank"]
  BY DEF Symbol
<1>2. \A k \in 1 .. 3 : k = 1 \/ k = 2 \/ k = 3
  OBVIOUS
<1>3. "head" # "blank" /\ "tail" # "blank"
  OBVIOUS
<1> QED
  BY <1>1, <1>2, <1>3 DEF Symbols

LEMMA FullBuffer ==
  ASSUME NEW e \in Words, NEW kept \in Seq(Symbols), Len(kept) = 2,
         kept[1] = Symbol(e, 1), kept[2] = Symbol(e, 2)
  PROVE  Parsed(kept) = e
<1>1. kept[2] = [kept[1] EXCEPT !.mark = "tail"] /\ kept[1].mark = "head" /\ kept[1].event = e
  BY SymbolFacts
<1> QED
  BY <1>1 DEF Parsed

LEMMA OneInto ==
  ASSUME NEW kept \in Seq(Symbols), NEW x \in Symbols
  PROVE  /\ Append(kept, x) \in Seq(Symbols) /\ Len(Append(kept, x)) = Len(kept) + 1
         /\ \A k \in 1 .. Len(kept) : Append(kept, x)[k] = kept[k]
         /\ Append(kept, x)[Len(kept) + 1] = x
  BY AppendProperties

\* The loop puts a symbol into the buffer, or with the last of a record hears its word.
LEMMA OneSymbol ==
  ASSUME reply \in Replies,
         NEW kept, NEW heard, NEW coming, NEW last, NEW link,
         Pending(kept, heard, coming, last, link), Len(coming) > 0,
         NEW rest \in Seq(Symbols), Len(rest) = Len(coming) - 1,
         \A i \in 1 .. Len(rest) : rest[i] = coming[i + 1],
         NEW r, r = Read([buffer |-> kept, client |-> heard], coming[1])
  PROVE  Pending(r.buffer, r.client, rest, last, link)
<1>1. PICK n \in Nat : \E words, h : /\ Story(heard, n, words, h, last)
                                      /\ Sent(kept, coming, n, words, link)
  BY DEF Pending
<1>2. PICK words, h : Story(heard, n, words, h, last) /\ Sent(kept, coming, n, words, link)
  BY <1>1
<1> DEFINE q == Len(kept)
           l == Len(coming)
<1>3. /\ kept \in Seq(Symbols) /\ q \in Nat /\ q <= 2
      /\ coming \in Seq(Symbols) /\ l \in Nat /\ l >= 1
      /\ Len(rest) \in Nat /\ Len(rest) = l - 1
      /\ Amount(q + l, n, link)
  BY <1>2, LenProperties DEF Sent
<1>4. n >= 1 /\ q + l <= 3 * n
  BY <1>3 DEF Amount
<1>5. /\ \A i \in 0 .. n : Spoken(h[i])
      /\ \A i \in 1 .. n : words[i] \in Words /\ Says(words[i], h[i - 1], h[i])
      /\ heard = Gathered(h[0])
      /\ h[n] = last
  BY <1>2 DEF Story
<1>6. /\ \A k \in 1 .. q : kept[k] = Symbol(words[1], k)
      /\ \A i \in 1 .. n, k \in 1 .. 3 :
           Place(i, k, q) \in 1 .. l => coming[Place(i, k, q)] = Symbol(words[i], k)
  BY <1>2 DEF Sent
<1>7. words[1] \in Words /\ coming[1] = Symbol(words[1], q + 1) /\ q + 1 \in 1 .. 3
  <2>1. 1 \in 1 .. n /\ q + 1 \in 1 .. 3 /\ Place(1, q + 1, q) = 1 /\ 1 \in 1 .. l
    BY <1>3, <1>4 DEF Place
  <2> QED
    BY <2>1, <1>5, <1>6
<1> HIDE DEF l
<1>8. CASE q < 2
  <2>1. coming[1].mark # "blank" /\ coming[1] \in Symbols
    BY <1>3, <1>7, <1>8, SymbolFacts
  <2>2. r.buffer = Append(kept, coming[1]) /\ r.client = heard
    BY <2>1 DEF Read
  <2> DEFINE b == r.buffer
  <2>3. /\ b \in Seq(Symbols) /\ Len(b) = q + 1
        /\ \A k \in 1 .. q : b[k] = kept[k]
        /\ b[q + 1] = coming[1]
    <3>1. /\ Append(kept, coming[1]) \in Seq(Symbols)
          /\ Len(Append(kept, coming[1])) = Len(kept) + 1
          /\ \A k \in 1 .. Len(kept) : Append(kept, coming[1])[k] = kept[k]
          /\ Append(kept, coming[1])[Len(kept) + 1] = coming[1]
      BY <2>1, <1>3, OneInto
    <3> QED
      BY <3>1, <2>2
  <2> HIDE DEF b, q
  <2>4. Amount(Len(b) + Len(rest), n, link)
    <3>1. Len(b) = q + 1 /\ Len(rest) = l - 1 /\ q \in Nat /\ l \in Nat
      BY <2>3, <1>3
    <3>2. Len(b) + Len(rest) = q + l
      BY ONLY <3>1
    <3> QED
      BY <3>2, <1>3
  <2>5. \A k \in 1 .. Len(b) : b[k] = Symbol(words[1], k)
    <3>1. \A k \in 1 .. q + 1 : k \in 1 .. q \/ k = q + 1
      BY <1>3
    <3> QED
      BY <3>1, <2>3, <1>6, <1>7
  <2>6. ASSUME NEW i \in 1 .. n, NEW k \in 1 .. 3, Place(i, k, Len(b)) \in 1 .. Len(rest)
        PROVE  rest[Place(i, k, Len(b))] = Symbol(words[i], k)
    <3>1. /\ Place(i, k, Len(b)) + 1 = Place(i, k, q)
          /\ Place(i, k, q) \in 1 .. l
      <4>1. Place(i, k, Len(b)) + 1 = Place(i, k, q)
        BY <2>3, <1>3 DEF Place
      <4> QED
        BY <4>1, <2>6, <1>3
    <3>2. rest[Place(i, k, Len(b))] = coming[Place(i, k, Len(b)) + 1]
      BY <2>6
    <3> QED
      BY <3>1, <3>2, <1>6
  <2>7. Sent(b, rest, n, words, link)
    <3>1. Len(b) <= 2
      BY <2>3, <1>3, <1>8
    <3> QED
      BY <3>1, <2>3, <2>4, <2>5, <2>6 DEF Sent
  <2> QED
    BY <2>2, <2>7, <1>2 DEF Pending, b
<1>9. CASE q = 2
  <2>1. coming[1].mark = "blank"
    BY <1>7, <1>9, SymbolFacts
  <2>2. r.buffer = << >> /\ r.client = Normalized(heard, Parsed(kept))
    BY <2>1 DEF Read
  <2>3. Parsed(kept) = words[1]
    <3>1. kept[1] = Symbol(words[1], 1) /\ kept[2] = Symbol(words[1], 2) /\ Len(kept) = 2
      BY <1>6, <1>9
    <3> QED
      BY <3>1, <1>3, <1>7, FullBuffer
  <2>4. Says(words[1], h[0], h[1]) /\ Spoken(h[0])
    <3>1. 1 \in 1 .. n /\ 1 - 1 = 0 /\ 0 \in 0 .. n
      BY <1>4
    <3> QED
      BY <3>1, <1>5
  <2>5. r.client = Gathered(h[1])
    BY <2>2, <2>3, <2>4, <1>5, HeardWord
  <2> DEFINE m  == n - 1
             ws == [i \in 1 .. m |-> words[i + 1]]
             g  == [i \in 0 .. m |-> h[i + 1]]
             b  == r.buffer
  <2>6. /\ m \in Nat /\ n = m + 1
        /\ \A i \in 0 .. m : g[i] = h[i + 1]
        /\ \A i \in 1 .. m : ws[i] = words[i + 1]
    BY <1>4
  <2>7. Len(b) = 0 /\ b \in Seq(Symbols)
    <3>1. << >> \in Seq(Symbols)
      BY EmptySeq
    <3>2. Len(<< >>) = 0
      BY EmptySeq
    <3> QED
      BY <2>2, <3>1, <3>2
  <2> HIDE DEF m, ws, g, b, q
  <2>8. Amount(Len(b) + Len(rest), m, link)
    <3>1. Len(b) + Len(rest) = l - 1
      BY <2>7, <1>3
    <3>2. Amount(l - 1, m, link)
      BY <2>6, <1>3, <1>9 DEF Amount
    <3> QED
      BY <3>1, <3>2
  <2>9. \A i \in 0 .. m : Spoken(g[i])
    BY <2>6, <1>5
  <2>10. ASSUME NEW i \in 1 .. m
         PROVE  ws[i] \in Words /\ Says(ws[i], g[i - 1], g[i])
    <3>1. i + 1 \in 1 .. n /\ (i + 1) - 1 = i /\ i - 1 \in 0 .. m /\ i \in 0 .. m /\ (i - 1) + 1 = i
      BY <2>6
    <3>2. words[i + 1] \in Words /\ Says(words[i + 1], h[i], h[i + 1])
      BY <3>1, <1>5
    <3>3. g[i - 1] = h[i] /\ g[i] = h[i + 1] /\ ws[i] = words[i + 1]
      BY <3>1, <2>6
    <3> QED
      BY <3>2, <3>3
  <2>11. r.client = Gathered(g[0]) /\ g[m] = last
    <3>1. 0 \in 0 .. m /\ m \in 0 .. m /\ 0 + 1 = 1
      BY <2>6
    <3> QED
      BY <3>1, <2>5, <2>6, <1>5
  <2>12. Story(r.client, m, ws, g, last)
    BY <2>9, <2>10, <2>11 DEF Story
  <2>13. ASSUME NEW i \in 1 .. m, NEW k \in 1 .. 3, Place(i, k, Len(b)) \in 1 .. Len(rest)
         PROVE  rest[Place(i, k, Len(b))] = Symbol(ws[i], k)
    <3>1. i + 1 \in 1 .. n
      BY <2>6
    <3>2. Place(i, k, Len(b)) + 1 = Place(i + 1, k, q)
      BY <2>6, <2>7, <1>9 DEF Place
    <3>3. Place(i + 1, k, q) \in 1 .. l
      BY <3>2, <2>13, <1>3
    <3>4. rest[Place(i, k, Len(b))] = coming[Place(i, k, Len(b)) + 1]
      BY <2>13
    <3>5. coming[Place(i + 1, k, q)] = Symbol(words[i + 1], k)
      BY <3>1, <3>3, <1>6
    <3> QED
      BY <3>2, <3>4, <3>5, <2>6
  <2>14. Sent(b, rest, m, ws, link)
    <3>1. \A k \in 1 .. Len(b) : b[k] = Symbol(ws[1], k)
      BY <2>7
    <3> QED
      BY <3>1, <2>7, <2>8, <2>13 DEF Sent
  <2> QED
    BY <2>6, <2>12, <2>14 DEF Pending, b
<1>10. q < 2 \/ q = 2
  <2> HIDE DEF q
  <2>1. q \in Nat /\ q <= 2
    BY <1>3
  <2> QED
    BY ONLY <2>1
<1> QED
  BY <1>8, <1>9, <1>10

\* Every set of numbers has a smallest one.
LEMMA LeastNumber ==
  ASSUME NEW S \in SUBSET Nat, S # {}
  PROVE  \E x \in S : \A y \in S : x <= y
<1>1. PICK x \in S : \A y \in S : <<y, x>> \notin OpToRel(<, Nat)
  BY WFMin, NatLessThanWellFounded
<1>2. \A y \in S : ~(y < x)
  BY <1>1, Zenon DEF OpToRel
<1>3. \A y \in S : x <= y
  BY <1>2
<1> QED
  BY <1>3

Start == [buffer |-> buffer, client |-> client]

\* f[i] is where the first i symbols of a chunk of n leave the loop.
Reading(n, f) == f = [i \in 0 .. n |-> IF i = 0 THEN Start ELSE Read(f[i - 1], wire[i])]

LEMMA ReadingExists ==
  ASSUME NEW n \in Nat
  PROVE  \E f : Reading(n, f)
<1> DEFINE S == {i \in Nat : ~ \E f : Reading(i, f)}
<1>1. SUFFICES ASSUME S # {}
               PROVE  FALSE
  OBVIOUS
<1>2. PICK m \in S : \A i \in S : m <= i
  <2>1. S \in SUBSET Nat
    OBVIOUS
  <2> HIDE DEF S
  <2> QED
    BY <1>1, <2>1, LeastNumber
<1>3. CASE m = 0
  <2> DEFINE f == [i \in 0 .. m |-> Start]
  <2>1. \A i \in 0 .. m : i = 0
    BY <1>3
  <2>2. f = [i \in 0 .. m |-> IF i = 0 THEN Start ELSE Read(f[i - 1], wire[i])]
    BY <2>1
  <2> HIDE DEF f
  <2>3. Reading(m, f)
    BY <2>2 DEF Reading
  <2> QED
    BY <2>3, <1>2
<1>4. CASE m # 0
  <2>1. m \in Nat /\ m - 1 \in Nat /\ m - 1 \notin S
    BY <1>2, <1>4
  <2>2. PICK f : Reading(m - 1, f)
    BY <2>1
  <2>3. \A i \in 0 .. m - 1 : f[i] = IF i = 0 THEN Start ELSE Read(f[i - 1], wire[i])
    BY <2>2 DEF Reading
  <2> DEFINE g == [i \in 0 .. m |-> IF i = m THEN Read(f[m - 1], wire[m]) ELSE f[i]]
  <2>4. ASSUME NEW i \in 0 .. m
        PROVE  g[i] = IF i = 0 THEN Start ELSE Read(g[i - 1], wire[i])
    <3>1. CASE i = m
      <4>1. g[i] = Read(f[m - 1], wire[m]) /\ i # 0
        BY <3>1, <1>4
      <4>2. g[i - 1] = f[m - 1]
        BY <2>1, <3>1
      <4> QED
        BY <4>1, <4>2, <3>1
    <3>2. CASE i # m
      <4>1. i \in 0 .. m - 1 /\ g[i] = f[i]
        BY <3>2, <2>1
      <4>2. i # 0 => g[i - 1] = f[i - 1]
        BY <3>2, <2>1
      <4> HIDE DEF g
      <4> QED
        BY <4>1, <4>2, <2>3
    <3> QED
      BY <3>1, <3>2
  <2>5. g = [i \in 0 .. m |-> g[i]]
    OBVIOUS
  <2> HIDE DEF g
  <2>6. Reading(m, g)
    BY <2>4, <2>5 DEF Reading
  <2> QED
    BY <2>6, <1>2
<1> QED
  BY <1>3, <1>4

LEMMA ChunkIsReading ==
  ASSUME NEW n \in Nat
  PROVE  \E f : /\ Chunk(n) = f[n]
                /\ f[0] = Start
                /\ \A i \in 1 .. n : f[i] = Read(f[i - 1], wire[i])
<1> DEFINE f == CHOOSE g : Reading(n, g)
<1>1. Reading(n, f)
  BY ReadingExists
<1>2. Chunk(n) = f[n]
  BY DEF Chunk, Reading, Start
<1> HIDE DEF f
<1>3. /\ f[0] = Start
      /\ \A i \in 1 .. n : f[i] = Read(f[i - 1], wire[i])
  BY <1>1 DEF Reading
<1> QED
  BY <1>2, <1>3

\* What is left of the wire.
LEMMA LeftFacts ==
  ASSUME NEW w \in Seq(Symbols), NEW j \in 0 .. Len(w)
  PROVE  /\ SubSeq(w, j + 1, Len(w)) \in Seq(Symbols)
         /\ Len(SubSeq(w, j + 1, Len(w))) = Len(w) - j
         /\ \A i \in 1 .. Len(w) - j : SubSeq(w, j + 1, Len(w))[i] = w[i + j]
<1>1. Len(w) \in Nat /\ \A i \in 1 .. Len(w) : w[i] \in Symbols
  BY LenProperties
<1> DEFINE m == j + 1
           n == Len(w)
           r == SubSeq(w, m, n)
<1>2. /\ m \in Int /\ n \in Int
      /\ \A i \in m .. n : w[i] \in Symbols
  BY <1>1
<1>3. /\ n - m + 1 = n - j
      /\ \A i \in 1 .. n - j : m + i - 1 = i + j
      /\ (IF m <= n THEN n - m + 1 ELSE 0) = n - j
  BY <1>1
<1> HIDE DEF m, n
<1>4. /\ r \in Seq(Symbols)
      /\ Len(r) = IF m <= n THEN n - m + 1 ELSE 0
      /\ \A i \in 1 .. n - m + 1 : r[i] = w[m + i - 1]
  BY <1>2, SubSeqProperties
<1> HIDE DEF r
<1>5. /\ r \in Seq(Symbols)
      /\ Len(r) = n - j
      /\ \A i \in 1 .. n - j : r[i] = w[i + j]
  BY <1>3, <1>4
<1> QED
  BY <1>5 DEF r, m, n

LEMMA ReadRecord ==
  ASSUME NEW kept, NEW heard, NEW x, NEW r, r = Read([buffer |-> kept, client |-> heard], x)
  PROVE  r = [buffer |-> r.buffer, client |-> r.client]
<1>1. CASE x.mark = "blank"
  BY <1>1 DEF Read
<1>2. CASE x.mark # "blank"
  <2>1. r = [buffer |-> Append(kept, x), client |-> heard]
    BY <1>2 DEF Read
  <2> QED
    BY <2>1
<1> QED
  BY <1>1, <1>2

\* Every symbol of a chunk is read by the loop.
LEMMA ReadOn ==
  ASSUME reply \in Replies, Pending(buffer, client, wire, said, connection),
         NEW n \in 0 .. Len(wire)
  PROVE  Pending(Chunk(n).buffer, Chunk(n).client, SubSeq(wire, n + 1, Len(wire)),
                 said, connection)
<1>1. wire \in Seq(Symbols) /\ Len(wire) \in Nat /\ n \in Nat
  BY LenProperties DEF Pending, Sent
<1>2. PICK f : /\ Chunk(n) = f[n]
               /\ f[0] = Start
               /\ \A i \in 1 .. n : f[i] = Read(f[i - 1], wire[i])
  BY <1>1, ChunkIsReading
<1> DEFINE Left(j) == SubSeq(wire, j + 1, Len(wire))
           Good(j) == /\ f[j] = [buffer |-> f[j].buffer, client |-> f[j].client]
                      /\ Pending(f[j].buffer, f[j].client, Left(j), said, connection)
           S       == {j \in 0 .. n : ~ Good(j)}
<1>3. ASSUME NEW j \in 0 .. Len(wire)
      PROVE  /\ Left(j) \in Seq(Symbols) /\ Len(Left(j)) = Len(wire) - j
             /\ \A i \in 1 .. Len(wire) - j : Left(j)[i] = wire[i + j]
  BY <1>1, LeftFacts
<1>4. SUFFICES ASSUME S # {}
               PROVE  FALSE
  <2>1. n \in 0 .. n
    BY <1>1
  <2> QED
    BY <1>2, <2>1
<1>5. PICK m \in S : \A j \in S : m <= j
  <2>1. S \in SUBSET Nat
    BY <1>1
  <2> HIDE DEF S
  <2> QED
    BY <1>4, <2>1, LeastNumber
<1>6. m \in 0 .. n /\ ~Good(m)
  BY <1>5
<1>7. CASE m = 0
  <2>1. Left(0) = wire
    <3>1. 0 \in 0 .. Len(wire)
      BY <1>1
    <3>2. /\ Left(0) \in Seq(Symbols) /\ Len(Left(0)) = Len(wire)
          /\ \A i \in 1 .. Len(wire) : Left(0)[i] = wire[i]
      BY <1>1, <1>3, <3>1
    <3> HIDE DEF Left
    <3> QED
      BY <1>1, <3>2, SeqEqual
  <2>2. Good(0)
    <3> HIDE DEF Left
    <3> QED
      BY <1>2, <2>1 DEF Start
  <2> QED
    BY <1>6, <1>7, <2>2
<1>8. CASE m # 0
  <2>1. m - 1 \in 0 .. n /\ m \in 1 .. n /\ m - 1 \in 0 .. Len(wire) /\ m \in 0 .. Len(wire)
    BY <1>1, <1>6, <1>8
  <2>2. Good(m - 1)
    <3>1. m - 1 \notin S
      BY <1>1, <1>5, <2>1
    <3> HIDE DEF Good
    <3> QED
      BY <2>1, <3>1
  <2> DEFINE coming == Left(m - 1)
             rest   == Left(m)
             kept   == f[m - 1].buffer
             heard  == f[m - 1].client
  <2>3. f[m] = Read([buffer |-> kept, client |-> heard], wire[m])
    BY <1>2, <2>1, <2>2
  <2>4. /\ Len(coming) = Len(wire) - (m - 1)
        /\ \A i \in 1 .. Len(wire) - (m - 1) : coming[i] = wire[i + (m - 1)]
    BY <1>3, <2>1
  <2>5. /\ rest \in Seq(Symbols)
        /\ Len(rest) = Len(wire) - m
        /\ \A i \in 1 .. Len(wire) - m : rest[i] = wire[i + m]
    BY <1>3, <2>1
  <2>6. Pending(kept, heard, coming, said, connection)
    BY <2>2
  <2> HIDE DEF coming, rest, kept, heard, Left
  <2>7. /\ Len(coming) > 0 /\ Len(rest) = Len(coming) - 1
        /\ coming[1] = wire[m]
        /\ \A i \in 1 .. Len(rest) : rest[i] = coming[i + 1]
    <3>1. Len(coming) > 0 /\ Len(rest) = Len(coming) - 1
      BY <1>1, <2>1, <2>4, <2>5
    <3>2. 1 \in 1 .. Len(wire) - (m - 1) /\ 1 + (m - 1) = m
      BY <1>1, <2>1
    <3>3. coming[1] = wire[m]
      BY <2>4, <3>2
    <3>4. ASSUME NEW i \in 1 .. Len(rest)
          PROVE  rest[i] = coming[i + 1]
      <4>1. i + 1 \in 1 .. Len(wire) - (m - 1) /\ (i + 1) + (m - 1) = i + m
        BY <1>1, <2>1, <2>5
      <4> QED
        BY <4>1, <2>4, <2>5
    <3> QED
      BY <3>1, <3>3, <3>4
  <2>8. Pending(f[m].buffer, f[m].client, rest, said, connection)
    BY <2>3, <2>5, <2>6, <2>7, OneSymbol
  <2>9. f[m] = [buffer |-> f[m].buffer, client |-> f[m].client]
    BY <2>3, ReadRecord
  <2> QED
    BY <1>6, <2>8, <2>9 DEF rest
<1> QED
  BY <1>7, <1>8

LEMMA RecordFacts ==
  ASSUME NEW e \in Words
  PROVE  /\ Record(e) \in Seq(Symbols) /\ Len(Record(e)) = 3
         /\ \A k \in 1 .. 3 : Record(e)[k] = Symbol(e, k)
<1>1. Record(e) \in [1 .. 3 -> Symbols] /\ \A k \in 1 .. 3 : Record(e)[k] = Symbol(e, k)
  BY SymbolFacts DEF Record
<1> HIDE DEF Record
<1>2. Record(e) \in Seq(Symbols)
  BY <1>1, SeqDef
<1> QED
  BY <1>1, <1>2, LenProperties

\* The provider says one word more.
LEMMA SayOn ==
  ASSUME reply \in Replies,
         NEW kept, NEW heard, NEW coming, NEW last, NEW e, NEW t, Says(e, last, t),
         Pending(kept, heard, coming, last, "open")
  PROVE  Spoken(t) /\ Pending(kept, heard, coming \o Record(e), t, "open")
<1>1. PICK n \in Nat : \E words, h : /\ Story(heard, n, words, h, last)
                                      /\ Sent(kept, coming, n, words, "open")
  BY DEF Pending
<1>2. PICK words, h : Story(heard, n, words, h, last) /\ Sent(kept, coming, n, words, "open")
  BY <1>1
<1> DEFINE q  == Len(kept)
           l  == Len(coming)
           m  == n + 1
           ws == [i \in 1 .. m |-> IF i = m THEN e ELSE words[i]]
           g  == [i \in 0 .. m |-> IF i = m THEN t ELSE h[i]]
           longer == coming \o Record(e)
<1>3. /\ kept \in Seq(Symbols) /\ q \in Nat /\ q <= 2
      /\ coming \in Seq(Symbols) /\ l \in Nat
      /\ q + l = 3 * n
      /\ \A k \in 1 .. q : kept[k] = Symbol(words[1], k)
      /\ \A i \in 1 .. n, k \in 1 .. 3 :
           Place(i, k, q) \in 1 .. l => coming[Place(i, k, q)] = Symbol(words[i], k)
  BY <1>2, LenProperties DEF Sent, Amount
<1>4. /\ \A i \in 0 .. n : Spoken(h[i])
      /\ \A i \in 1 .. n : words[i] \in Words /\ Says(words[i], h[i - 1], h[i])
      /\ heard = Gathered(h[0])
      /\ h[n] = last
  BY <1>2 DEF Story
<1>5. Spoken(t) /\ e \in Words
  <2>1. n \in 0 .. n
    OBVIOUS
  <2>2. Spoken(last)
    BY <2>1, <1>4
  <2> QED
    BY <2>2, HeardWord
<1>6. /\ m \in Nat /\ m \in 1 .. m /\ m \in 0 .. m
      /\ \A i \in 1 .. n : i \in 1 .. m /\ i # m
      /\ \A i \in 0 .. n : i \in 0 .. m /\ i # m
      /\ \A i \in 1 .. m : i = m \/ i \in 1 .. n
      /\ \A i \in 0 .. m : i = m \/ i \in 0 .. n
  OBVIOUS
<1>7. /\ ws[m] = e /\ \A i \in 1 .. n : ws[i] = words[i]
      /\ g[m] = t /\ \A i \in 0 .. n : g[i] = h[i]
  BY <1>6
<1>8. /\ longer \in Seq(Symbols) /\ Len(longer) = l + 3
      /\ \A i \in 1 .. l : longer[i] = coming[i]
      /\ \A k \in 1 .. 3 : longer[l + k] = Symbol(e, k)
  <2> DEFINE R == Record(e)
  <2>1. R \in Seq(Symbols) /\ Len(R) = 3 /\ \A k \in 1 .. 3 : R[k] = Symbol(e, k)
    BY <1>5, RecordFacts
  <2> HIDE DEF R, l
  <2>2. /\ coming \o R \in Seq(Symbols) /\ Len(coming \o R) = l + 3
        /\ \A i \in 1 .. l + 3 : (coming \o R)[i] = IF i <= l THEN coming[i] ELSE R[i - l]
    <3>1. /\ coming \o R \in Seq(Symbols)
          /\ Len(coming \o R) = Len(coming) + Len(R)
          /\ \A i \in 1 .. Len(coming) + Len(R) :
               (coming \o R)[i] = IF i <= Len(coming) THEN coming[i] ELSE R[i - Len(coming)]
      BY <2>1, <1>3, ConcatProperties
    <3>2. Len(coming) = l /\ Len(R) = 3
      BY <2>1 DEF l
    <3> QED
      BY <3>1, <3>2
  <2>3. /\ \A i \in 1 .. l : i \in 1 .. l + 3 /\ i <= l
        /\ \A k \in 1 .. 3 : l + k \in 1 .. l + 3 /\ ~(l + k <= l) /\ (l + k) - l = k
    BY <1>3
  <2> QED
    BY <2>1, <2>2, <2>3 DEF R
<1> HIDE DEF m, ws, g, longer, l, q
<1>9. Story(heard, m, ws, g, t)
  <2>1. \A i \in 0 .. m : Spoken(g[i])
    BY <1>4, <1>5, <1>6, <1>7
  <2>2. ASSUME NEW i \in 1 .. m
        PROVE  ws[i] \in Words /\ Says(ws[i], g[i - 1], g[i])
    <3>1. CASE i = m
      <4>1. g[i - 1] = last
        <5>1. i - 1 = n /\ n \in 0 .. n
          BY <3>1 DEF m
        <5> QED
          BY <5>1, <1>4, <1>7
      <4> QED
        BY <3>1, <4>1, <1>5, <1>7
    <3>2. CASE i \in 1 .. n
      <4>1. i - 1 \in 0 .. n /\ i \in 0 .. n
        BY <3>2
      <4> QED
        BY <3>2, <4>1, <1>4, <1>7
    <3> QED
      BY <3>1, <3>2, <1>6
  <2>3. heard = Gathered(g[0])
    <3>1. 0 \in 0 .. n
      OBVIOUS
    <3> QED
      BY <3>1, <1>4, <1>7
  <2> QED
    BY <2>1, <2>2, <2>3, <1>7 DEF Story
<1>10. Sent(kept, longer, m, ws, "open")
  <2>1. Amount(Len(kept) + Len(longer), m, "open")
    <3>1. q + Len(longer) = 3 * m
      <4>1. q + l = 3 * n /\ Len(longer) = l + 3 /\ q \in Nat /\ l \in Nat /\ m = n + 1
        BY <1>3, <1>8 DEF m
      <4> QED
        BY ONLY <4>1
    <3>2. Amount(3 * m, m, "open")
      BY <1>6 DEF Amount
    <3> QED
      BY <3>1, <3>2 DEF q
  <2>2. ASSUME NEW k \in 1 .. q
        PROVE  kept[k] = Symbol(ws[1], k)
    <3>1. 1 \in 1 .. n
      BY <1>3
    <3> QED
      BY <3>1, <1>3, <1>7
  <2>3. ASSUME NEW i \in 1 .. m, NEW k \in 1 .. 3, Place(i, k, q) \in 1 .. Len(longer)
        PROVE  longer[Place(i, k, q)] = Symbol(ws[i], k)
    <3>1. CASE i = m
      <4>1. Place(i, k, q) = l + k
        BY <3>1, <1>3 DEF Place, m
      <4> QED
        BY <3>1, <4>1, <1>7, <1>8
    <3>2. CASE i \in 1 .. n
      <4>1. Place(i, k, q) \in 1 .. l
        BY <2>3, <3>2, <1>3 DEF Place
      <4> QED
        BY <3>2, <4>1, <1>3, <1>7, <1>8
    <3> QED
      BY <3>1, <3>2, <1>6
  <2> QED
    BY <2>1, <2>2, <2>3, <1>3, <1>8 DEF Sent, q
<1>11. Pending(kept, heard, longer, t, "open")
  BY <1>6, <1>9, <1>10 DEF Pending
<1> QED
  BY <1>5, <1>11 DEF longer

\* The connection ends, perhaps before everything has arrived.
LEMMA BreakOn ==
  ASSUME NEW kept, NEW heard, NEW coming, NEW last,
         Pending(kept, heard, coming, last, "open"),
         NEW rest \in Seq(Symbols), Len(rest) <= Len(coming),
         \A i \in 1 .. Len(rest) : rest[i] = coming[i],
         NEW link, link # "open", link = "closed" => Len(rest) >= Len(coming) - 1
  PROVE  Pending(kept, heard, rest, last, link)
<1>1. PICK n \in Nat : \E words, h : /\ Story(heard, n, words, h, last)
                                      /\ Sent(kept, coming, n, words, "open")
  BY DEF Pending
<1>2. PICK words, h : Story(heard, n, words, h, last) /\ Sent(kept, coming, n, words, "open")
  BY <1>1
<1> DEFINE q == Len(kept)
           l == Len(coming)
           m == Len(rest)
<1>3. /\ kept \in Seq(Symbols) /\ q \in Nat /\ q <= 2
      /\ coming \in Seq(Symbols) /\ l \in Nat /\ m \in Nat
      /\ q + l = 3 * n
      /\ \A k \in 1 .. q : kept[k] = Symbol(words[1], k)
      /\ \A i \in 1 .. n, k \in 1 .. 3 :
           Place(i, k, q) \in 1 .. l => coming[Place(i, k, q)] = Symbol(words[i], k)
  BY <1>2, LenProperties DEF Sent, Amount
<1>4. m <= l /\ (link = "closed" => m >= l - 1) /\ \A i \in 1 .. m : rest[i] = coming[i]
  OBVIOUS
<1> HIDE DEF q, l, m
<1>5. Amount(q + m, n, link)
  <2>1. q + m <= 3 * n
    BY <1>3, <1>4
  <2>2. m >= l - 1 => q + m \in {3 * n - 1, 3 * n}
    BY <1>3, <1>4
  <2> QED
    BY <2>1, <2>2, <1>4 DEF Amount
<1>6. ASSUME NEW i \in 1 .. n, NEW k \in 1 .. 3, Place(i, k, q) \in 1 .. m
      PROVE  rest[Place(i, k, q)] = Symbol(words[i], k)
  <2>1. Place(i, k, q) \in 1 .. l
    BY <1>3, <1>4, <1>6
  <2> QED
    BY <2>1, <1>3, <1>4, <1>6
<1>7. Sent(kept, rest, n, words, link)
  BY <1>3, <1>5, <1>6 DEF Sent, q, m
<1> QED
  BY <1>2, <1>7 DEF Pending

\* At the end of the response the client has heard everything, unless it was cut short.
LEMMA EndHears ==
  ASSUME reply \in Replies, NEW kept, NEW heard, NEW last, NEW link,
         Pending(kept, heard, << >>, last, link)
  PROVE  \E s : /\ Spoken(s) /\ Normalized(heard, Parsed(kept)) = Gathered(s)
                /\ link = "closed" => s = last
<1>1. PICK n \in Nat : \E words, h : /\ Story(heard, n, words, h, last)
                                      /\ Sent(kept, << >>, n, words, link)
  BY DEF Pending
<1>2. PICK words, h : Story(heard, n, words, h, last) /\ Sent(kept, << >>, n, words, link)
  BY <1>1
<1> DEFINE q == Len(kept)
<1>3. /\ kept \in Seq(Symbols) /\ q \in Nat /\ q <= 2
      /\ Amount(q, n, link)
      /\ \A k \in 1 .. q : kept[k] = Symbol(words[1], k)
  <2>1. Len(<< >>) = 0
    BY EmptySeq
  <2>2. kept \in Seq(Symbols) /\ q \in Nat /\ Amount(q + Len(<< >>), n, link)
    BY <1>2, LenProperties DEF Sent
  <2>3. q + Len(<< >>) = q
    BY <2>1, <2>2
  <2> QED
    BY <2>2, <2>3, <1>2 DEF Sent
<1>4. /\ \A i \in 0 .. n : Spoken(h[i])
      /\ \A i \in 1 .. n : words[i] \in Words /\ Says(words[i], h[i - 1], h[i])
      /\ heard = Gathered(h[0])
      /\ h[n] = last
  BY <1>2 DEF Story
<1>5. CASE q # 2
  <2>1. Parsed(kept) = Null
    BY <1>5 DEF Parsed
  <2>2. Normalized(heard, Parsed(kept)) = heard
    BY <2>1 DEF Normalized, Null
  <2>3. 0 \in 0 .. n
    OBVIOUS
  <2>4. ASSUME link = "closed"
        PROVE  n = 0
    <3> HIDE DEF q
    <3> QED
      BY <2>4, <1>3, <1>5 DEF Amount
  <2> QED
    BY <2>2, <2>3, <2>4, <1>4
<1>6. CASE q = 2
  <2>1. 1 \in 1 .. n /\ 0 \in 0 .. n /\ 1 \in 0 .. n
    <3> HIDE DEF q
    <3> QED
      BY <1>3, <1>6 DEF Amount
  <2>2. words[1] \in Words /\ Says(words[1], h[0], h[1]) /\ Spoken(h[0]) /\ Spoken(h[1])
    <3>1. 1 - 1 = 0
      OBVIOUS
    <3> QED
      BY <2>1, <3>1, <1>4
  <2>3. Parsed(kept) = words[1]
    <3>1. kept[1] = Symbol(words[1], 1) /\ kept[2] = Symbol(words[1], 2)
      BY <1>3, <1>6
    <3> QED
      BY <2>2, <3>1, <1>3, <1>6, FullBuffer
  <2>4. Normalized(heard, Parsed(kept)) = Gathered(h[1])
    BY <2>2, <2>3, <1>4, HeardWord
  <2>5. ASSUME link = "closed"
        PROVE  n = 1
    <3> HIDE DEF q
    <3> QED
      BY <2>5, <1>3, <1>6 DEF Amount
  <2> QED
    BY <2>2, <2>4, <2>5, <1>4
<1> QED
  BY <1>5, <1>6

-----------------------------------------------------------------------------
\* What the invariant says of progress and words rests on the transport and the reply alone.
LEMMA SameReply ==
  ASSUME UNCHANGED <<transport, reply>>,
         NEW kept, NEW heard, NEW coming, NEW last, NEW link, NEW s
  PROVE  /\ Spoken(s)' <=> Spoken(s)
         /\ Gathered(s)' = Gathered(s)
         /\ Pending(kept, heard, coming, last, link)' <=> Pending(kept, heard, coming, last, link)
<1>1. transport' = transport /\ reply' = reply
  OBVIOUS
<1>2. Calls' = Calls
  BY <1>1 DEF Calls
<1>3. ASSUME NEW r
      PROVE  /\ Opening(r)' = Opening(r)
             /\ Usage(r)' = Usage(r)
             /\ \A c : Parts(r, c)' = Parts(r, c)
  BY <1>1, <1>2 DEF Opening, Usage, Parts
<1>4. ASSUME NEW r
      PROVE  Spoken(r)' <=> Spoken(r)
  BY <1>1, <1>2, <1>3 DEF Spoken, Progress
<1>5. \A c, n : Call(c, n)' = Call(c, n)
  BY <1>1 DEF Call, Key
<1>6. ASSUME NEW r
      PROVE  Gathered(r)' = Gathered(r)
  BY <1>3, <1>5 DEF Gathered
<1>7. ASSUME NEW e, NEW a, NEW b
      PROVE  Says(e, a, b)' <=> Says(e, a, b)
  BY <1>1, <1>2 DEF Says
<1>8. ASSUME NEW n, NEW words, NEW h
      PROVE  Story(heard, n, words, h, last)' <=> Story(heard, n, words, h, last)
  BY <1>4, <1>6, <1>7 DEF Story
<1>9. Pending(kept, heard, coming, last, link)' <=> Pending(kept, heard, coming, last, link)
  BY <1>8 DEF Pending
<1> QED
  BY <1>4, <1>6, <1>9

LEMMA InitInvariant == Init => IInv
<1> SUFFICES ASSUME Init
             PROVE  IInv
  OBVIOUS
<1> USE DEF Init
<1>1. /\ Len(reply.args) \in Nat /\ Calls = 1 .. Len(reply.args)
      /\ \A c \in Calls : c \in Nat /\ c >= 1 /\ reply.args[c] \in Nat
      /\ reply.text \in Nat
  BY ReplyFacts
<1>2. said.calls = [c \in Calls |-> 0]
  BY DEF Calls
<1>3. said \in Progress /\ said.text = 0 /\ said.begin = FALSE /\ said.end = FALSE
  BY <1>2 DEF Progress
<1>4. Opening(said) = {}
  BY <1>2 DEF Opening
<1>5. Spoken(said)
  <2>1. 0 \in 0 .. Len(reply.args) /\ 1 .. 0 = {}
    BY <1>1
  <2> QED
    <3>1. \E k \in 0 .. Len(reply.args) : Opening(said) = 1 .. k
      BY <1>4, <2>1
    <3>2. \A c \in Calls : said.calls[c] <= reply.args[c] + 2
      BY <1>1, <1>2
    <3>3. said.text <= reply.text /\ ~said.end
      BY <1>1, <1>3
    <3> QED
      BY <3>1, <3>2, <3>3, <1>3 DEF Spoken
<1>6. Gathered(said) = Fresh
  <2>1. Upto(0) = << >>
    BY DEF Upto
  <2>2. Usage(said) = {}
    BY <1>3 DEF Usage
  <2>3. [c \in Opening(said) |-> Call(c, Parts(said, c))] = << >>
    <3> DEFINE f == [c \in Opening(said) |-> Call(c, Parts(said, c))]
               S == {Call(c, Parts(said, c)) : c \in Opening(said)}
    <3>1. f \in [Opening(said) -> S] /\ Opening(said) = 1 .. 0
      <4>1. f \in [Opening(said) -> S]
        OBVIOUS
      <4>2. 1 .. 0 = {}
        OBVIOUS
      <4> QED
        BY <4>1, <4>2, <1>4
    <3> HIDE DEF f, S
    <3>2. f \in Seq(S) /\ DOMAIN f = 1 .. 0
      BY <3>1, SeqDef
    <3>3. 0 \in Nat
      OBVIOUS
    <3>4. Len(f) = 0
      BY <3>2, <3>3, LenProperties
    <3>5. f = << >>
      BY <3>2, <3>4, EmptySeq
    <3> QED
      BY <3>5 DEF f
  <2> QED
    BY <1>3, <2>1, <2>2, <2>3 DEF Gathered, Fresh
<1>7. Pending(<< >>, Fresh, << >>, said, "open")
  <2> DEFINE h == [i \in 0 .. 0 |-> said]
  <2>1. \A i \in 0 .. 0 : h[i] = said
    OBVIOUS
  <2>2. 0 \in 0 .. 0 /\ 1 .. 0 = {}
    OBVIOUS
  <2> HIDE DEF h
  <2>3. Story(Fresh, 0, << >>, h, said)
    BY <2>1, <2>2, <1>5, <1>6 DEF Story
  <2>4. << >> \in Seq(Symbols) /\ Len(<< >>) = 0
    BY EmptySeq
  <2>5. Sent(<< >>, << >>, 0, << >>, "open")
    BY <2>2, <2>4 DEF Sent, Amount
  <2> QED
    BY <2>3, <2>5 DEF Pending
<1>8. StageInv
  BY DEF StageInv
<1> QED
  BY <1>5, <1>7, <1>8 DEF IInv, HeardInv

\* Every word of the provider is one that Says describes.
LEMMA UtterSays ==
  ASSUME IInv, Utter
  PROVE  \E e : Says(e, said, said') /\ wire' = wire \o Record(e)
<1>1. said.calls \in [Calls -> Nat]
  BY DEF IInv, Spoken, Progress
<1>2. Calls = 1 .. Len(reply.args) /\ \A c \in Calls : c \in Nat /\ reply.args[c] \in Nat
  BY ReplyFacts DEF IInv
<1>3. CASE ~said.begin /\ Sends(Begin, [said EXCEPT !.begin = TRUE])
  BY <1>3 DEF Says, Sends
<1>4. CASE /\ said.begin /\ ~said.end
           /\ said.text < reply.text /\ Sends(Text(said.text + 1), [said EXCEPT !.text = @ + 1])
  BY <1>4 DEF Says, Sends
<1>5. CASE \E c \in Calls :
             /\ said.begin /\ ~said.end
             /\ MaySay(c) /\ ~Opened(c) /\ Sends(Open(c), [said EXCEPT !.calls[c] = 1])
  <2>1. PICK c \in Calls :
          /\ said.begin /\ ~said.end
          /\ MaySay(c) /\ ~Opened(c) /\ Sends(Open(c), [said EXCEPT !.calls[c] = 1])
    BY <1>5
  <2>2. said.calls[c] = 0 /\ \A d \in 1 .. c - 1 : said.calls[d] > 0
    BY <2>1, <1>1 DEF MaySay, Opened
  <2>3. Says(Open(c), said, said') /\ wire' = wire \o Record(Open(c))
    BY <2>1, <2>2 DEF Says, Sends
  <2> QED
    BY <2>3
<1>6. CASE \E c \in Calls :
             /\ said.begin /\ ~said.end /\ Opened(c) /\ ~Finished(c)
             /\ Sends(Arguments(c, said.calls[c]), [said EXCEPT !.calls[c] = @ + 1])
  <2>1. PICK c \in Calls :
          /\ said.begin /\ ~said.end /\ Opened(c) /\ ~Finished(c)
          /\ Sends(Arguments(c, said.calls[c]), [said EXCEPT !.calls[c] = @ + 1])
    BY <1>6
  <2>2. said.calls[c] \in 1 .. reply.args[c]
    BY <2>1, <1>1, <1>2 DEF Opened, Finished
  <2>3. Says(Arguments(c, said.calls[c]), said, said')
    BY <2>1, <2>2 DEF Says, Sends
  <2> QED
    BY <2>1, <2>3 DEF Sends
<1>7. CASE \E c \in Calls :
             /\ said.begin /\ ~said.end /\ said.calls[c] = reply.args[c] + 1
             /\ Sends(Done(c, reply.args[c]), [said EXCEPT !.calls[c] = @ + 1])
  BY <1>7 DEF Says, Sends
<1>8. CASE /\ said.begin /\ ~said.end
           /\ said.text = reply.text
           /\ \A c \in Calls : Finished(c)
           /\ Sends(End, [said EXCEPT !.end = TRUE])
  <2>1. \A c \in Calls : said.calls[c] > reply.args[c]
    BY <1>1, <1>2, <1>8 DEF Finished
  <2> QED
    BY <2>1, <1>8 DEF Says, Sends
<1> QED
  BY <1>3, <1>4, <1>5, <1>6, <1>7, <1>8 DEF Utter, Calls

LEMMA NextReply ==
  ASSUME UNCHANGED <<transport, reply>>
  PROVE  /\ Spoken(said') => Spoken(said)'
         /\ Pending(buffer', client', wire', said', connection')
              => Pending(buffer, client, wire, said, connection)'
         /\ \A s : (Spoken(s) => Spoken(s)') /\ Gathered(s)' = Gathered(s)
<1>1. \A s : (Spoken(s) => Spoken(s)') /\ Gathered(s)' = Gathered(s)
  BY SameReply
<1>2. ASSUME NEW kept, NEW heard, NEW coming, NEW last, NEW link
      PROVE  Pending(kept, heard, coming, last, link)' <=> Pending(kept, heard, coming, last, link)
  BY SameReply
<1>3. Pending(buffer', client', wire', said', connection')
              => Pending(buffer, client, wire, said, connection)'
  BY <1>2
<1>4. Spoken(said') => Spoken(said)'
  BY <1>1
<1> QED
  BY <1>1, <1>3, <1>4

LEMMA BeginningFacts ==
  ASSUME NEW w \in Seq(Symbols), NEW n \in 0 .. Len(w)
  PROVE  /\ SubSeq(w, 1, n) \in Seq(Symbols) /\ Len(SubSeq(w, 1, n)) = n
         /\ \A i \in 1 .. n : SubSeq(w, 1, n)[i] = w[i]
<1>1. n \in Int /\ 1 \in Int /\ \A i \in 1 .. n : w[i] \in Symbols
  BY LenProperties
<1>2. /\ SubSeq(w, 1, n) \in Seq(Symbols)
      /\ Len(SubSeq(w, 1, n)) = IF 1 <= n THEN n - 1 + 1 ELSE 0
      /\ \A i \in 1 .. n - 1 + 1 : SubSeq(w, 1, n)[i] = w[1 + i - 1]
  BY <1>1, SubSeqProperties
<1>3. /\ n - 1 + 1 = n
      /\ \A i \in 1 .. n : 1 + i - 1 = i
      /\ (IF 1 <= n THEN n - 1 + 1 ELSE 0) = n
  BY LenProperties
<1> QED
  BY <1>2, <1>3

LEMMA FrontFacts ==
  ASSUME NEW w \in Seq(Symbols), NEW v, v = w \/ (w # << >> /\ v = Front(w))
  PROVE  /\ v \in Seq(Symbols)
         /\ Len(v) <= Len(w) /\ Len(v) >= Len(w) - 1
         /\ \A i \in 1 .. Len(v) : v[i] = w[i]
         /\ w = << >> => v = << >>
<1>1. Len(w) \in Nat
  BY LenProperties
<1>2. CASE v = w
  BY <1>1, <1>2
<1>3. CASE w # << >> /\ v = Front(w)
  <2>1. Len(w) \in Nat \ {0}
    BY <1>3, EmptySeq
  <2> DEFINE n == Len(w) - 1
  <2>2. n \in 0 .. Len(w) /\ v = SubSeq(w, 1, n)
    BY <1>3, <2>1 DEF Front
  <2> HIDE DEF n
  <2>3. /\ v \in Seq(Symbols) /\ Len(v) = n
        /\ \A i \in 1 .. n : v[i] = w[i]
    BY <2>2, BeginningFacts
  <2> QED
    BY <1>3, <2>1, <2>3 DEF n
<1> QED
  BY <1>2, <1>3

LEMMA IntervalSize ==
  ASSUME NEW n \in Nat
  PROVE  Cardinality(1 .. n) = n
<1>1. Cardinality(1 .. n) = IF 1 > n THEN 0 ELSE n - 1 + 1
  BY FS_Interval
<1> QED
  BY <1>1

LEMMA SequenceOf ==
  ASSUME NEW n \in Nat, NEW m \in Nat, n <= m, NEW f, NEW g,
         DOMAIN f = 1 .. n, f = [i \in 1 .. n |-> f[i]],
         DOMAIN g = 1 .. m, g = [i \in 1 .. m |-> g[i]]
  PROVE  Len(f) <= Len(g)
<1>1. ASSUME NEW j \in Nat, NEW h, h = [i \in 1 .. j |-> h[i]]
      PROVE  Len(h) = j
  <2> DEFINE S == {h[i] : i \in 1 .. j}
  <2>1. h \in [1 .. j -> S] /\ DOMAIN h = 1 .. j
    BY <1>1
  <2> HIDE DEF S
  <2>2. h \in Seq(S)
    BY <2>1, SeqDef
  <2> QED
    BY <2>1, <2>2, LenProperties
<1>2. Len(f) = n /\ Len(g) = m
  BY <1>1
<1> QED
  BY <1>2

LEMMA NextInvariant == IInv /\ [Next]_vars => IInv'
<1> SUFFICES ASSUME IInv, [Next]_vars
             PROVE  IInv'
  OBVIOUS
<1>1. /\ transport \in Transports /\ reply \in Replies /\ Spoken(said) /\ StageInv /\ HeardInv
      /\ phase # "completed" => Pending(buffer, client, wire, said, connection)
  BY DEF IInv
<1>2. transport' = transport /\ reply' = reply
  BY DEF Next, vars, Utter, Close, Trouble, BreakOff, Lose, RequestError, Headers, Data,
         ResponseEnds
<1>3. /\ transport' \in Transports /\ reply' \in Replies
      /\ Spoken(said') => Spoken(said)'
      /\ Pending(buffer', client', wire', said', connection')
           => Pending(buffer, client, wire, said, connection)'
      /\ \A s : (Spoken(s) => Spoken(s)') /\ Gathered(s)' = Gathered(s)
  BY <1>1, <1>2, NextReply
<1>4. phase # "completed" => wire \in Seq(Symbols) /\ Len(wire) \in Nat
  BY <1>1, LenProperties DEF Pending, Sent
\* While the chat goes on, what is to be shown is what is pending afterwards.
<1>5. ASSUME phase' # "completed", StageInv', Spoken(said'),
             Pending(buffer', client', wire', said', connection')
      PROVE  IInv'
  BY <1>3, <1>5 DEF IInv, HeardInv
<1>6. CASE Utter
  <2>1. /\ connection = "open" /\ connection' = "open" /\ phase = "open" /\ phase' = "open"
        /\ buffer' = buffer /\ client' = client
    BY <1>6 DEF Utter
  <2>2. PICK e : Says(e, said, said') /\ wire' = wire \o Record(e)
    BY <1>6, UtterSays
  <2>3. Pending(buffer, client, wire, said, "open")
    BY <1>1, <2>1
  <2>4. Spoken(said') /\ Pending(buffer, client, wire \o Record(e), said', "open")
    BY <1>1, <2>2, <2>3, SayOn
  <2>5. Pending(buffer', client', wire', said', connection')
    BY <2>1, <2>2, <2>4
  <2>6. StageInv'
    BY <2>1 DEF StageInv
  <2> QED
    BY <1>5, <2>1, <2>4, <2>5, <2>6
<1>7. CASE Close
  <2>1. /\ connection = "open" /\ connection' = "closed"
        /\ phase \in {"open", "throttled", "refused"} /\ phase' = phase
        /\ phase = "open" => said.end
        /\ said' = said /\ buffer' = buffer /\ client' = client
        /\ (wire' = wire \/ (wire # << >> /\ wire' = Front(wire)))
    BY <1>7 DEF Close
  <2>2. Pending(buffer, client, wire, said, "open")
    BY <1>1, <2>1
  <2>3. /\ wire' \in Seq(Symbols)
        /\ Len(wire') <= Len(wire) /\ Len(wire') >= Len(wire) - 1
        /\ \A i \in 1 .. Len(wire') : wire'[i] = wire[i]
        /\ wire = << >> => wire' = << >>
    BY <1>4, <2>1, FrontFacts
  <2>4. Pending(buffer, client, wire', said, "closed")
    BY <2>2, <2>3, BreakOn
  <2>5. Pending(buffer', client', wire', said', connection')
    BY <2>1, <2>4
  <2>6. StageInv'
    BY <1>1, <2>1, <2>3 DEF StageInv
  <2> QED
    BY <1>1, <1>5, <2>1, <2>5, <2>6
<1>8. CASE BreakOff
  <2>1. /\ connection = "open" /\ connection' = "cut" /\ phase = "open" /\ phase' = "open"
        /\ said' = said /\ buffer' = buffer /\ client' = client
    BY <1>8 DEF BreakOff
  <2>2. PICK n \in 0 .. Len(wire) : wire' = SubSeq(wire, 1, n)
    BY <1>8 DEF BreakOff
  <2>3. Pending(buffer, client, wire, said, "open")
    BY <1>1, <2>1
  <2>4. /\ wire' \in Seq(Symbols) /\ Len(wire') <= Len(wire)
        /\ \A i \in 1 .. Len(wire') : wire'[i] = wire[i]
    BY <1>4, <2>1, <2>2, BeginningFacts
  <2>5. Pending(buffer, client, wire', said, "cut")
    BY <2>3, <2>4, BreakOn
  <2>6. Pending(buffer', client', wire', said', connection')
    BY <2>1, <2>5
  <2>7. StageInv'
    BY <2>1 DEF StageInv
  <2> QED
    BY <1>1, <1>5, <2>1, <2>6, <2>7
<1>9. CASE Lose
  <2>1. /\ connection = "open" /\ connection' = "lost"
        /\ phase \in {"open", "throttled", "refused"} /\ phase' = phase
        /\ said' = said /\ buffer' = buffer /\ client' = client /\ wire' = << >>
    BY <1>9 DEF Lose
  <2>2. Pending(buffer, client, wire, said, "open")
    BY <1>1, <2>1
  <2>3. /\ << >> \in Seq(Symbols) /\ Len(<< >>) <= Len(wire)
        /\ \A i \in 1 .. Len(<< >>) : << >>[i] = wire[i]
    <3>1. << >> \in Seq(Symbols) /\ Len(<< >>) = 0
      BY EmptySeq
    <3> QED
      BY <1>4, <2>1, <3>1
  <2>4. Pending(buffer, client, << >>, said, "lost")
    BY <2>2, <2>3, BreakOn
  <2>5. Pending(buffer', client', wire', said', connection')
    BY <2>1, <2>4
  <2>6. StageInv'
    BY <1>1, <2>1 DEF StageInv
  <2> QED
    BY <1>1, <1>5, <2>1, <2>5, <2>6
<1>10. CASE RequestError
  <2>1. /\ phase = "waiting" /\ phase' = "failed"
        /\ UNCHANGED <<said, connection, wire, buffer, client>>
    BY <1>10 DEF RequestError
  <2>2. Pending(buffer', client', wire', said', connection')
    BY <1>1, <2>1
  <2>3. StageInv'
    BY <1>1, <2>1 DEF StageInv, Settled
  <2> QED
    BY <1>1, <1>5, <2>1, <2>2, <2>3
<1>11. CASE Headers
  <2>1. /\ phase = "waiting" /\ phase' \in {"open", "throttled", "refused"}
        /\ UNCHANGED <<said, connection, wire, buffer, client>>
    BY <1>11 DEF Headers
  <2>2. Pending(buffer', client', wire', said', connection')
    BY <1>1, <2>1
  <2>3. StageInv'
    BY <1>1, <2>1 DEF StageInv
  <2> QED
    BY <1>1, <1>5, <2>1, <2>2, <2>3
<1>12. CASE Data
  <2>1. /\ phase = "open" /\ phase' = "open"
        /\ said' = said /\ connection' = connection
    BY <1>12 DEF Data
  <2>2. PICK n \in 1 .. Len(wire) :
          /\ buffer' = Chunk(n).buffer
          /\ client' = Chunk(n).client
          /\ wire' = SubSeq(wire, n + 1, Len(wire))
    BY <1>12 DEF Data
  <2>3. n \in 0 .. Len(wire)
    BY <1>4, <2>1
  <2>4. Pending(buffer, client, wire, said, connection)
    BY <1>1, <2>1
  <2>5. Pending(buffer', client', wire', said', connection')
    BY <1>1, <2>1, <2>2, <2>3, <2>4, ReadOn
  <2>6. StageInv'
    BY <1>1, <2>1 DEF StageInv
  <2> QED
    BY <1>1, <1>5, <2>1, <2>5, <2>6
<1>13. CASE ResponseEnds
  <2>1. /\ phase \in {"open", "throttled", "refused"}
        /\ connection \in {"closed", "cut"} /\ wire = << >>
        /\ buffer' = << >>
        /\ said' = said /\ connection' = connection /\ wire' = wire
    BY <1>13 DEF ResponseEnds, EndArrives
  <2>2. Pending(buffer, client, << >>, said, connection)
    BY <1>1, <2>1
  <2>3. CASE phase = "open"
    <3>1. phase' = "completed" /\ client' = Normalized(client, Parsed(buffer))
      BY <1>13, <2>3 DEF ResponseEnds, Remaining
    <3>2. PICK s : /\ Spoken(s) /\ Normalized(client, Parsed(buffer)) = Gathered(s)
                   /\ connection = "closed" => s = said
      BY <1>1, <2>2, EndHears
    <3>3. HeardInv'
      <4>1. Spoken(s)' /\ client' = Gathered(s)' /\ (connection' = "closed" => s = said')
        BY <1>3, <2>1, <3>1, <3>2
      <4> QED
        BY <4>1 DEF HeardInv
    <3>4. StageInv'
      BY <1>1, <2>1, <2>3, <3>1 DEF StageInv, Settled
    <3> QED
      BY <1>1, <1>3, <2>1, <3>1, <3>3, <3>4 DEF IInv
  <2>4. CASE phase # "open"
    <3>1. phase' \in {"limited", "failed"} /\ client' = client
      BY <1>13, <2>1, <2>4 DEF ResponseEnds
    <3>2. client = Fresh /\ wire = << >> /\ buffer = << >>
      BY <1>1, <2>1, <2>4 DEF StageInv
    <3>3. Pending(buffer', client', wire', said', connection')
      BY <2>1, <2>2, <3>1, <3>2
    <3>4. StageInv'
      BY <1>1, <2>1, <3>1, <3>2 DEF StageInv, Settled
    <3> QED
      BY <1>1, <1>5, <2>1, <3>1, <3>3, <3>4
  <2> QED
    BY <2>3, <2>4
<1>14. CASE UNCHANGED vars
  <2>1. UNCHANGED <<said, connection, wire, buffer, client, phase>>
    BY <1>14 DEF vars
  <2>2. StageInv'
    BY <1>1, <2>1 DEF StageInv
  <2>3. CASE phase # "completed"
    BY <1>1, <1>5, <2>1, <2>2, <2>3
  <2>4. CASE phase = "completed"
    <3>1. PICK s : /\ Spoken(s) /\ client = Gathered(s)
                   /\ connection = "closed" => s = said
      BY <1>1, <2>4 DEF HeardInv
    <3>2. HeardInv'
      <4>1. Spoken(s)' /\ client' = Gathered(s)' /\ (connection' = "closed" => s = said')
        BY <1>3, <2>1, <3>1
      <4> QED
        BY <4>1 DEF HeardInv
    <3> QED
      BY <1>1, <1>3, <2>1, <2>2, <2>4, <3>2 DEF IInv
  <2> QED
    BY <2>3, <2>4
<1> QED
  BY <1>6, <1>7, <1>8, <1>9, <1>10, <1>11, <1>12, <1>13, <1>14 DEF Next, Trouble

-----------------------------------------------------------------------------
LEMMA UptoPrefix ==
  ASSUME NEW a \in Nat, NEW b \in Nat, a <= b
  PROVE  IsPrefix(Upto(a), Upto(b))
<1>1. /\ Upto(a) \in Seq(Nat) /\ Upto(b) \in Seq(Nat)
      /\ Len(Upto(a)) = a /\ Len(Upto(b)) = b
  BY UptoFacts
<1>2. ASSUME NEW n \in Nat, a <= n
      PROVE  SubSeq(Upto(n), 1, a) = Upto(a)
  <2>1. \A i \in 1 .. a : Upto(n)[i] \in Nat /\ Upto(n)[i] = i /\ Upto(a)[i] = i
    BY <1>2 DEF Upto
  <2>2. /\ a - 1 + 1 = a /\ 1 \in Int /\ a \in Int
        /\ \A i \in 1 .. a : 1 + i - 1 = i
        /\ (IF 1 <= a THEN a - 1 + 1 ELSE 0) = a
    OBVIOUS
  <2> DEFINE v == SubSeq(Upto(n), 1, a)
  <2>3. /\ v \in Seq(Nat)
        /\ Len(v) = IF 1 <= a THEN a - 1 + 1 ELSE 0
        /\ \A i \in 1 .. a - 1 + 1 : v[i] = Upto(n)[1 + i - 1]
    BY <2>1, <2>2, SubSeqProperties
  <2> HIDE DEF v
  <2>4. /\ v \in Seq(Nat) /\ Len(v) = a
        /\ \A i \in 1 .. a : v[i] = Upto(a)[i]
    BY <2>1, <2>2, <2>3
  <2>5. v = Upto(a)
    BY <1>1, <2>4, SeqEqual
  <2> QED
    BY <2>5 DEF v
<1>3. SubSeq(Upto(a), 1, a) = Upto(a) /\ SubSeq(Upto(b), 1, a) = Upto(a)
  BY <1>2
<1> QED
  BY <1>1, <1>3 DEF IsPrefix

\* The tool calls of a result are all that were opened, in their order.
LEMMA RequestsAll ==
  ASSUME reply \in Replies, NEW s, Spoken(s), NEW k \in Nat,
         Gathered(s).calls = [c \in 1 .. k |-> Call(c, Parts(s, c))]
  PROVE  Requests(Gathered(s)) = [c \in 1 .. k |-> Call(c, Parts(s, c))]
<1> DEFINE calls   == Gathered(s).calls
           named   == {i \in DOMAIN calls : calls[i].name # 0}
           Rank(i) == Cardinality({j \in named : j <= i})
<1>1. named = 1 .. k
  <2>1. \A i \in 1 .. k : calls[i].name = i /\ i # 0
    BY CallFields
  <2>2. DOMAIN calls = 1 .. k
    OBVIOUS
  <2> QED
    BY <2>1, <2>2
<1>2. Cardinality(named) = k
  BY <1>1, IntervalSize
<1>3. ASSUME NEW i \in 1 .. k
      PROVE  Rank(i) = i
  <2> HIDE DEF named
  <2>1. {j \in named : j <= i} = 1 .. i
    BY <1>1
  <2>2. Rank(i) = Cardinality(1 .. i)
    BY <2>1, Zenon
  <2>3. i \in Nat
    OBVIOUS
  <2> HIDE DEF Rank
  <2> QED
    BY <2>2, <2>3, IntervalSize
<1>4. ASSUME NEW r \in 1 .. k
      PROVE  (CHOOSE i \in named : Rank(i) = r) = r
  <2> HIDE DEF Rank, named
  <2> QED
    BY <1>1, <1>3
<1>5. Requests(Gathered(s)) =
        [r \in 1 .. Cardinality(named) |-> calls[CHOOSE i \in named : Rank(i) = r]]
  BY DEF Requests
<1> HIDE DEF named, Rank
<1>6. Requests(Gathered(s)) = [r \in 1 .. k |-> calls[r]]
  BY <1>2, <1>4, <1>5
<1> QED
  BY <1>6

\* The client has heard a part of the reply, and all of it when the stream was not cut short.
LEMMA ClientHeard ==
  ASSUME IInv
  PROVE  \E s : /\ Spoken(s) /\ client = Gathered(s)
                /\ phase = "completed" /\ connection = "closed" => s.end
<1>1. CASE phase = "completed"
  BY <1>1 DEF IInv, HeardInv, StageInv
<1>2. CASE phase # "completed"
  <2>1. PICK n \in Nat : \E words, h : Story(client, n, words, h, said)
    BY <1>2 DEF IInv, Pending
  <2>2. PICK words, h : Story(client, n, words, h, said)
    BY <2>1
  <2>3. 0 \in 0 .. n
    OBVIOUS
  <2>4. Spoken(h[0]) /\ client = Gathered(h[0])
    BY <2>2, <2>3 DEF Story
  <2> QED
    BY <1>2, <2>4
<1> QED
  BY <1>1, <1>2

LEMMA InvariantSuffices == IInv => StreamedMatchesWhole
<1> SUFFICES ASSUME IInv
             PROVE  StreamedMatchesWhole
  OBVIOUS
<1>1. reply \in Replies /\ StageInv
  BY DEF IInv
<1>2. PICK s : /\ Spoken(s) /\ client = Gathered(s)
               /\ phase = "completed" /\ connection = "closed" => s.end
  BY ClientHeard
<1>3. /\ reply.text \in Nat /\ Len(reply.args) \in Nat
      /\ Calls = 1 .. Len(reply.args)
      /\ \A c \in Calls : c \in Nat /\ reply.args[c] \in Nat
  BY <1>1, ReplyFacts
<1>4. PICK k \in 0 .. Len(reply.args) :
           /\ Opening(s) = 1 .. k
           /\ k \in Nat
           /\ Gathered(s).calls = [c \in 1 .. k |-> Call(c, Parts(s, c))]
           /\ \A c \in 1 .. k : c \in Calls /\ c \in Nat /\ Parts(s, c) \in 0 .. reply.args[c]
  BY <1>1, <1>2, GatheredCalls
<1>5. Requests(client) = [c \in 1 .. k |-> Call(c, Parts(s, c))]
  BY <1>1, <1>2, <1>4, RequestsAll
<1>6. Streamed.calls = [c \in 1 .. k |-> [name |-> c, args |-> Upto(Parts(s, c))]]
  <2>1. DOMAIN Requests(client) = 1 .. k
    BY <1>5
  <2>2. \A c \in 1 .. k : /\ Requests(client)[c].name = c
                          /\ Requests(client)[c].args = Upto(Parts(s, c))
    BY <1>5, CallFields
  <2> QED
    BY <2>1, <2>2 DEF Streamed
<1>7. /\ Streamed.text = Upto(s.text) /\ Streamed.finish = s.end /\ Streamed.usage = Usage(s)
      /\ Streamed = [text |-> Streamed.text, calls |-> Streamed.calls,
                     finish |-> Streamed.finish, usage |-> Streamed.usage]
  BY <1>2 DEF Streamed, Gathered
<1>8. /\ Whole.text = Upto(reply.text)
      /\ Whole.calls = [c \in Calls |-> [name |-> c, args |-> Upto(reply.args[c])]]
  BY DEF Whole, Calls
<1>9. s.text \in Nat /\ s.text <= reply.text
  BY <1>2 DEF Spoken, Progress
<1>10. ASSUME phase = "completed", connection = "closed"
       PROVE  Streamed = Whole
  <2>1. /\ s.end /\ s.begin /\ s.text = reply.text
        /\ \A c \in Calls : s.calls[c] > reply.args[c]
    BY <1>2, <1>10 DEF Spoken
  <2>2. s.end = TRUE /\ s.begin = TRUE
    BY <1>2, <2>1 DEF Spoken, Progress
  <2>3. Opening(s) = Calls
    BY <1>2, <1>3, <2>1 DEF Opening, Spoken, Progress
  <2>4. \A c \in Calls : Parts(s, c) = reply.args[c]
    BY <2>1 DEF Parts
  <2>5. Streamed.calls = Whole.calls
    BY <1>4, <1>6, <1>8, <2>3, <2>4
  <2>6. Usage(s) = {"input", "output"}
    BY <2>2 DEF Usage
  <2>7. Whole = [text |-> Upto(reply.text), calls |-> Whole.calls, finish |-> TRUE,
                 usage |-> {"input", "output"}]
    BY DEF Whole
  <2> QED
    BY <1>7, <2>1, <2>2, <2>5, <2>6, <2>7
<1>11. IsPrefix(Streamed.text, Whole.text)
  BY <1>3, <1>7, <1>8, <1>9, UptoPrefix
<1>12. /\ Len(Streamed.calls) <= Len(Whole.calls)
       /\ DOMAIN Streamed.calls = 1 .. k
  BY <1>3, <1>4, <1>6, <1>8, SequenceOf
<1>13. ASSUME NEW c \in 1 .. k
       PROVE  /\ Streamed.calls[c].name = c
              /\ IsPrefix(Streamed.calls[c].args, Whole.calls[c].args)
  <2>1. /\ Streamed.calls[c].name = c
        /\ Streamed.calls[c].args = Upto(Parts(s, c))
    BY <1>6
  <2>2. Whole.calls[c].args = Upto(reply.args[c])
    BY <1>4, <1>8
  <2>3. /\ Parts(s, c) \in Nat /\ reply.args[c] \in Nat
        /\ Parts(s, c) <= reply.args[c]
    BY <1>3, <1>4
  <2>4. IsPrefix(Upto(Parts(s, c)), Upto(reply.args[c]))
    BY <2>3, UptoPrefix
  <2> QED
    BY <2>1, <2>2, <2>4
<1>14. phase \in {"limited", "failed"} => client = Fresh
  BY <1>1 DEF StageInv
<1> QED
  BY <1>10, <1>11, <1>12, <1>13, <1>14 DEF StreamedMatchesWhole

\* Whatever the provider says and wherever the network cuts it, what postSse has put
\* together is what was said up to a word, and the buffer and the wire are the records of
\* the words that follow.
THEOREM StreamInvariant == Spec => []IInv
  BY InitInvariant, NextInvariant, PTL DEF Spec

\* However the reply is cut into chunks and its fragments are interleaved, a stream that was
\* sent to its end gives the result of the unstreamed chat, and one that ended early a part
\* of it, in order and with no fragment twice (postSse and the three stream normalizers).
THEOREM StreamIsWhole == Spec => []StreamedMatchesWhole
  BY StreamInvariant, InvariantSuffices, PTL
=============================================================================
