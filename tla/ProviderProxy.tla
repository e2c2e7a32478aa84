----------------------------- MODULE ProviderProxy -----------------------------
(***************************************************************************)
(* Chats through the provider proxy and the two ledger files they share:   *)
(* the usage ledger with its daily totals, and the limit ledger with the   *)
(* retry windows of providers that answered 429.                           *)
(*                                                                         *)
(* A chat chooses its provider and checks its budget, sends its request,   *)
(* and touches the ledgers again when the answer is there; in between      *)
(* other chats do the same.  The chats of the API server share a process,  *)
(* a chat of the CLI is a process of its own.  The code around an await is *)
(* atomic for the chats of one process only: a ledger is read, then its    *)
(* file is truncated, then written, and another process can come between.  *)
(* A truncated file reads as an empty ledger.                              *)
(*                                                                         *)
(* A budget comes with the request: a chat may carry another one than the  *)
(* chat before it, or none, and is then checked against other limits or    *)
(* not at all, though its usage is recorded like any other.                *)
(*                                                                         *)
(* Both ledger paths are configured.  Plain and streamed chats treat the   *)
(* ledgers alike and are not distinguished.  All chats ask for one model;  *)
(* the answer may name it differently.  Tokens are the total tokens.       *)
(***************************************************************************)
EXTENDS Integers, Sequences, FiniteSets, FiniteSetsExt

CONSTANTS Chats,        \* chats that can go on at the same time
          Server,       \* the chats of them that the API server executes
          Providers,    \* the providers with a configured credential
          Candidates,   \* the candidate lists of requests
          LimitStates,  \* the providers limit_state of requests calls limited
          Budgets,      \* usage_budget of requests: max_daily_requests and
                        \* max_daily_total_tokens, 0 for a limit that is not set
          Estimates,    \* usage_budget.estimated_total_tokens of requests
          Tokens,       \* what an answer can report as its total tokens
          Retries,      \* what a 429 can say in retry-after, 0 for nothing
          Aliases,      \* the other names answers may give the model
          DayLength,    \* ticks of the clock in a day
          MaxTime,      \* bound: ticks of the clock
          MaxSent,      \* bound: requests sent
          MaxFaults     \* bound: processes that die and ledger writes that fail

ASSUME ChatsAssumption  == IsFiniteSet(Chats) /\ Server \subseteq Chats
ASSUME BudgetAssumption == /\ Budgets \subseteq [requests : Nat, tokens : Nat]
                           /\ Estimates \subseteq Nat /\ Tokens \subseteq Nat
                           /\ IsFiniteSet(Tokens) /\ Tokens # {}
ASSUME LimitAssumption  == Retries \subseteq Nat /\ DayLength \in Nat \ {0}
ASSUME ProxyBounds      == MaxTime \in Nat /\ MaxSent \in Nat /\ MaxFaults \in Nat
ASSUME ModelAssumption  == "asked" \notin Aliases

VARIABLES now,        \* the clock
          ledger,     \* the contents of the two files
          chat,       \* chat -> where it is
          answered,   \* what the upstream has served, by the key usage is kept under
          spent,      \* what of it went to chats as strict as a budget
          window,     \* provider -> end of the newest recorded retry window
          damaged,    \* the files of which a write was lost or a torn state was read
          sent,       \* number of requests sent
          faults

vars == <<now, ledger, chat, answered, spent, window, damaged, sent, faults>>

-----------------------------------------------------------------------------
Models == {"asked"} \cup Aliases

\* dayKey
Day(t) == t \div DayLength
Days   == Day(0) .. Day(MaxTime)

\* Usage is kept by provider, model and day.
Keys   == Providers \X Models \X Days
Totals == [requests : Nat, tokens : Nat]
Usage  == [Keys -> Totals]
Limits == [Providers -> Nat]
Files  == {"usage", "limits"}

Zero  == [requests |-> 0, tokens |-> 0]
NoBudget == Zero
\* emptyLedgerState of the two ledgers
Empty == [usage  |-> [k \in Keys |-> Zero],
          limits |-> [p \in Providers |-> 0]]

\* A chat that records has the new contents of its file at hand.
Chat == [stage : {"idle", "waiting", "read", "truncated"},
         provider : Providers \cup {"none"}, budget : Budgets \cup {NoBudget}, file : Files \cup {"none"},
         content : Usage \cup Limits \cup {<< >>}]

Quiet == [stage |-> "idle", provider |-> "none", budget |-> NoBudget,
          file |-> "none", content |-> << >>]

Awaiting(p, budget) == [stage |-> "waiting", provider |-> p, budget |-> budget,
                        file |-> "none", content |-> << >>]

Init == /\ now = 0
        /\ ledger = Empty
        /\ chat = [c \in Chats |-> Quiet]
        /\ answered = Empty.usage
        /\ spent = [k \in Keys |-> [b \in Budgets |-> Zero]]
        /\ window = Empty.limits
        /\ damaged = {}
        /\ sent = 0
        /\ faults = 0

-----------------------------------------------------------------------------
SameProcess(c, d) == c = d \/ {c, d} \subseteq Server

Recording(c) == chat[c].stage \in {"read", "truncated"}

\* No chat of c's process is in the middle of its synchronous code.
Free(c) == \A d \in Chats : SameProcess(c, d) => ~Recording(d)

\* Some chat is at work on a file; it belongs to another process then.
Busy(file)  == \E d \in Chats : Recording(d) /\ chat[d].file = file
Torn(file)  == \E d \in Chats : chat[d].stage = "truncated" /\ chat[d].file = file

\* Mutated Limited: what the request says replaces what the ledger knows.
LimitedByRequest(p, said) == IF said # {} THEN p \in said ELSE ledger.limits[p] > now

\* mergeLimitStates: limited by the ledger or by the request's own limit_state.
Limited(p, said) == p \in said \/ ledger.limits[p] > now

\* planProviderProxyRoute selects p: the first candidate that is ready.  A candidate
\* without a credential, or unknown to the catalogue, is passed over.
Selects(list, said, p) ==
  \E i \in DOMAIN list :
    /\ list[i] = p
    /\ p \in Providers /\ ~Limited(p, said)
    /\ \A j \in 1 .. i - 1 : list[j] \in Providers => Limited(list[j], said)

\* Mutated WouldExceed: the current totals are compared, not the projected ones.
WouldExceedNow(totals, budget, estimate) ==
  \/ budget.requests > 0 /\ totals.requests > budget.requests
  \/ budget.tokens > 0 /\ totals.tokens > budget.tokens

\* hasUsageBudget and wouldExceedBudget: a limit that is not set is not checked.
WouldExceed(totals, budget, estimate) ==
  \/ budget.requests > 0 /\ totals.requests + 1 > budget.requests
  \/ budget.tokens > 0 /\ totals.tokens + estimate > budget.tokens

\* prepareProviderProxyChat and the sending of the request, up to the await.  A
\* request that is refused on the way changes nothing.
Send(c) ==
  /\ chat[c].stage = "idle" /\ Free(c)
  /\ sent < MaxSent
  /\ \E list \in Candidates, said \in LimitStates,
        budget \in Budgets, estimate \in Estimates :
       \E p \in Providers :
         /\ Selects(list, said, p)
         /\ ~WouldExceed(ledger.usage[<<p, "asked", Day(now)>>], budget, estimate)
         /\ chat' = [chat EXCEPT ![c] = Awaiting(p, budget)]
  /\ sent' = sent + 1
  /\ damaged' = damaged \cup {file \in Files : Torn(file)}
  /\ UNCHANGED <<now, ledger, answered, spent, window, faults>>

\* Mutated Added: the estimate is charged although the answer has been counted.
AddedTwice(totals, tokens) ==
  [requests |-> totals.requests + 2, tokens |-> totals.tokens + tokens]

\* Mutated Added: the tokens are added up, the request is not counted.
AddedTokensOnly(totals, tokens) ==
  [requests |-> totals.requests, tokens |-> totals.tokens + tokens]

\* recordUsage of one answer in a day's totals
Added(totals, tokens) ==
  [requests |-> totals.requests + 1, tokens |-> totals.tokens + tokens]

\* Budget a sets every limit that b sets, and none of them higher.
AsStrict(a, b) == /\ b.requests > 0 => a.requests \in 1 .. b.requests
                  /\ b.tokens > 0 => a.tokens \in 1 .. b.tokens

\* The ledger of c is read and c has its new contents at hand.  Two chats that read
\* before either has written lose one of the writes.
Read(c, file, content) ==
  /\ chat' = [chat EXCEPT ![c] = [chat[c] EXCEPT !.stage = "read", !.file = file,
                                                 !.content = content]]
  /\ damaged' = damaged \cup IF Busy(file) THEN {file} ELSE {}

\* A 2xx answer arrives, completed or requiring action; usage is recorded under the
\* name of the model in the answer and the day of the answer.
Completed(c) ==
  /\ chat[c].stage = "waiting" /\ Free(c)
  /\ \E model \in Models, tokens \in Tokens :
       LET key == <<chat[c].provider, model, Day(now)>>
       IN  /\ Read(c, "usage", [ledger.usage EXCEPT ![key] = Added(@, tokens)])
           /\ answered' = [answered EXCEPT ![key] = [requests |-> @.requests + 1,
                                                     tokens |-> @.tokens + tokens]]
           /\ spent' = [spent EXCEPT ![key] =
                          [b \in Budgets |->
                             IF AsStrict(chat[c].budget, b)
                             THEN [requests |-> @[b].requests + 1,
                                   tokens |-> @[b].tokens + tokens]
                             ELSE @[b]]]
  /\ UNCHANGED <<now, ledger, window, sent, faults>>

\* limited_until of a retry-after that counts from now
Until(retry) == now + retry

\* A 429 arrives with a retry-after.
RateLimited(c) ==
  /\ chat[c].stage = "waiting" /\ Free(c)
  /\ \E retry \in Retries \ {0} :
       Read(c, "limits", [ledger.limits EXCEPT ![chat[c].provider] = Until(retry)])
  /\ UNCHANGED <<now, ledger, answered, spent, window, sent, faults>>

\* Any other end: a 429 without retry-after, another status, a network error, an
\* aborted request, a stream that breaks off.  The ledgers are left alone.
Failed(c) ==
  /\ chat[c].stage = "waiting" /\ Free(c)
  /\ chat' = [chat EXCEPT ![c] = Quiet]
  /\ UNCHANGED <<now, ledger, answered, spent, window, damaged, sent, faults>>

\* writeFileSync opens the file, which empties it.
Truncate(c) ==
  /\ chat[c].stage = "read"
  /\ chat' = [chat EXCEPT ![c].stage = "truncated"]
  /\ ledger' = [ledger EXCEPT ![chat[c].file] = Empty[chat[c].file]]
  /\ UNCHANGED <<now, answered, spent, window, damaged, sent, faults>>

\* writeFileSync writes; the chat returns its result.
Write(c) ==
  /\ chat[c].stage = "truncated"
  /\ ledger' = [ledger EXCEPT ![chat[c].file] = chat[c].content]
  /\ window' = IF chat[c].file = "limits"
               THEN [window EXCEPT ![chat[c].provider] = chat[c].content[chat[c].provider]]
               ELSE window
  /\ chat' = [chat EXCEPT ![c] = Quiet]
  /\ UNCHANGED <<now, answered, spent, damaged, sent, faults>>

\* The write throws: the server answers 500 and goes on.
WriteFails(c) ==
  /\ Recording(c)
  /\ faults < MaxFaults
  /\ faults' = faults + 1
  /\ damaged' = damaged \cup {chat[c].file}
  /\ chat' = [chat EXCEPT ![c] = Quiet]
  /\ UNCHANGED <<now, ledger, answered, spent, window, sent>>

\* The process of c dies with all its chats.
Die(c) ==
  /\ faults < MaxFaults
  /\ faults' = faults + 1
  /\ damaged' = damaged \cup {chat[d].file : d \in {e \in Chats : SameProcess(c, e) /\ Recording(e)}}
  /\ chat' = [d \in Chats |-> IF SameProcess(c, d) THEN Quiet ELSE chat[d]]
  /\ UNCHANGED <<now, ledger, answered, spent, window, sent>>

Tick == /\ now < MaxTime
        /\ now' = now + 1
        /\ UNCHANGED <<ledger, chat, answered, spent, window, damaged, sent, faults>>

Next == \/ Tick
        \/ \E c \in Chats : \/ Send(c)
                            \/ Completed(c) \/ RateLimited(c) \/ Failed(c)
                            \/ Truncate(c) \/ Write(c)
                            \/ WriteFails(c) \/ Die(c)

Spec == Init /\ [][Next]_vars

-----------------------------------------------------------------------------
\* Unless two processes met in the usage file or a write failed, every answer is
\* counted once, however the chats of the server overlap: in the file, or in what is
\* being written to it.
UsageIsExact ==
  "usage" \notin damaged =>
    IF Busy("usage")
    THEN \A c \in Chats : Recording(c) /\ chat[c].file = "usage" => chat[c].content = answered
    ELSE ledger.usage = answered

\* Whatever processes do to each other's files, the ledgers only ever lose: no usage
\* is counted that was not served, in the file or on its way there.
NothingIsInvented ==
  LET Served(usage) == \A k \in Keys : /\ usage[k].requests <= answered[k].requests
                                       /\ usage[k].tokens <= answered[k].tokens
  IN  /\ Served(ledger.usage)
      /\ \A c \in Chats : Recording(c) /\ chat[c].file = "usage" => Served(chat[c].content)

\* The budget is checked before the answer is counted, so chats that overlap exceed
\* it together, but by no more than all of them at once.  What a day's calls of the
\* model come to, of the chats that carried a budget or a stricter one, is bounded by
\* the last admission and the chats under way, whatever the other chats carried: a
\* chat without a budget spends from the others, never the other way round.
OverrunIsBounded ==
  "usage" \notin damaged =>
    \A p \in Providers, d \in Days, b \in Budgets :
      LET used == spent[<<p, "asked", d>>][b]
          n == Cardinality(Chats)
      IN  /\ b.requests > 0 => used.requests <= b.requests - 1 + n
          /\ b.tokens > 0 /\ used.requests > 0 =>
               used.tokens <= b.tokens - Min(Estimates) + n * Max(Tokens)

\* A provider is not called again before the newest retry window on record is over,
\* by whichever chat it was recorded, unless that record was lost or torn.
WindowsAreRespected ==
  [][\A c \in Chats :
       chat[c].stage = "idle" /\ chat'[c].stage = "waiting" /\ "limits" \notin damaged' =>
         window[chat'[c].provider] <= now]_chat

\* docs/ARCHITECTURE.md: usage_budget enforces caps before upstream calls.  One chat
\* after the other, no provider serves more calls a day to chats as strict as a budget
\* than its max_daily_requests.
BudgetCapsCalls ==
  \A p \in Providers, d \in Days, b \in Budgets :
    b.requests > 0 =>
      MapThenSumSet(LAMBDA m : spent[<<p, m, d>>][b].requests, Models) <= b.requests

=============================================================================
