-------------------------- MODULE ProviderProxyProofs --------------------------
(***************************************************************************)
(* Proofs about ProviderProxy for any chats, providers, budgets, answers   *)
(* and bounds: what the two ledgers hold while chats of several processes  *)
(* are on their way to them.                                               *)
(*                                                                         *)
(* A chat that has read a ledger carries the next contents of the file, so *)
(* the invariant speaks of the file and of what is being carried to it.    *)
(* It says nothing of a file once a write was lost or a torn state read    *)
(* ("damaged"), except that no usage is invented.                          *)
(***************************************************************************)
EXTENDS ProviderProxy, FiniteSetTheorems, WellFoundedInduction, TLAPS

\* The contents of a file are of the kind of the file.
Contents(file) == IF file = "usage" THEN Usage ELSE Limits

TypeInv == /\ now \in Nat /\ now <= MaxTime
           /\ ledger \in [usage : Usage, limits : Limits]
           /\ chat \in [Chats -> Chat]
           /\ answered \in Usage
           /\ spent \in [Keys -> [Budgets -> Totals]]
           /\ window \in Limits
           /\ damaged \subseteq Files
           /\ sent \in Nat
           /\ faults \in Nat
           /\ \A c \in Chats :
                /\ chat[c].stage # "idle" => chat[c].provider \in Providers
                /\ Recording(c) => /\ chat[c].file \in Files
                                   /\ chat[c].content \in Contents(chat[c].file)

\* A file that is not damaged has one chat at work on it at most.
SoleInv ==
  \A c, d \in Chats :
    /\ Recording(c) /\ Recording(d)
    /\ chat[c].file = chat[d].file /\ chat[c].file \notin damaged
    => c = d

\* No total of this usage exceeds what was served.
Served(usage) == \A k \in Keys : /\ usage[k].requests <= answered[k].requests
                                 /\ usage[k].tokens <= answered[k].tokens

ServedInv == /\ Served(ledger.usage)
             /\ \A c \in Chats :
                  Recording(c) /\ chat[c].file = "usage" => Served(chat[c].content)

\* The usage file lags behind by the answer that is on its way, and by no more.
Lags(usage) == \A k \in Keys : /\ answered[k].requests <= usage[k].requests + 1
                               /\ answered[k].tokens <= usage[k].tokens + Max(Tokens)

UsageInv ==
  "usage" \notin damaged =>
    /\ ~Busy("usage") => ledger.usage = answered
    /\ \A c \in Chats :
         Recording(c) /\ chat[c].file = "usage" =>
           /\ chat[c].content = answered
           /\ chat[c].stage = "read" => Lags(ledger.usage)

\* The limit file holds the windows on record, or is getting one more.
WindowInv ==
  "limits" \notin damaged =>
    /\ ~Torn("limits") => ledger.limits = window
    /\ \A c \in Chats :
         Recording(c) /\ chat[c].file = "limits" =>
           chat[c].content =
             [window EXCEPT ![chat[c].provider] = chat[c].content[chat[c].provider]]

\* The chats as strict as b that wait for an answer of p.
Waiting(p, b) == {c \in Chats : /\ chat[c].stage = "waiting" /\ chat[c].provider = p
                                /\ AsStrict(chat[c].budget, b)}

\* Some estimate fits the token limit of b.
Fits(b) == b.tokens > 0 /\ Estimates # {} /\ Min(Estimates) <= b.tokens

\* With w answers to come for chats as strict as b, what such chats have spent in a
\* day stays within the overrun of all chats.
Within(totals, b, w) ==
  /\ b.requests > 0 => totals.requests + w <= b.requests - 1 + Cardinality(Chats)
  /\ Fits(b) =>
       totals.tokens + w * Max(Tokens)
         <= b.tokens - Min(Estimates) + Cardinality(Chats) * Max(Tokens)

DayInv ==
  "usage" \notin damaged =>
    \A p \in Providers, d \in Days, b \in Budgets :
      LET totals == spent[<<p, "asked", d>>][b]
      IN  /\ d > Day(now) => totals = Zero
          /\ d = Day(now) => Within(totals, b, Cardinality(Waiting(p, b)))
          /\ d < Day(now) => Within(totals, b, 0)

\* Without an estimate that fits the token limit of a budget no chat as strict is sent.
FitInv ==
  \A b \in Budgets :
    b.tokens > 0 =>
      \/ Fits(b)
      \/ /\ \A k \in Keys : spent[k][b] = Zero
         /\ \A c \in Chats : chat[c].stage = "waiting" => ~AsStrict(chat[c].budget, b)

\* What went to chats of one strictness is part of what was served.
SpentInv ==
  \A k \in Keys, b \in Budgets : /\ spent[k][b].requests <= answered[k].requests
                                 /\ spent[k][b].tokens <= answered[k].tokens

IInv == /\ TypeInv /\ SoleInv /\ ServedInv /\ UsageInv
        /\ WindowInv /\ DayInv /\ FitInv /\ SpentInv

-----------------------------------------------------------------------------
\* Products with a number of chats.
LEMMA Times ==
  ASSUME NEW a \in Nat, NEW b \in Nat, NEW t \in Nat
  PROVE  /\ a * t \in Nat
         /\ (a + 1) * t = a * t + t
         /\ a <= b => a * t <= b * t
         /\ 0 * t = 0
<1>1. a * t \in Nat /\ (a + 1) * t = a * t + t /\ 0 * t = 0
  OBVIOUS
<1>2. ASSUME a <= b PROVE a * t <= b * t
  <2>1. b - a \in Nat /\ b = a + (b - a)
    BY <1>2
  <2>2. b * t = a * t + (b - a) * t
    BY <2>1
  <2>3. (b - a) * t \in Nat
    BY <2>1
  <2>4. a * t \in Nat
    OBVIOUS
  <2> QED
    BY <2>2, <2>3, <2>4
<1> QED
  BY <1>1, <1>2

\* Every set of numbers has a smallest one.
LEMMA LeastNumber ==
  ASSUME NEW S \in SUBSET Nat, S # {}
  PROVE  \E x \in S : \A y \in S : x <= y
<1>1. PICK x \in S : \A y \in S : <<y, x>> \notin OpToRel(<, Nat)
  BY WFMin, NatLessThanWellFounded
<1>2. \A y \in S : ~(y < x)
  BY <1>1, Zenon DEF OpToRel
<1>3. \A y \in S : x <= y
  BY <1>2
<1> QED
  BY <1>3

\* The largest answer exists: one with the fewest larger answers has none.
LEMMA LargestAnswer == Max(Tokens) \in Nat /\ \A t \in Tokens : t <= Max(Tokens)
<1> DEFINE Larger(x) == {y \in Tokens : y > x}
           Counts    == {Cardinality(Larger(x)) : x \in Tokens}
<1>1. Tokens \subseteq Nat /\ IsFiniteSet(Tokens) /\ Tokens # {}
  BY BudgetAssumption
<1>2. \A x \in Tokens : IsFiniteSet(Larger(x)) /\ Cardinality(Larger(x)) \in Nat
  <2> TAKE x \in Tokens
  <2>1. Larger(x) \in SUBSET Tokens
    OBVIOUS
  <2> HIDE DEF Larger
  <2> QED
    BY <1>1, <2>1, FS_Subset, FS_CardinalityType
<1>3. PICK n \in Counts : \A k \in Counts : n <= k
  <2>1. Counts \in SUBSET Nat /\ Counts # {}
    BY <1>1, <1>2
  <2> HIDE DEF Counts
  <2> QED
    BY <2>1, LeastNumber
<1>4. PICK x \in Tokens : n = Cardinality(Larger(x))
  OBVIOUS
<1>5. \A y \in Tokens : x >= y
  <2> SUFFICES ASSUME NEW y \in Tokens, y > x PROVE FALSE
    BY <1>1
  <2>0. x \in Nat /\ y \in Nat
    BY <1>1
  <2>1. Larger(y) \in SUBSET Larger(x) /\ y \in Larger(x) /\ y \notin Larger(y)
    <3>1. \A z \in Larger(y) : z \in Larger(x)
      <4> TAKE z \in Larger(y)
      <4>1. z \in Nat /\ z > y
        BY <1>1
      <4> QED
        BY <2>0, <4>1
    <3>2. y \in Larger(x)
      OBVIOUS
    <3>3. y \notin Larger(y)
      BY <2>0
    <3> HIDE DEF Larger
    <3> QED
      BY <3>1, <3>2, <3>3
  <2>2. Cardinality(Larger(x)) <= Cardinality(Larger(y))
    BY <1>3, <1>4
  <2> HIDE DEF Larger
  <2>3. Cardinality(Larger(y)) <= Cardinality(Larger(x))
    BY <1>2, <2>1, FS_Subset
  <2>4. Cardinality(Larger(x)) = Cardinality(Larger(y))
    BY <1>2, <2>2, <2>3
  <2> QED
    BY <1>2, <2>1, <2>4, FS_Subset
<1>6. Max(Tokens) \in Tokens /\ \A y \in Tokens : Max(Tokens) >= y
  BY <1>5 DEF Max
<1> QED
  BY <1>1, <1>6

\* The smallest estimate is one of them.
LEMMA SmallestEstimate ==
  ASSUME Estimates # {}
  PROVE  Min(Estimates) \in Nat /\ \A e \in Estimates : Min(Estimates) <= e
<1>1. Estimates \in SUBSET Nat
  BY BudgetAssumption
<1>2. \E x \in Estimates : \A y \in Estimates : x <= y
  BY <1>1, LeastNumber
<1>3. Min(Estimates) \in Estimates /\ \A y \in Estimates : Min(Estimates) <= y
  BY <1>2 DEF Min
<1> QED
  BY <1>1, <1>3

\* Days follow one another.
LEMMA DayFacts ==
  ASSUME NEW t \in Nat, NEW u \in Nat, t <= u
  PROVE  Day(t) \in Nat /\ Day(t) <= Day(u)
<1>1. DayLength \in Nat \ {0}
  BY LimitAssumption
<1> DEFINE q == t \div DayLength
           r == t % DayLength
           v == u \div DayLength
           s == u % DayLength
<1>2. /\ q \in Int /\ r \in Int /\ t = DayLength * q + r /\ 0 <= r /\ r < DayLength
      /\ v \in Int /\ s \in Int /\ u = DayLength * v + s /\ 0 <= s /\ s < DayLength
  BY <1>1
<1> HIDE DEF q, r, v, s
<1>3. q >= 0
  <2> SUFFICES ASSUME q <= 0 - 1 PROVE FALSE
    BY <1>2
  <2>1. DayLength * q <= DayLength * (0 - 1)
    BY <1>1, <1>2
  <2> QED
    BY <1>1, <1>2, <2>1
<1>4. q <= v
  <2> SUFFICES ASSUME v + 1 <= q PROVE FALSE
    BY <1>2
  <2>1. DayLength * (v + 1) <= DayLength * q
    BY <1>1, <1>2
  <2>2. DayLength * (v + 1) = DayLength * v + DayLength
    BY <1>1, <1>2
  <2> QED
    BY <1>1, <1>2, <2>1, <2>2
<1> QED
  BY <1>2, <1>3, <1>4 DEF Day, q, v

-----------------------------------------------------------------------------
\* Writing a file replaces it and leaves the other alone.
LEMMA LedgerWrite ==
  ASSUME NEW l \in [usage : Usage, limits : Limits], NEW file \in Files,
         NEW x \in Contents(file)
  PROVE  LET m == [l EXCEPT ![file] = x]
         IN  /\ m \in [usage : Usage, limits : Limits]
             /\ file = "usage" => m.usage = x /\ m.limits = l.limits
             /\ file = "limits" => m.limits = x /\ m.usage = l.usage
<1>1. CASE file = "usage"
  BY <1>1 DEF Contents
<1>2. CASE file = "limits"
  BY <1>2 DEF Contents
<1> QED
  BY <1>1, <1>2 DEF Files

\* An empty ledger is well formed and counts nothing.
LEMMA EmptyFacts ==
  /\ Empty \in [usage : Usage, limits : Limits]
  /\ \A file \in Files : Empty[file] \in Contents(file)
  /\ \A k \in Keys : Empty.usage[k] = Zero
  /\ Zero \in Totals
<1>1. Zero \in Totals
  BY DEF Zero, Totals
<1>2. Empty.usage \in Usage /\ Empty.limits \in Limits
  BY <1>1 DEF Empty, Usage, Limits
<1>3. Empty \in [usage : Usage, limits : Limits]
  BY <1>1 DEF Empty, Usage, Limits
<1>4. \A file \in Files : Empty[file] \in Contents(file)
  BY <1>2 DEF Files, Contents, Empty
<1>5. \A k \in Keys : Empty.usage[k] = Zero
  BY DEF Empty
<1> QED
  BY <1>1, <1>3, <1>4, <1>5

\* The keys of today.
LEMMA TodayKey ==
  ASSUME TypeInv, NEW p \in Providers, NEW m \in Models
  PROVE  Day(now) \in Days /\ <<p, m, Day(now)>> \in Keys
<1>1. now \in Nat /\ MaxTime \in Nat /\ now <= MaxTime
  BY ProxyBounds DEF TypeInv
<1>2. /\ Day(0) \in Nat /\ Day(0) <= Day(now)
      /\ Day(now) \in Nat /\ Day(now) <= Day(MaxTime)
      /\ Day(MaxTime) \in Nat
  BY <1>1, DayFacts
<1>3. Day(now) \in Days
  BY <1>2 DEF Days
<1> QED
  BY <1>3 DEF Keys

\* The chats that wait for one provider are finitely many.
LEMMA WaitingFacts ==
  ASSUME NEW W \in SUBSET Chats
  PROVE  /\ IsFiniteSet(W)
         /\ Cardinality(W) \in Nat
         /\ Cardinality(Chats) \in Nat
         /\ Cardinality(W) <= Cardinality(Chats)
         /\ \A c \in Chats \ W :
              /\ Cardinality(W \cup {c}) = Cardinality(W) + 1
              /\ Cardinality(W) + 1 <= Cardinality(Chats)
         /\ \A c \in W : Cardinality(W \ {c}) + 1 = Cardinality(W)
         /\ \A V \in SUBSET W : Cardinality(V) \in Nat /\ Cardinality(V) <= Cardinality(W)
<1>1. IsFiniteSet(Chats)
  BY ChatsAssumption
<1>2. /\ IsFiniteSet(W)
      /\ Cardinality(W) \in Nat
      /\ Cardinality(Chats) \in Nat
      /\ Cardinality(W) <= Cardinality(Chats)
  BY <1>1, FS_Subset, FS_CardinalityType
<1>3. \A c \in Chats \ W :
        /\ Cardinality(W \cup {c}) = Cardinality(W) + 1
        /\ Cardinality(W) + 1 <= Cardinality(Chats)
  <2> TAKE c \in Chats \ W
  <2>1. Cardinality(W \cup {c}) = Cardinality(W) + 1
    BY <1>2, FS_AddElement
  <2>2. W \cup {c} \in SUBSET Chats
    OBVIOUS
  <2>3. Cardinality(W \cup {c}) <= Cardinality(Chats)
    BY <1>1, <2>2, FS_Subset
  <2> QED
    BY <2>1, <2>3
<1>4. \A c \in W : Cardinality(W \ {c}) + 1 = Cardinality(W)
  <2> TAKE c \in W
  <2>1. Cardinality(W \ {c}) = Cardinality(W) - 1
    BY <1>2, FS_RemoveElement
  <2> QED
    BY <1>2, <2>1
<1>5. \A V \in SUBSET W : Cardinality(V) \in Nat /\ Cardinality(V) <= Cardinality(W)
  BY <1>2, FS_Subset, FS_CardinalityType
<1> QED
  BY <1>2, <1>3, <1>4, <1>5

\* Fewer answers to come leave a day within its bound.
LEMMA WithinFewer ==
  ASSUME NEW b \in Budgets, NEW totals \in Totals, NEW w \in Nat, NEW v \in Nat,
         v <= w, Within(totals, b, w)
  PROVE  Within(totals, b, v)
<1> DEFINE T  == Max(Tokens)
           n  == Cardinality(Chats)
           vt == v * T
           wt == w * T
           nt == n * T
<1>1. b.requests \in Nat /\ b.tokens \in Nat /\ n \in Nat
  BY BudgetAssumption, ChatsAssumption, FS_CardinalityType
<1>2. vt \in Nat /\ wt \in Nat /\ nt \in Nat /\ vt <= wt
  <2>1. T \in Nat
    BY LargestAnswer
  <2> HIDE DEF T, n
  <2> QED
    BY <1>1, <2>1, Times
<1>3. totals.requests \in Nat /\ totals.tokens \in Nat
  BY DEF Totals
<1>4. /\ b.requests > 0 => totals.requests + w <= b.requests - 1 + n
      /\ Fits(b) => totals.tokens + wt <= b.tokens - Min(Estimates) + nt
  BY DEF Within
<1>5. Fits(b) => Min(Estimates) \in Nat
  BY SmallestEstimate DEF Fits
<1> HIDE DEF T, n, vt, wt, nt
<1>6. /\ b.requests > 0 => totals.requests + v <= b.requests - 1 + n
      /\ Fits(b) => totals.tokens + vt <= b.tokens - Min(Estimates) + nt
  BY <1>1, <1>2, <1>3, <1>4, <1>5
<1> QED
  BY <1>6 DEF Within, T, n, vt, nt

\* The answer a chat waited for takes the room that was kept for it.
LEMMA WithinAnswer ==
  ASSUME NEW b \in Budgets, NEW totals \in Totals, NEW more \in Totals, NEW v \in Nat,
         NEW tokens \in Nat, tokens <= Max(Tokens),
         more.requests = totals.requests + 1,
         more.tokens = totals.tokens + tokens,
         Within(totals, b, v + 1)
  PROVE  Within(more, b, v)
<1> DEFINE T  == Max(Tokens)
           n  == Cardinality(Chats)
           vt == v * T
           wt == (v + 1) * T
           nt == n * T
<1>1. b.requests \in Nat /\ b.tokens \in Nat /\ n \in Nat
  BY BudgetAssumption, ChatsAssumption, FS_CardinalityType
<1>2. T \in Nat /\ vt \in Nat /\ wt = vt + T /\ nt \in Nat /\ tokens <= T
  <2>1. T \in Nat /\ tokens <= T
    BY LargestAnswer
  <2> HIDE DEF T, n
  <2> QED
    BY <1>1, <2>1, Times
<1>3. /\ totals.requests \in Nat /\ totals.tokens \in Nat
      /\ more.requests \in Nat /\ more.tokens \in Nat
  BY DEF Totals
<1>4. /\ b.requests > 0 => totals.requests + (v + 1) <= b.requests - 1 + n
      /\ Fits(b) => totals.tokens + wt <= b.tokens - Min(Estimates) + nt
  BY DEF Within
<1>5. Fits(b) => Min(Estimates) \in Nat
  BY SmallestEstimate DEF Fits
<1> HIDE DEF T, n, vt, wt, nt
<1>6. /\ b.requests > 0 => more.requests + v <= b.requests - 1 + n
      /\ Fits(b) => more.tokens + vt <= b.tokens - Min(Estimates) + nt
  BY <1>1, <1>2, <1>3, <1>4, <1>5
<1> QED
  BY <1>6 DEF Within, T, n, vt, nt

\* A day on which nothing was served yet is within its bound, whoever waits.
LEMMA NewDay ==
  ASSUME NEW b \in Budgets, NEW W \in SUBSET Chats
  PROVE  Within(Zero, b, Cardinality(W)) /\ Within(Zero, b, 0)
<1> DEFINE T  == Max(Tokens)
           n  == Cardinality(Chats)
           w  == Cardinality(W)
           wt == w * T
           nt == n * T
<1>1. b.requests \in Nat /\ b.tokens \in Nat
  BY BudgetAssumption
<1>2. w \in Nat /\ n \in Nat /\ w <= n
  BY WaitingFacts
<1>3. wt \in Nat /\ nt \in Nat /\ wt <= nt
  <2>1. T \in Nat
    BY LargestAnswer
  <2> HIDE DEF T, n, w
  <2> QED
    BY <1>2, <2>1, Times
<1>4. Fits(b) => Min(Estimates) \in Nat /\ Min(Estimates) <= b.tokens
  BY SmallestEstimate DEF Fits
<1>5. Zero.requests = 0 /\ Zero.tokens = 0
  BY DEF Zero
<1> HIDE DEF T, n, w, wt, nt
<1>6. /\ b.requests > 0 => 0 + w <= b.requests - 1 + n
      /\ Fits(b) => 0 + wt <= b.tokens - Min(Estimates) + nt
  BY <1>1, <1>2, <1>3, <1>4
<1>7. Within(Zero, b, w)
  BY <1>5, <1>6 DEF Within, T, n, wt, nt
<1>8. Within(Zero, b, 0)
  BY <1>2, <1>7, WithinFewer, EmptyFacts
<1> QED
  BY <1>7, <1>8 DEF w

-----------------------------------------------------------------------------
\* The next state has no chat at a file that was not there, and a file from which a
\* chat has gone without writing is damaged.
LEMMA FewerRecording ==
  ASSUME IInv, UNCHANGED <<ledger, answered, window>>, damaged \subseteq damaged',
         \A d \in Chats : Recording(d)' => Recording(d) /\ chat'[d] = chat[d],
         \A d \in Chats : Recording(d) /\ ~Recording(d)' => chat[d].file \in damaged'
  PROVE  SoleInv' /\ ServedInv' /\ UsageInv' /\ WindowInv'
<1>1. SoleInv'
  BY DEF IInv, SoleInv
<1>2. ServedInv'
  BY DEF IInv, ServedInv, Served
<1>3. UsageInv'
  <2> SUFFICES ASSUME "usage" \notin damaged'
               PROVE  /\ ~Busy("usage")' => ledger.usage = answered
                      /\ \A c \in Chats :
                           Recording(c)' /\ chat'[c].file = "usage" =>
                             /\ chat'[c].content = answered
                             /\ chat'[c].stage = "read" => Lags(ledger.usage)
    BY DEF UsageInv, Lags
  <2>1. ~Busy("usage")' => ~Busy("usage")
    BY DEF Busy
  <2> QED
    BY <2>1 DEF IInv, UsageInv
<1>4. WindowInv'
  <2> SUFFICES ASSUME "limits" \notin damaged'
               PROVE  /\ ~Torn("limits")' => ledger.limits = window
                      /\ \A c \in Chats :
                           Recording(c)' /\ chat'[c].file = "limits" =>
                             chat'[c].content = [window EXCEPT ![chat'[c].provider] =
                                                   chat'[c].content[chat'[c].provider]]
    BY DEF WindowInv
  <2>1. ~Torn("limits")' => ~Torn("limits")
    BY DEF Torn, Recording
  <2> QED
    BY <2>1 DEF IInv, WindowInv
<1> QED
  BY <1>1, <1>2, <1>3, <1>4

\* The next state waits for no answer that was not awaited.
LEMMA FewerWaiting ==
  ASSUME IInv, UNCHANGED <<now, answered, spent>>, damaged \subseteq damaged',
         \A d \in Chats : chat'[d].stage = "waiting" =>
           /\ chat[d].stage = "waiting" /\ chat'[d].provider = chat[d].provider
           /\ chat'[d].budget = chat[d].budget
  PROVE  DayInv' /\ FitInv' /\ SpentInv'
<1>1. \A p \in Providers, b \in Budgets : Waiting(p, b)' \in SUBSET Waiting(p, b)
  BY DEF Waiting, AsStrict
<1>2. DayInv'
  <2> SUFFICES ASSUME "usage" \notin damaged', NEW p \in Providers, NEW d \in Days,
                      NEW b \in Budgets
               PROVE  /\ d > Day(now) => spent[<<p, "asked", d>>][b] = Zero
                      /\ d = Day(now) => Within(spent[<<p, "asked", d>>][b], b,
                                                Cardinality(Waiting(p, b)'))
                      /\ d < Day(now) => Within(spent[<<p, "asked", d>>][b], b, 0)
    BY DEF DayInv
  <2> DEFINE totals == spent[<<p, "asked", d>>][b]
  <2>1. /\ d > Day(now) => totals = Zero
        /\ d = Day(now) => Within(totals, b, Cardinality(Waiting(p, b)))
        /\ d < Day(now) => Within(totals, b, 0)
    BY DEF IInv, DayInv
  <2>2. totals \in Totals
    BY DEF IInv, TypeInv, Usage, Keys, Models
  <2>3. /\ Cardinality(Waiting(p, b)') \in Nat
        /\ Cardinality(Waiting(p, b)) \in Nat
        /\ Cardinality(Waiting(p, b)') <= Cardinality(Waiting(p, b))
    <3>1. Waiting(p, b) \in SUBSET Chats
      BY DEF Waiting
    <3> QED
      BY <1>1, <3>1, WaitingFacts
  <2> HIDE DEF totals
  <2>4. Within(totals, b, Cardinality(Waiting(p, b)))
          => Within(totals, b, Cardinality(Waiting(p, b)'))
    BY <2>2, <2>3, WithinFewer
  <2> QED
    BY <2>1, <2>4 DEF totals
<1>3. FitInv'
  BY DEF IInv, FitInv, AsStrict
<1>4. SpentInv'
  BY DEF IInv, SpentInv
<1> QED
  BY <1>2, <1>3, <1>4

-----------------------------------------------------------------------------
LEMMA InitInv == Init => IInv
<1> SUFFICES ASSUME Init PROVE IInv
  OBVIOUS
<1>1. /\ now = 0
      /\ ledger = Empty
      /\ chat = [c \in Chats |-> Quiet]
      /\ answered = Empty.usage
      /\ spent = [k \in Keys |-> [b \in Budgets |-> Zero]]
      /\ window = Empty.limits
      /\ damaged = {}
      /\ sent = 0
      /\ faults = 0
  BY DEF Init
<1>2. /\ Quiet \in Chat
      /\ Quiet.stage = "idle"
  BY DEF Quiet, Chat
<1>3. \A c \in Chats : chat[c].stage = "idle" /\ ~Recording(c)
  BY <1>1, <1>2 DEF Recording
<1>4. TypeInv
  BY <1>1, <1>2, <1>3, EmptyFacts, ProxyBounds DEF TypeInv
<1>5. SoleInv
  BY <1>3 DEF SoleInv
<1>6. ServedInv
  <2>1. \A k \in Keys : ledger.usage[k] = Zero /\ answered[k] = Zero
    BY <1>1, EmptyFacts
  <2>2. Served(ledger.usage)
    BY <2>1 DEF Served, Zero
  <2> QED
    BY <1>3, <2>2 DEF ServedInv
<1>7. UsageInv /\ WindowInv
  BY <1>1, <1>3 DEF UsageInv, WindowInv
<1>8. DayInv
  <2> SUFFICES ASSUME NEW p \in Providers, NEW d \in Days,
                      NEW b \in Budgets
               PROVE  /\ spent[<<p, "asked", d>>][b] = Zero
                      /\ Within(Zero, b, Cardinality(Waiting(p, b)))
                      /\ d < Day(now) => Within(Zero, b, 0)
    BY DEF DayInv
  <2>1. spent[<<p, "asked", d>>][b] = Zero
    BY <1>1, EmptyFacts DEF Keys, Models
  <2>2. Waiting(p, b) = {}
    BY <1>3 DEF Waiting
  <2>3. Cardinality(Waiting(p, b)) = 0
    BY <2>2, FS_EmptySet
  <2>4. Within(Zero, b, 0)
    BY NewDay
  <2> QED
    BY <2>1, <2>3, <2>4
<1>9. FitInv
  BY <1>1, <1>3 DEF FitInv
<1>10. SpentInv
  BY <1>1, EmptyFacts DEF SpentInv, Zero
<1> QED
  BY <1>4, <1>5, <1>6, <1>7, <1>8, <1>9, <1>10 DEF IInv

LEMMA TickInv == IInv /\ Tick => IInv'
<1> SUFFICES ASSUME IInv, Tick PROVE IInv'
  OBVIOUS
<1>1. /\ now < MaxTime
      /\ now' = now + 1
      /\ UNCHANGED <<ledger, chat, answered, spent, window, damaged, sent, faults>>
  BY DEF Tick
<1>2. now \in Nat /\ MaxTime \in Nat
  BY ProxyBounds DEF IInv, TypeInv
<1>3. TypeInv'
  BY <1>1, <1>2 DEF IInv, TypeInv, Recording
<1>4. SoleInv' /\ ServedInv' /\ UsageInv' /\ WindowInv'
  BY <1>1, FewerRecording DEF Recording
<1>5. DayInv'
  <2> SUFFICES ASSUME "usage" \notin damaged, NEW p \in Providers, NEW d \in Days,
                      NEW b \in Budgets
               PROVE  /\ d > Day(now') => spent[<<p, "asked", d>>][b] = Zero
                      /\ d = Day(now') => Within(spent[<<p, "asked", d>>][b], b,
                                                Cardinality(Waiting(p, b)))
                      /\ d < Day(now') => Within(spent[<<p, "asked", d>>][b], b, 0)
    BY <1>1 DEF DayInv, Waiting
  <2> DEFINE totals == spent[<<p, "asked", d>>][b]
             w      == Cardinality(Waiting(p, b))
  <2>1. /\ d > Day(now) => totals = Zero
        /\ d = Day(now) => Within(totals, b, w)
        /\ d < Day(now) => Within(totals, b, 0)
    BY DEF IInv, DayInv
  <2>2. totals \in Totals
    BY DEF IInv, TypeInv, Usage, Keys, Models
  <2>3. w \in Nat
    BY WaitingFacts DEF Waiting
  <2>4. Within(Zero, b, w)
    <3>1. Waiting(p, b) \in SUBSET Chats
      BY DEF Waiting
    <3> QED
      BY <3>1, NewDay
  <2>5. Within(Zero, b, 0)
    <3>1. Zero \in Totals /\ 0 <= w
      BY <2>3, EmptyFacts
    <3> HIDE DEF w
    <3> QED
      BY <2>3, <2>4, <3>1, WithinFewer
  <2>6. Within(totals, b, w) => Within(totals, b, 0)
    <3>1. 0 <= w
      BY <2>3
    <3> HIDE DEF w, totals
    <3> QED
      BY <2>2, <2>3, <3>1, WithinFewer
  <2>7. Day(now) \in Int /\ Day(now') \in Int /\ Day(now) <= Day(now') /\ d \in Int
    <3>1. Day(now) \in Nat /\ Day(now) <= Day(now')
      BY <1>1, <1>2, DayFacts
    <3>2. Day(now') \in Nat
      BY <1>1, <1>2, DayFacts
    <3>3. Day(0) \in Nat /\ Day(MaxTime) \in Nat
      BY <1>2, DayFacts
    <3> QED
      BY <3>1, <3>2, <3>3 DEF Days
  <2> HIDE DEF totals, w
  <2>8. /\ d > Day(now') => totals = Zero
        /\ d = Day(now') => Within(totals, b, w)
        /\ d < Day(now') => Within(totals, b, 0)
    <3>1. CASE d > Day(now)
      BY <2>1, <2>4, <2>5, <2>7, <3>1
    <3>2. CASE d = Day(now)
      BY <2>1, <2>6, <2>7, <3>2
    <3>3. CASE d < Day(now)
      BY <2>1, <2>7, <3>3
    <3> QED
      BY <2>7, <3>1, <3>2, <3>3
  <2> QED
    BY <2>8 DEF totals, w
<1>6. FitInv' /\ SpentInv'
  BY <1>1 DEF IInv, FitInv, SpentInv, AsStrict
<1> QED
  BY <1>3, <1>4, <1>5, <1>6 DEF IInv

LEMMA FailedInv == ASSUME IInv, NEW c \in Chats, Failed(c) PROVE IInv'
<1>1. /\ chat' = [chat EXCEPT ![c] = Quiet]
      /\ chat[c].stage = "waiting"
      /\ UNCHANGED <<now, ledger, answered, spent, window, damaged, sent, faults>>
  BY DEF Failed
<1>2. Quiet \in Chat /\ Quiet.stage = "idle"
  BY DEF Quiet, Chat
<1>3. chat \in [Chats -> Chat]
  BY DEF IInv, TypeInv
<1>4. TypeInv'
  BY <1>1, <1>2, <1>3 DEF IInv, TypeInv, Recording
<1>5. SoleInv' /\ ServedInv' /\ UsageInv' /\ WindowInv'
  <2>1. \A d \in Chats : Recording(d)' => Recording(d) /\ chat'[d] = chat[d]
    BY <1>1, <1>2, <1>3 DEF Recording
  <2>2. \A d \in Chats : Recording(d) => Recording(d)'
    BY <1>1, <1>2, <1>3 DEF Recording
  <2> QED
    BY <1>1, <2>1, <2>2, FewerRecording
<1>6. DayInv' /\ FitInv' /\ SpentInv'
  BY <1>1, <1>2, <1>3, FewerWaiting
<1> QED
  BY <1>4, <1>5, <1>6 DEF IInv

LEMMA WriteFailsInv == ASSUME IInv, NEW c \in Chats, WriteFails(c) PROVE IInv'
<1>1. /\ chat' = [chat EXCEPT ![c] = Quiet]
      /\ Recording(c)
      /\ damaged' = damaged \cup {chat[c].file}
      /\ faults' = faults + 1
      /\ UNCHANGED <<now, ledger, answered, spent, window, sent>>
  BY DEF WriteFails
<1>2. Quiet \in Chat /\ Quiet.stage = "idle"
  BY DEF Quiet, Chat
<1>3. chat \in [Chats -> Chat]
  BY DEF IInv, TypeInv
<1>4. TypeInv'
  BY <1>1, <1>2, <1>3 DEF IInv, TypeInv, Recording
<1>5. SoleInv' /\ ServedInv' /\ UsageInv' /\ WindowInv'
  <2>1. \A d \in Chats : Recording(d)' => Recording(d) /\ chat'[d] = chat[d]
    BY <1>1, <1>2, <1>3 DEF Recording
  <2>2. \A d \in Chats : Recording(d) /\ ~Recording(d)' => chat[d].file \in damaged'
    BY <1>1, <1>2, <1>3 DEF Recording
  <2> QED
    BY <1>1, <2>1, <2>2, FewerRecording
<1>6. DayInv' /\ FitInv' /\ SpentInv'
  BY <1>1, <1>2, <1>3, FewerWaiting
<1> QED
  BY <1>4, <1>5, <1>6 DEF IInv

LEMMA DieInv == ASSUME IInv, NEW c \in Chats, Die(c) PROVE IInv'
<1> DEFINE lost == {chat[d].file : d \in {e \in Chats : SameProcess(c, e) /\ Recording(e)}}
<1>1. /\ chat' = [d \in Chats |-> IF SameProcess(c, d) THEN Quiet ELSE chat[d]]
      /\ damaged' = damaged \cup lost
      /\ faults' = faults + 1
      /\ UNCHANGED <<now, ledger, answered, spent, window, sent>>
  BY DEF Die
<1>2. Quiet \in Chat /\ Quiet.stage = "idle"
  BY DEF Quiet, Chat
<1>3. chat \in [Chats -> Chat]
  BY DEF IInv, TypeInv
<1>4. TypeInv'
  <2>1. lost \subseteq Files
    BY DEF IInv, TypeInv
  <2>2. chat' \in [Chats -> Chat]
    BY <1>1, <1>2, <1>3
  <2>3. \A d \in Chats : chat'[d].stage # "idle" => chat'[d] = chat[d]
    BY <1>1, <1>2
  <2> QED
    BY <1>1, <2>1, <2>2, <2>3 DEF IInv, TypeInv, Recording
<1>5. SoleInv' /\ ServedInv' /\ UsageInv' /\ WindowInv'
  <2>1. \A d \in Chats : Recording(d)' => Recording(d) /\ chat'[d] = chat[d]
    BY <1>1, <1>2, <1>3 DEF Recording
  <2>2. \A d \in Chats : Recording(d) /\ ~Recording(d)' => chat[d].file \in damaged'
    BY <1>1, <1>2, <1>3 DEF Recording
  <2> QED
    BY <1>1, <2>1, <2>2, FewerRecording
<1>6. DayInv' /\ FitInv' /\ SpentInv'
  BY <1>1, <1>2, <1>3, FewerWaiting
<1> QED
  BY <1>4, <1>5, <1>6 DEF IInv

\* Sending adds one chat to those that wait; the check of its own budget has left room
\* under every budget it is as strict as, for it and for the one answer that can be on
\* its way to the file.
LEMMA SendWithin ==
  ASSUME TypeInv, UsageInv, SpentInv, NEW c \in Chats, chat[c].stage = "idle",
         "usage" \notin damaged, ~Torn("usage"),
         NEW p \in Providers, NEW estimate \in Estimates,
         NEW a \in Budgets, NEW b \in Budgets, AsStrict(a, b),
         ~WouldExceed(ledger.usage[<<p, "asked", Day(now)>>], a, estimate)
  PROVE  Within(spent[<<p, "asked", Day(now)>>][b], b, Cardinality(Waiting(p, b) \cup {c}))
<1> DEFINE k      == <<p, "asked", Day(now)>>
           totals == spent[k][b]
           all    == answered[k]
           led    == ledger.usage[k]
           T      == Max(Tokens)
           n      == Cardinality(Chats)
           w      == Cardinality(Waiting(p, b) \cup {c})
           wt     == w * T
           nt     == n * T
<1>1. k \in Keys
  BY TodayKey DEF Models
<1>2. /\ totals.requests \in Nat /\ totals.tokens \in Nat
      /\ all.requests \in Nat /\ all.tokens \in Nat
      /\ led.requests \in Nat /\ led.tokens \in Nat
      /\ totals.requests <= all.requests /\ totals.tokens <= all.tokens
  BY <1>1 DEF TypeInv, Usage, Totals, SpentInv
<1>3. /\ b.requests \in Nat /\ b.tokens \in Nat
      /\ estimate \in Nat /\ Min(Estimates) \in Nat /\ Min(Estimates) <= estimate
      /\ T \in Nat
  BY BudgetAssumption, SmallestEstimate, LargestAnswer
<1>4. /\ b.requests > 0 => led.requests + 1 <= b.requests
      /\ b.tokens > 0 => led.tokens + estimate <= b.tokens
  <2>1. a.requests \in Nat /\ a.tokens \in Nat
    BY BudgetAssumption
  <2> HIDE DEF led
  <2>2. /\ a.requests > 0 => led.requests + 1 <= a.requests
        /\ a.tokens > 0 => led.tokens + estimate <= a.tokens
    BY <1>2, <1>3, <2>1 DEF WouldExceed, led
  <2>3. /\ b.requests > 0 => a.requests > 0 /\ a.requests <= b.requests
        /\ b.tokens > 0 => a.tokens > 0 /\ a.tokens <= b.tokens
    BY <1>3, <2>1 DEF AsStrict
  <2> QED
    BY <1>2, <1>3, <2>1, <2>2, <2>3
<1>5. Waiting(p, b) \cup {c} \in SUBSET Chats
  BY DEF Waiting
<1>6. n \in Nat /\ w \in Nat /\ w <= n
  BY <1>5, WaitingFacts
<1>7. wt \in Nat /\ nt \in Nat /\ wt <= nt /\ (w + 1 <= n => wt + T <= nt)
  <2> HIDE DEF T, n, w
  <2>1. wt \in Nat /\ nt \in Nat /\ wt <= nt
    BY <1>3, <1>6, Times
  <2>2. (w + 1) * T = wt + T
    BY <1>3, <1>6, Times
  <2>3. w + 1 <= n => (w + 1) * T <= nt
    BY <1>3, <1>6, Times
  <2> QED
    BY <2>1, <2>2, <2>3
<1>8. CASE ~Busy("usage")
  <2>1. all = led
    BY <1>8 DEF UsageInv
  <2> HIDE DEF k, totals, all, led, T, n, w, wt, nt
  <2>2. /\ b.requests > 0 => totals.requests + w <= b.requests - 1 + n
        /\ b.tokens > 0 => totals.tokens + wt <= b.tokens - Min(Estimates) + nt
    BY <1>2, <1>3, <1>4, <1>6, <1>7, <2>1
  <2> QED
    BY <2>2 DEF Within, Fits, k, totals, T, n, w, wt, nt
<1>9. CASE Busy("usage")
  <2>1. PICK r \in Chats : Recording(r) /\ chat[r].file = "usage"
    BY <1>9 DEF Busy
  <2>2. chat[r].stage = "read"
    BY <2>1 DEF Recording, Torn
  <2>3. Lags(ledger.usage)
    BY <2>1, <2>2 DEF UsageInv
  <2>4. all.requests <= led.requests + 1 /\ all.tokens <= led.tokens + T
    BY <1>1, <2>3 DEF Lags
  <2>5. r \in Chats \ (Waiting(p, b) \cup {c})
    BY <2>2 DEF Waiting
  <2>6. w + 1 <= n
    BY <1>5, <2>5, WaitingFacts
  <2> HIDE DEF k, totals, all, led, T, n, w, wt, nt
  <2>7. /\ b.requests > 0 => totals.requests + w <= b.requests - 1 + n
        /\ b.tokens > 0 => totals.tokens + wt <= b.tokens - Min(Estimates) + nt
    BY <1>2, <1>3, <1>4, <1>6, <1>7, <2>4, <2>6
  <2> QED
    BY <2>7 DEF Within, Fits, k, totals, T, n, w, wt, nt
<1> QED
  BY <1>8, <1>9

LEMMA SendInv == ASSUME IInv, NEW c \in Chats, Send(c) PROVE IInv'
<1>1. PICK list \in Candidates, said \in LimitStates, a \in Budgets, estimate \in Estimates,
           p \in Providers :
        /\ ~WouldExceed(ledger.usage[<<p, "asked", Day(now)>>], a, estimate)
        /\ chat' = [chat EXCEPT ![c] = Awaiting(p, a)]
  BY DEF Send
<1> DEFINE q == Awaiting(p, a)
<1>2. /\ chat[c].stage = "idle"
      /\ sent' = sent + 1
      /\ damaged' = damaged \cup {file \in Files : Torn(file)}
      /\ UNCHANGED <<now, ledger, answered, spent, window, faults>>
  BY DEF Send
<1>3. q \in Chat /\ q.stage = "waiting" /\ q.provider = p /\ q.budget = a
  BY DEF Awaiting, Chat
<1> HIDE DEF q
<1>4. chat \in [Chats -> Chat]
  BY DEF IInv, TypeInv
<1>5. /\ chat' \in [Chats -> Chat]
      /\ chat'[c] = q
      /\ \A d \in Chats \ {c} : chat'[d] = chat[d]
  BY <1>1, <1>3, <1>4 DEF q
<1>6. TypeInv'
  BY <1>2, <1>3, <1>5 DEF IInv, TypeInv, Recording
<1>7. SoleInv' /\ ServedInv' /\ UsageInv' /\ WindowInv'
  <2>1. \A d \in Chats : Recording(d)' => Recording(d) /\ chat'[d] = chat[d]
    BY <1>3, <1>5 DEF Recording
  <2>2. \A d \in Chats : Recording(d) => Recording(d)'
    BY <1>2, <1>5 DEF Recording
  <2> QED
    BY <1>2, <2>1, <2>2, FewerRecording
<1>8. DayInv'
  <2> SUFFICES ASSUME "usage" \notin damaged', NEW o \in Providers, NEW d \in Days,
                      NEW b \in Budgets
               PROVE  /\ d > Day(now) => spent[<<o, "asked", d>>][b] = Zero
                      /\ d = Day(now) => Within(spent[<<o, "asked", d>>][b], b,
                                                Cardinality(Waiting(o, b)'))
                      /\ d < Day(now) => Within(spent[<<o, "asked", d>>][b], b, 0)
    BY <1>2 DEF DayInv
  <2>1. /\ d > Day(now) => spent[<<o, "asked", d>>][b] = Zero
        /\ d = Day(now) => Within(spent[<<o, "asked", d>>][b], b, Cardinality(Waiting(o, b)))
        /\ d < Day(now) => Within(spent[<<o, "asked", d>>][b], b, 0)
    BY <1>2 DEF IInv, DayInv
  <2>2. CASE o = p /\ AsStrict(a, b)
    <3>1. Waiting(o, b)' = Waiting(p, b) \cup {c}
      BY <1>2, <1>3, <1>5, <2>2 DEF Waiting, AsStrict
    <3>2. "usage" \notin damaged /\ ~Torn("usage")
      BY <1>2 DEF Files
    <3>3. Within(spent[<<p, "asked", Day(now)>>][b], b, Cardinality(Waiting(p, b) \cup {c}))
      BY <1>1, <1>2, <2>2, <3>2, SendWithin DEF IInv
    <3> QED
      BY <2>1, <2>2, <3>1, <3>3
  <2>3. CASE ~(o = p /\ AsStrict(a, b))
    <3>1. Waiting(o, b)' = Waiting(o, b)
      BY <1>2, <1>3, <1>5, <2>3 DEF Waiting, AsStrict
    <3> QED
      BY <2>1, <3>1
  <2> QED
    BY <2>2, <2>3
<1>9. FitInv'
  <2> SUFFICES ASSUME NEW b \in Budgets, b.tokens > 0, ~Fits(b)
               PROVE  /\ \A k \in Keys : spent[k][b] = Zero
                      /\ \A d \in Chats : chat'[d].stage = "waiting" =>
                                           ~AsStrict(chat'[d].budget, b)
    BY <1>2 DEF FitInv, Fits, AsStrict
  <2>1. <<p, "asked", Day(now)>> \in Keys
    BY TodayKey DEF IInv, Models
  <2>2. ledger.usage[<<p, "asked", Day(now)>>].tokens \in Nat
    BY <2>1 DEF IInv, TypeInv, Usage, Totals
  <2>3. /\ a.tokens \in Nat /\ b.tokens \in Nat /\ estimate \in Nat
        /\ Min(Estimates) \in Nat /\ Min(Estimates) <= estimate
    BY BudgetAssumption, SmallestEstimate
  <2>4. a.tokens > 0 => estimate <= a.tokens
    BY <1>1, <2>2, <2>3 DEF WouldExceed
  <2>5. ~AsStrict(a, b)
    BY <2>3, <2>4 DEF AsStrict, Fits
  <2> QED
    BY <1>3, <1>5, <2>5 DEF IInv, FitInv
<1>10. SpentInv'
  BY <1>2 DEF IInv, SpentInv
<1> QED
  BY <1>6, <1>7, <1>8, <1>9, <1>10 DEF IInv

\* What reading a ledger does to the chats: c carries the new contents.
LEMMA ReadFacts ==
  ASSUME TypeInv, NEW c \in Chats, chat[c].stage = "waiting",
         NEW file \in Files, NEW x \in Contents(file), Read(c, file, x)
  PROVE  /\ chat' \in [Chats -> Chat]
         /\ chat'[c].stage = "read"
         /\ chat'[c].file = file
         /\ chat'[c].content = x
         /\ chat'[c].provider = chat[c].provider
         /\ chat[c].provider \in Providers
         /\ \A d \in Chats \ {c} : chat'[d] = chat[d]
         /\ damaged \subseteq damaged' /\ damaged' \subseteq Files
         /\ file \notin damaged' => ~Busy(file)
<1>1. chat \in [Chats -> Chat] /\ chat[c] \in Chat
  BY DEF TypeInv
<1> DEFINE q == [chat[c] EXCEPT !.stage = "read", !.file = file, !.content = x]
<1>2. /\ q \in Chat
      /\ q.stage = "read"
      /\ q.file = file
      /\ q.content = x
      /\ q.provider = chat[c].provider
  BY <1>1 DEF Chat, Contents
<1>3. /\ chat' = [chat EXCEPT ![c] = q]
      /\ damaged' = damaged \cup IF Busy(file) THEN {file} ELSE {}
  BY DEF Read
<1> HIDE DEF q
<1>4. /\ chat' \in [Chats -> Chat]
      /\ chat'[c] = q
      /\ \A d \in Chats \ {c} : chat'[d] = chat[d]
  BY <1>1, <1>2, <1>3
<1>5. /\ damaged \subseteq damaged'
      /\ damaged' \subseteq Files
      /\ file \notin damaged' => ~Busy(file)
  BY <1>3 DEF TypeInv
<1> QED
  BY <1>2, <1>4, <1>5 DEF TypeInv

\* A chat that reads a file alone is the only one at it.
LEMMA ReadSole ==
  ASSUME IInv, NEW c \in Chats, chat[c].stage = "waiting",
         NEW file \in Files, NEW x \in Contents(file), Read(c, file, x)
  PROVE  SoleInv'
<1>1. /\ chat'[c].file = file
      /\ \A d \in Chats \ {c} : chat'[d] = chat[d]
      /\ damaged \subseteq damaged'
      /\ file \notin damaged' => ~Busy(file)
  BY ReadFacts DEF IInv
<1> SUFFICES ASSUME NEW d \in Chats, NEW e \in Chats, Recording(d)', Recording(e)',
                    chat'[d].file = chat'[e].file, chat'[d].file \notin damaged'
             PROVE  d = e
  BY DEF SoleInv
<1>2. CASE d # c /\ e # c
  BY <1>1, <1>2 DEF IInv, SoleInv, Recording
<1>3. CASE d = c \/ e = c
  <2>1. ~Busy(file)
    BY <1>1, <1>3
  <2>2. \A g \in Chats \ {c} : Recording(g)' => chat'[g].file # file
    BY <1>1, <2>1 DEF Busy, Recording
  <2> QED
    BY <1>1, <1>3, <2>2
<1> QED
  BY <1>2, <1>3

\* usage with one more answer under key
Credited(usage, key, tokens) == [usage EXCEPT ![key] = Added(usage[key], tokens)]

\* One more answer: the totals of its key grow by it, the others stay.
LEMMA AddedFacts ==
  ASSUME NEW usage \in Usage, NEW key \in Keys, NEW tokens \in Tokens, NEW u,
         u = Credited(usage, key, tokens)
  PROVE  /\ u \in Usage
         /\ u[key].requests = usage[key].requests + 1
         /\ u[key].tokens = usage[key].tokens + tokens
         /\ \A k \in Keys \ {key} : u[k] = usage[k]
<1>1. tokens \in Nat /\ usage[key] \in Totals
  BY BudgetAssumption DEF Usage
<1>2. /\ Added(usage[key], tokens) \in Totals
      /\ Added(usage[key], tokens).requests = usage[key].requests + 1
      /\ Added(usage[key], tokens).tokens = usage[key].tokens + tokens
  BY <1>1 DEF Added, Totals
<1> QED
  BY <1>2 DEF Usage, Credited

LEMMA CompletedInv == ASSUME IInv, NEW c \in Chats, Completed(c) PROVE IInv'
<1>1. PICK model \in Models, tokens \in Tokens :
        LET key == <<chat[c].provider, model, Day(now)>>
        IN  /\ Read(c, "usage", [ledger.usage EXCEPT ![key] = Added(@, tokens)])
            /\ answered' = [answered EXCEPT ![key] = [requests |-> @.requests + 1,
                                                      tokens |-> @.tokens + tokens]]
            /\ spent' = [spent EXCEPT ![key] =
                           [b \in Budgets |->
                              IF AsStrict(chat[c].budget, b)
                              THEN [requests |-> @[b].requests + 1,
                                    tokens |-> @[b].tokens + tokens]
                              ELSE @[b]]]
  BY DEF Completed
<1> DEFINE p   == chat[c].provider
           key == <<p, model, Day(now)>>
           x   == Credited(ledger.usage, key, tokens)
<1>2. /\ chat[c].stage = "waiting"
      /\ UNCHANGED <<now, ledger, window, sent, faults>>
  BY DEF Completed
<1>3. key \in Keys /\ p \in Providers
  <2>1. p \in Providers
    BY <1>2 DEF IInv, TypeInv
  <2> QED
    BY <2>1, TodayKey DEF IInv
<1>4. ledger.usage \in Usage /\ answered \in Usage
  BY DEF IInv, TypeInv
<1>5. /\ Read(c, "usage", x)
      /\ answered' = Credited(answered, key, tokens)
  BY <1>1 DEF Added, Credited
<1> DEFINE mine == [b \in Budgets |->
                      IF AsStrict(chat[c].budget, b)
                      THEN [requests |-> spent[key][b].requests + 1,
                            tokens |-> spent[key][b].tokens + tokens]
                      ELSE spent[key][b]]
<1>5a. spent' = [spent EXCEPT ![key] = mine]
  BY <1>1
<1> HIDE DEF key
<1>6. /\ x \in Usage
      /\ x[key].requests = ledger.usage[key].requests + 1
      /\ x[key].tokens = ledger.usage[key].tokens + tokens
      /\ \A k \in Keys \ {key} : x[k] = ledger.usage[k]
  <2>1. x = Credited(ledger.usage, key, tokens)
    OBVIOUS
  <2> HIDE DEF x
  <2> QED
    BY <1>3, <1>4, <2>1, AddedFacts
<1>7. /\ answered' \in Usage
      /\ answered'[key].requests = answered[key].requests + 1
      /\ answered'[key].tokens = answered[key].tokens + tokens
      /\ \A k \in Keys \ {key} : answered'[k] = answered[k]
  BY <1>3, <1>4, <1>5, AddedFacts
<1>8. ledger.usage = answered => x = answered'
  BY <1>5
<1> HIDE DEF x
<1>9. /\ chat' \in [Chats -> Chat]
      /\ chat'[c].stage = "read"
      /\ chat'[c].file = "usage"
      /\ chat'[c].content = x
      /\ chat'[c].provider = p
      /\ \A d \in Chats \ {c} : chat'[d] = chat[d]
      /\ damaged \subseteq damaged' /\ damaged' \subseteq Files
      /\ "usage" \notin damaged' => ~Busy("usage")
  BY <1>2, <1>5, <1>6, ReadFacts DEF IInv, Files, Contents
<1>10. tokens \in Nat /\ tokens <= Max(Tokens) /\ Max(Tokens) \in Nat
  BY BudgetAssumption, LargestAnswer
<1>11. \A k \in Keys : /\ answered[k] \in Totals
                       /\ answered'[k] \in Totals
                       /\ ledger.usage[k] \in Totals
  BY <1>4, <1>7 DEF Usage
<1>11a. /\ spent' \in [Keys -> [Budgets -> Totals]]
        /\ \A k \in Keys \ {key} : spent'[k] = spent[k]
        /\ spent'[key] = mine
  <2>1. spent \in [Keys -> [Budgets -> Totals]]
    BY DEF IInv, TypeInv
  <2>2. mine \in [Budgets -> Totals]
    <3> SUFFICES ASSUME NEW b \in Budgets PROVE mine[b] \in Totals
      OBVIOUS
    <3>1. spent[key][b] \in Totals
      BY <1>3, <2>1
    <3> QED
      BY <1>10, <3>1 DEF Totals
  <2> HIDE DEF mine
  <2> QED
    BY <1>3, <1>5a, <2>1, <2>2
<1>11b. \A b \in Budgets :
          IF AsStrict(chat[c].budget, b)
          THEN /\ spent'[key][b].requests = spent[key][b].requests + 1
               /\ spent'[key][b].tokens = spent[key][b].tokens + tokens
          ELSE spent'[key][b] = spent[key][b]
  BY <1>11a
<1>11c. \A k \in Keys, b \in Budgets : /\ spent[k][b] \in Totals /\ spent'[k][b] \in Totals
  BY <1>11a DEF IInv, TypeInv
<1> HIDE DEF mine
<1>12. TypeInv'
  BY <1>2, <1>3, <1>6, <1>7, <1>9, <1>11a DEF IInv, TypeInv, Recording, Contents, Files
<1>13. SoleInv'
  BY <1>2, <1>5, <1>6, ReadSole DEF Files, Contents
<1>14. ServedInv'
  <2> DEFINE Under(usage) == \A k \in Keys : /\ usage[k].requests <= answered'[k].requests
                                            /\ usage[k].tokens <= answered'[k].tokens
  <2>1. \A usage \in Usage : Served(usage) => Under(usage)
    <3> SUFFICES ASSUME NEW usage \in Usage, Served(usage), NEW k \in Keys
                 PROVE  /\ usage[k].requests <= answered'[k].requests
                        /\ usage[k].tokens <= answered'[k].tokens
      OBVIOUS
    <3>1. usage[k] \in Totals /\ answered[k] \in Totals
      BY <1>11 DEF Usage
    <3>2. usage[k].requests <= answered[k].requests /\ usage[k].tokens <= answered[k].tokens
      BY DEF Served
    <3>3. CASE k = key
      BY <1>7, <1>10, <3>1, <3>2, <3>3 DEF Totals
    <3>4. CASE k # key
      BY <1>7, <3>2, <3>4
    <3> QED
      BY <3>3, <3>4
  <2>2. Under(x)
    <3> SUFFICES ASSUME NEW k \in Keys
                 PROVE  /\ x[k].requests <= answered'[k].requests
                        /\ x[k].tokens <= answered'[k].tokens
      OBVIOUS
    <3>1. /\ ledger.usage[k].requests <= answered[k].requests
          /\ ledger.usage[k].tokens <= answered[k].tokens
      BY DEF IInv, ServedInv, Served
    <3>2. CASE k = key
      BY <1>6, <1>7, <1>10, <1>11, <3>1, <3>2 DEF Totals
    <3>3. CASE k # key
      BY <1>6, <1>7, <3>1, <3>3
    <3> QED
      BY <3>2, <3>3
  <2>3. Under(ledger.usage)
    BY <1>4, <2>1 DEF IInv, ServedInv
  <2>4. ASSUME NEW d \in Chats, Recording(d)', chat'[d].file = "usage"
        PROVE  Under(chat'[d].content)
    <3>1. CASE d = c
      BY <1>9, <2>2, <3>1
    <3>2. CASE d # c
      <4>1. chat'[d] = chat[d] /\ Recording(d)
        BY <1>9, <2>4, <3>2 DEF Recording
      <4>2. chat[d].content \in Usage /\ Served(chat[d].content)
        BY <2>4, <4>1 DEF IInv, TypeInv, ServedInv, Contents
      <4> HIDE DEF Under
      <4> QED
        BY <2>1, <4>1, <4>2
    <3> QED
      BY <3>1, <3>2
  <2> QED
    BY <1>2, <2>3, <2>4 DEF ServedInv, Served
<1>15. UsageInv'
  <2> SUFFICES ASSUME "usage" \notin damaged'
               PROVE  /\ ~Busy("usage")' => ledger'.usage = answered'
                      /\ \A d \in Chats :
                           Recording(d)' /\ chat'[d].file = "usage" =>
                             /\ chat'[d].content = answered'
                             /\ chat'[d].stage = "read" => Lags(ledger.usage)'
    BY <1>2 DEF UsageInv, Lags
  <2>1. ~Busy("usage")
    BY <1>9
  <2>2. ledger.usage = answered
    BY <1>9, <2>1 DEF IInv, UsageInv
  <2>3. Busy("usage")'
    BY <1>9 DEF Busy, Recording
  <2>4. \A d \in Chats : Recording(d)' /\ chat'[d].file = "usage" => d = c
    BY <1>9, <2>1 DEF Busy, Recording
  <2>5. Lags(ledger.usage)'
    <3> SUFFICES ASSUME NEW k \in Keys
                 PROVE  /\ answered'[k].requests <= ledger.usage[k].requests + 1
                        /\ answered'[k].tokens <= ledger.usage[k].tokens + Max(Tokens)
      BY <1>2 DEF Lags
    <3>1. CASE k = key
      BY <1>7, <1>10, <1>11, <2>2, <3>1 DEF Totals
    <3>2. CASE k # key
      BY <1>7, <1>10, <1>11, <2>2, <3>2 DEF Totals
    <3> QED
      BY <3>1, <3>2
  <2> QED
    BY <1>8, <1>9, <2>2, <2>3, <2>4, <2>5
<1>16. WindowInv'
  BY <1>2, <1>9 DEF IInv, WindowInv, Torn, Recording
<1>17. DayInv'
  <2> SUFFICES ASSUME "usage" \notin damaged', NEW o \in Providers, NEW d \in Days,
                      NEW b \in Budgets
               PROVE  /\ d > Day(now) => spent'[<<o, "asked", d>>][b] = Zero
                      /\ d = Day(now) => Within(spent'[<<o, "asked", d>>][b], b,
                                                Cardinality(Waiting(o, b)'))
                      /\ d < Day(now) => Within(spent'[<<o, "asked", d>>][b], b, 0)
    BY <1>2 DEF DayInv
  <2> DEFINE k == <<o, "asked", d>>
             w == Cardinality(Waiting(o, b))
             v == Cardinality(Waiting(o, b)')
             t == spent[k][b]
             u == spent'[k][b]
  <2>1. /\ d > Day(now) => t = Zero
        /\ d = Day(now) => Within(t, b, w)
        /\ d < Day(now) => Within(t, b, 0)
    BY <1>9 DEF IInv, DayInv
  <2>2. k \in Keys
    BY DEF Keys, Models
  <2>3. Waiting(o, b) \in SUBSET Chats
    BY DEF Waiting
  <2>4. Waiting(o, b)' = Waiting(o, b) \ {c}
    BY <1>9 DEF Waiting, AsStrict
  <2>5. w \in Nat /\ v \in Nat /\ v <= w
    <3>1. Waiting(o, b)' \in SUBSET Waiting(o, b)
      BY <2>4
    <3> QED
      BY <2>3, <3>1, WaitingFacts
  <2>6. t \in Totals /\ u \in Totals
    BY <1>11c, <2>2
  <2>7. CASE k # key \/ ~AsStrict(chat[c].budget, b)
    <3>1. u = t
      BY <1>11a, <1>11b, <2>2, <2>7
    <3>2. Within(t, b, w) => Within(t, b, v)
      <4> HIDE DEF t, w, v
      <4> QED
        BY <2>5, <2>6, WithinFewer
    <3> HIDE DEF t, u, v, w
    <3>3. /\ d > Day(now) => u = Zero
          /\ d = Day(now) => Within(u, b, v)
          /\ d < Day(now) => Within(u, b, 0)
      BY <2>1, <3>1, <3>2
    <3> QED
      BY <3>3 DEF u, v
  <2>8. CASE k = key /\ AsStrict(chat[c].budget, b)
    <3>1. o = p /\ d = Day(now)
      BY <2>8 DEF key
    <3>2. c \in Waiting(o, b)
      BY <1>2, <2>8, <3>1 DEF Waiting
    <3>3. v + 1 = w
      BY <2>3, <2>4, <3>2, WaitingFacts
    <3>4. u.requests = t.requests + 1 /\ u.tokens = t.tokens + tokens
      BY <1>11b, <2>8
    <3>5. Within(u, b, v)
      <4>1. Within(t, b, w)
        BY <2>1, <3>1
      <4> HIDE DEF t, u, v, w
      <4> QED
        BY <1>10, <2>5, <2>6, <3>3, <3>4, <4>1, WithinAnswer
    <3>6. ~(d > Day(now)) /\ ~(d < Day(now))
      <4>1. Day(now) \in Nat
        BY DayFacts DEF IInv, TypeInv
      <4> QED
        BY <3>1, <4>1
    <3> QED
      BY <3>1, <3>5, <3>6
  <2> QED
    BY <2>7, <2>8
<1>18. FitInv'
  <2> SUFFICES ASSUME NEW b \in Budgets, b.tokens > 0, ~Fits(b)
               PROVE  /\ \A k \in Keys : spent'[k][b] = Zero
                      /\ \A d \in Chats : chat'[d].stage = "waiting" =>
                                           ~AsStrict(chat'[d].budget, b)
    BY DEF FitInv, Fits, AsStrict
  <2>1. /\ \A k \in Keys : spent[k][b] = Zero
        /\ \A d \in Chats : chat[d].stage = "waiting" => ~AsStrict(chat[d].budget, b)
    BY DEF IInv, FitInv
  <2>2. spent'[key][b] = spent[key][b]
    BY <1>2, <1>11b, <2>1
  <2> QED
    BY <1>3, <1>9, <1>11a, <2>1, <2>2
<1>19. SpentInv'
  <2> SUFFICES ASSUME NEW k \in Keys, NEW b \in Budgets
               PROVE  /\ spent'[k][b].requests <= answered'[k].requests
                      /\ spent'[k][b].tokens <= answered'[k].tokens
    BY DEF SpentInv
  <2>1. /\ spent[k][b].requests <= answered[k].requests
        /\ spent[k][b].tokens <= answered[k].tokens
    BY DEF IInv, SpentInv
  <2>2. CASE k # key
    BY <1>7, <1>11a, <2>1, <2>2
  <2>3. CASE k = key
    <3>1. /\ spent[k][b].requests \in Nat /\ spent[k][b].tokens \in Nat
          /\ answered[k].requests \in Nat /\ answered[k].tokens \in Nat
      BY <1>11, <1>11c DEF Totals
    <3>2. CASE AsStrict(chat[c].budget, b)
      BY <1>7, <1>10, <1>11b, <2>1, <2>3, <3>1, <3>2
    <3>3. CASE ~AsStrict(chat[c].budget, b)
      BY <1>7, <1>10, <1>11b, <2>1, <2>3, <3>1, <3>3
    <3> QED
      BY <3>2, <3>3
  <2> QED
    BY <2>2, <2>3
<1> QED
  BY <1>12, <1>13, <1>14, <1>15, <1>16, <1>17, <1>18, <1>19 DEF IInv

LEMMA RateLimitedInv == ASSUME IInv, NEW c \in Chats, RateLimited(c) PROVE IInv'
<1> DEFINE p == chat[c].provider
<1>1. PICK retry \in Retries :
        Read(c, "limits", [ledger.limits EXCEPT ![p] = Until(retry)])
  BY DEF RateLimited
<1> DEFINE x == [ledger.limits EXCEPT ![p] = Until(retry)]
<1>2. /\ chat[c].stage = "waiting"
      /\ UNCHANGED <<now, ledger, answered, spent, window, sent, faults>>
  BY DEF RateLimited
<1>3. x \in Limits
  <2>1. Until(retry) \in Nat
    BY LimitAssumption DEF IInv, TypeInv, Until
  <2>2. ledger.limits \in Limits
    BY DEF IInv, TypeInv
  <2> QED
    BY <2>1, <2>2 DEF Limits
<1>4. ledger.limits = window => p \in Providers /\ x = [window EXCEPT ![p] = x[p]]
  <2>1. p \in Providers
    BY <1>2 DEF IInv, TypeInv
  <2>2. ledger.limits \in [Providers -> Nat]
    BY DEF IInv, TypeInv, Limits
  <2> QED
    BY <2>1, <2>2
<1>5. Read(c, "limits", x)
  BY <1>1
<1> HIDE DEF x
<1>6. /\ chat' \in [Chats -> Chat]
      /\ chat'[c].stage = "read"
      /\ chat'[c].file = "limits"
      /\ chat'[c].content = x
      /\ chat'[c].provider = p
      /\ p \in Providers
      /\ \A d \in Chats \ {c} : chat'[d] = chat[d]
      /\ damaged \subseteq damaged' /\ damaged' \subseteq Files
      /\ "limits" \notin damaged' => ~Busy("limits")
  BY <1>2, <1>3, <1>5, ReadFacts DEF IInv, Files, Contents
<1>7. TypeInv'
  BY <1>2, <1>3, <1>6 DEF IInv, TypeInv, Recording, Contents, Files
<1>8. SoleInv'
  BY <1>2, <1>3, <1>5, ReadSole DEF Files, Contents
<1>9. ServedInv'
  BY <1>2, <1>6 DEF IInv, ServedInv, Served, Recording
<1>10. UsageInv'
  BY <1>2, <1>6 DEF IInv, UsageInv, Lags, Busy, Recording
<1>11. WindowInv'
  <2> SUFFICES ASSUME "limits" \notin damaged'
               PROVE  /\ ~Torn("limits")' => ledger.limits = window
                      /\ \A d \in Chats :
                           Recording(d)' /\ chat'[d].file = "limits" =>
                             chat'[d].content = [window EXCEPT ![chat'[d].provider] =
                                                   chat'[d].content[chat'[d].provider]]
    BY <1>2 DEF WindowInv
  <2>1. ~Busy("limits")
    BY <1>6
  <2>2. ~Torn("limits")
    BY <2>1 DEF Busy, Torn, Recording
  <2>3. ledger.limits = window
    BY <1>6, <2>2 DEF IInv, WindowInv
  <2>4. \A d \in Chats : Recording(d)' /\ chat'[d].file = "limits" => d = c
    BY <1>6, <2>1 DEF Busy, Recording
  <2> QED
    BY <1>4, <1>6, <2>3, <2>4
<1>12. DayInv' /\ FitInv' /\ SpentInv'
  BY <1>2, <1>6, FewerWaiting
<1> QED
  BY <1>7, <1>8, <1>9, <1>10, <1>11, <1>12 DEF IInv

\* The file is empty until its writer goes on; everybody else is somewhere else.
LEMMA TruncateInv == ASSUME IInv, NEW c \in Chats, Truncate(c) PROVE IInv'
<1> DEFINE file == chat[c].file
<1>1. /\ chat[c].stage = "read"
      /\ chat' = [chat EXCEPT ![c] = [chat[c] EXCEPT !.stage = "truncated"]]
      /\ ledger' = [ledger EXCEPT ![file] = Empty[file]]
      /\ UNCHANGED <<now, answered, spent, window, damaged, sent, faults>>
  BY DEF Truncate
<1>2. /\ chat \in [Chats -> Chat] /\ chat[c] \in Chat
      /\ Recording(c)
      /\ file \in Files
  BY <1>1 DEF IInv, TypeInv, Recording
<1>3. /\ chat' \in [Chats -> Chat]
      /\ chat'[c].stage = "truncated"
      /\ \A d \in Chats : /\ chat'[d].file = chat[d].file
                          /\ chat'[d].content = chat[d].content
                          /\ chat'[d].provider = chat[d].provider
      /\ \A d \in Chats \ {c} : chat'[d] = chat[d]
  BY <1>1, <1>2 DEF Chat
<1>4. \A d \in Chats : Recording(d)' <=> Recording(d)
  BY <1>2, <1>3 DEF Recording
<1>5. /\ ledger' \in [usage : Usage, limits : Limits]
      /\ file = "usage" => ledger'.usage = Empty.usage /\ ledger'.limits = ledger.limits
      /\ file = "limits" => ledger'.usage = ledger.usage
  <2>1. Empty[file] \in Contents(file) /\ ledger \in [usage : Usage, limits : Limits]
    BY <1>2, EmptyFacts DEF IInv, TypeInv
  <2>2. file = "usage" => Empty[file] = Empty.usage
    OBVIOUS
  <2> HIDE DEF file
  <2> QED
    BY <1>1, <1>2, <2>1, <2>2, LedgerWrite
<1>6. TypeInv'
  <2>1. \A d \in Chats : chat'[d].stage # "idle" => chat[d].stage # "idle"
    BY <1>1, <1>3
  <2> QED
    BY <1>1, <1>3, <1>4, <1>5, <2>1 DEF IInv, TypeInv
<1>7. SoleInv'
  BY <1>1, <1>3, <1>4 DEF IInv, SoleInv
<1>8. ServedInv'
  <2>1. Served(Empty.usage)
    <3> SUFFICES ASSUME NEW k \in Keys
                 PROVE  /\ Empty.usage[k].requests <= answered[k].requests
                        /\ Empty.usage[k].tokens <= answered[k].tokens
      BY DEF Served
    <3>1. answered[k] \in Totals
      BY DEF IInv, TypeInv, Usage
    <3> QED
      BY <3>1, EmptyFacts DEF Zero, Totals
  <2>2. Served(ledger'.usage)
    BY <1>2, <1>5, <2>1 DEF IInv, ServedInv, Files
  <2> QED
    BY <1>1, <1>3, <1>4, <2>2 DEF IInv, ServedInv, Served
<1>9. UsageInv'
  <2> SUFFICES ASSUME "usage" \notin damaged
               PROVE  /\ ~Busy("usage")' => ledger'.usage = answered
                      /\ \A d \in Chats :
                           Recording(d)' /\ chat'[d].file = "usage" =>
                             /\ chat'[d].content = answered
                             /\ chat'[d].stage = "read" => Lags(ledger'.usage)
    BY <1>1 DEF UsageInv, Lags
  <2>1. Busy("usage")' <=> Busy("usage")
    BY <1>3, <1>4 DEF Busy
  <2>2. CASE file = "usage"
    <3>1. Busy("usage")
      BY <1>2, <2>2 DEF Busy
    <3>2. \A d \in Chats : Recording(d) /\ chat[d].file = "usage" => d = c
      BY <1>2, <2>2 DEF IInv, SoleInv
    <3> QED
      BY <1>3, <1>4, <2>1, <3>1, <3>2 DEF IInv, UsageInv
  <2>3. CASE file = "limits"
    <3>1. \A d \in Chats : chat'[d].file = "usage" => chat'[d] = chat[d]
      BY <1>3, <2>3
    <3> QED
      BY <1>4, <1>5, <2>1, <2>3, <3>1 DEF IInv, UsageInv
  <2> QED
    BY <1>2, <2>2, <2>3 DEF Files
<1>10. WindowInv'
  <2> SUFFICES ASSUME "limits" \notin damaged
               PROVE  /\ ~Torn("limits")' => ledger'.limits = window
                      /\ \A d \in Chats :
                           Recording(d)' /\ chat'[d].file = "limits" =>
                             chat'[d].content = [window EXCEPT ![chat'[d].provider] =
                                                   chat'[d].content[chat'[d].provider]]
    BY <1>1 DEF WindowInv
  <2>1. \A d \in Chats :
          Recording(d)' /\ chat'[d].file = "limits" =>
            chat'[d].content = [window EXCEPT ![chat'[d].provider] =
                                  chat'[d].content[chat'[d].provider]]
    BY <1>3, <1>4 DEF IInv, WindowInv
  <2>2. CASE file = "limits"
    <3>1. Torn("limits")'
      BY <1>3, <2>2 DEF Torn
    <3> QED
      BY <2>1, <3>1
  <2>3. CASE file = "usage"
    <3>1. ~Torn("limits")' => ~Torn("limits")
      BY <1>3, <2>3 DEF Torn
    <3> QED
      BY <1>5, <2>1, <2>3, <3>1 DEF IInv, WindowInv
  <2> QED
    BY <1>2, <2>2, <2>3 DEF Files
<1>11. DayInv' /\ FitInv' /\ SpentInv'
  BY <1>1, <1>3, FewerWaiting
<1> QED
  BY <1>6, <1>7, <1>8, <1>9, <1>10, <1>11 DEF IInv

\* What was carried is in the file, and nobody is at it any more.
LEMMA WriteInv == ASSUME IInv, NEW c \in Chats, Write(c) PROVE IInv'
<1> DEFINE file == chat[c].file
           p    == chat[c].provider
           x    == chat[c].content
<1>1. /\ chat[c].stage = "truncated"
      /\ ledger' = [ledger EXCEPT ![file] = x]
      /\ window' = IF file = "limits" THEN [window EXCEPT ![p] = x[p]] ELSE window
      /\ chat' = [chat EXCEPT ![c] = Quiet]
      /\ UNCHANGED <<now, answered, spent, damaged, sent, faults>>
  BY DEF Write
<1>2. /\ chat \in [Chats -> Chat]
      /\ Recording(c)
      /\ file \in Files
      /\ p \in Providers
      /\ x \in Contents(file)
  BY <1>1 DEF IInv, TypeInv, Recording
<1>3. Quiet \in Chat /\ Quiet.stage = "idle"
  BY DEF Quiet, Chat
<1>4. /\ chat' \in [Chats -> Chat]
      /\ chat'[c].stage = "idle"
      /\ \A d \in Chats \ {c} : chat'[d] = chat[d]
  BY <1>1, <1>2, <1>3
<1>5. /\ ledger' \in [usage : Usage, limits : Limits]
      /\ file = "usage" => ledger'.usage = x /\ ledger'.limits = ledger.limits
      /\ file = "limits" => ledger'.limits = x /\ ledger'.usage = ledger.usage
  <2>1. ledger \in [usage : Usage, limits : Limits]
    BY DEF IInv, TypeInv
  <2> HIDE DEF file, x
  <2> QED
    BY <1>1, <1>2, <2>1, LedgerWrite
<1>6. \A d \in Chats : Recording(d)' <=> d # c /\ Recording(d)
  BY <1>2, <1>4 DEF Recording
<1>7. TypeInv'
  <2>1. window' \in Limits
    <3>1. CASE file = "limits"
      <4>1. x \in Limits /\ window \in Limits
        BY <1>2, <3>1 DEF Contents, IInv, TypeInv
      <4> QED
        BY <1>1, <1>2, <3>1, <4>1 DEF Limits
    <3>2. CASE file # "limits"
      BY <1>1, <3>2 DEF IInv, TypeInv
    <3> QED
      BY <3>1, <3>2
  <2>2. \A d \in Chats : chat'[d].stage # "idle" => chat'[d] = chat[d]
    BY <1>4
  <2> QED
    BY <1>1, <1>4, <1>5, <1>6, <2>1, <2>2 DEF IInv, TypeInv
<1>8. SoleInv'
  BY <1>1, <1>4, <1>6 DEF IInv, SoleInv
<1>9. ServedInv'
  <2>1. Served(ledger'.usage)
    BY <1>2, <1>5 DEF IInv, ServedInv, Files
  <2> QED
    BY <1>1, <1>4, <1>6, <2>1 DEF IInv, ServedInv, Served
<1>10. UsageInv'
  <2> SUFFICES ASSUME "usage" \notin damaged
               PROVE  /\ ~Busy("usage")' => ledger'.usage = answered
                      /\ \A d \in Chats :
                           Recording(d)' /\ chat'[d].file = "usage" =>
                             /\ chat'[d].content = answered
                             /\ chat'[d].stage = "read" => Lags(ledger'.usage)
    BY <1>1 DEF UsageInv, Lags
  <2>1. CASE file = "usage"
    <3>1. \A d \in Chats : Recording(d)' => chat'[d].file # "usage"
      BY <1>2, <1>4, <1>6, <2>1 DEF IInv, SoleInv
    <3>2. ledger'.usage = answered
      BY <1>2, <1>5, <2>1 DEF IInv, UsageInv
    <3> QED
      BY <3>1, <3>2
  <2>2. CASE file = "limits"
    <3>1. Busy("usage")' <=> Busy("usage")
      BY <1>2, <1>4, <1>6, <2>2 DEF Busy
    <3> QED
      BY <1>4, <1>5, <1>6, <2>2, <3>1 DEF IInv, UsageInv
  <2> QED
    BY <1>2, <2>1, <2>2 DEF Files
<1>11. WindowInv'
  <2> SUFFICES ASSUME "limits" \notin damaged
               PROVE  /\ ~Torn("limits")' => ledger'.limits = window'
                      /\ \A d \in Chats :
                           Recording(d)' /\ chat'[d].file = "limits" =>
                             chat'[d].content = [window' EXCEPT ![chat'[d].provider] =
                                                   chat'[d].content[chat'[d].provider]]
    BY <1>1 DEF WindowInv
  <2>1. CASE file = "limits"
    <3>1. \A d \in Chats : Recording(d)' => chat'[d].file # "limits"
      BY <1>2, <1>4, <1>6, <2>1 DEF IInv, SoleInv
    <3>2. ledger'.limits = window'
      BY <1>1, <1>2, <1>5, <2>1 DEF IInv, WindowInv
    <3> QED
      BY <3>1, <3>2
  <2>2. CASE file = "usage"
    <3>1. ~Torn("limits")' => ~Torn("limits")
      BY <1>4, <2>2 DEF Torn
    <3>2. window' = window
      BY <1>1, <2>2
    <3> QED
      BY <1>4, <1>5, <1>6, <2>2, <3>1, <3>2 DEF IInv, WindowInv
  <2> QED
    BY <1>2, <2>1, <2>2 DEF Files
<1>12. DayInv' /\ FitInv' /\ SpentInv'
  BY <1>1, <1>4, FewerWaiting
<1> QED
  BY <1>7, <1>8, <1>9, <1>10, <1>11, <1>12 DEF IInv

-----------------------------------------------------------------------------
LEMMA NextInv == IInv /\ [Next]_vars => IInv'
<1> SUFFICES ASSUME IInv, [Next]_vars PROVE IInv'
  OBVIOUS
<1>1. CASE Tick
  BY <1>1, TickInv
<1>2. ASSUME NEW c \in Chats, Send(c) PROVE IInv'
  BY <1>2, SendInv
<1>3. ASSUME NEW c \in Chats, Completed(c) PROVE IInv'
  BY <1>3, CompletedInv
<1>4. ASSUME NEW c \in Chats, RateLimited(c) PROVE IInv'
  BY <1>4, RateLimitedInv
<1>5. ASSUME NEW c \in Chats, Failed(c) PROVE IInv'
  BY <1>5, FailedInv
<1>6. ASSUME NEW c \in Chats, Truncate(c) PROVE IInv'
  BY <1>6, TruncateInv
<1>7. ASSUME NEW c \in Chats, Write(c) PROVE IInv'
  BY <1>7, WriteInv
<1>8. ASSUME NEW c \in Chats, WriteFails(c) PROVE IInv'
  BY <1>8, WriteFailsInv
<1>9. ASSUME NEW c \in Chats, Die(c) PROVE IInv'
  BY <1>9, DieInv
<1>10. CASE UNCHANGED vars
  <2>1. TypeInv'
    BY <1>10 DEF vars, IInv, TypeInv, Recording
  <2>2. SoleInv' /\ ServedInv' /\ UsageInv' /\ WindowInv'
    BY <1>10, FewerRecording DEF vars, Recording
  <2>3. DayInv' /\ FitInv' /\ SpentInv'
    BY <1>10, FewerWaiting DEF vars
  <2> QED
    BY <2>1, <2>2, <2>3 DEF IInv
<1> QED
  BY <1>1, <1>2, <1>3, <1>4, <1>5, <1>6, <1>7, <1>8, <1>9, <1>10 DEF Next

\* Every reachable state satisfies the inductive invariant.
THEOREM LedgerInvariant == Spec => []IInv
<1>1. IInv /\ [Next]_vars => IInv'
  BY NextInv
<1> QED
  BY InitInv, <1>1, PTL DEF Spec

\* Every answer is counted once in the usage ledger, unless two processes met in it or
\* a write failed.
THEOREM UsageIsCountedOnce == Spec => []UsageIsExact
<1>1. IInv => UsageIsExact
  BY DEF IInv, UsageInv, UsageIsExact
<1> QED
  BY <1>1, LedgerInvariant, PTL

\* Nothing is counted that was not served, whatever processes do to each other's file.
THEOREM UsageIsEarned == Spec => []NothingIsInvented
<1>1. IInv => NothingIsInvented
  BY DEF IInv, ServedInv, Served, NothingIsInvented
<1> QED
  BY <1>1, LedgerInvariant, PTL

\* Chats that carry a budget, or stricter ones, overrun it by one each at most,
\* whatever budgets the other chats carry.
THEOREM BudgetOverrun == Spec => []OverrunIsBounded
<1>1. ASSUME IInv PROVE OverrunIsBounded
  <2> SUFFICES ASSUME "usage" \notin damaged, NEW p \in Providers, NEW d \in Days,
                      NEW b \in Budgets
               PROVE  LET used == spent[<<p, "asked", d>>][b]
                          n == Cardinality(Chats)
                      IN  /\ b.requests > 0 => used.requests <= b.requests - 1 + n
                          /\ b.tokens > 0 /\ used.requests > 0 =>
                               used.tokens <= b.tokens - Min(Estimates) + n * Max(Tokens)
    BY DEF OverrunIsBounded
  <2> DEFINE served == spent[<<p, "asked", d>>][b]
             n      == Cardinality(Chats)
  <2>1. <<p, "asked", d>> \in Keys
    BY DEF Keys, Models
  <2>2. served \in Totals
    BY <1>1, <2>1 DEF IInv, TypeInv
  <2>3. Within(served, b, 0)
    <3>1. /\ d > Day(now) => served = Zero
          /\ d = Day(now) => Within(served, b, Cardinality(Waiting(p, b)))
          /\ d < Day(now) => Within(served, b, 0)
      BY <1>1 DEF IInv, DayInv
    <3>2. Cardinality(Waiting(p, b)) \in Nat
      BY WaitingFacts DEF Waiting
    <3>3. Within(served, b, Cardinality(Waiting(p, b))) => Within(served, b, 0)
      <4> DEFINE w == Cardinality(Waiting(p, b))
      <4>1. w \in Nat /\ 0 <= w
        BY <3>2
      <4> HIDE DEF w, served
      <4>2. Within(served, b, w) => Within(served, b, 0)
        BY <2>2, <4>1, WithinFewer
      <4> QED
        BY <4>2 DEF w
    <3>4. Day(now) \in Int /\ d \in Int
      <4>1. now \in Nat /\ MaxTime \in Nat
        BY <1>1, ProxyBounds DEF IInv, TypeInv
      <4>2. Day(now) \in Nat /\ Day(0) \in Nat /\ Day(MaxTime) \in Nat
        BY <4>1, DayFacts
      <4> QED
        BY <4>2 DEF Days
    <3>5. Within(Zero, b, 0)
      BY NewDay
    <3> HIDE DEF served
    <3> QED
      BY <3>1, <3>3, <3>4, <3>5
  <2>4. /\ served.requests \in Nat /\ served.tokens \in Nat /\ n \in Nat
        /\ b.requests \in Nat /\ b.tokens \in Nat /\ Max(Tokens) \in Nat
    BY <2>2, LargestAnswer, ChatsAssumption, FS_CardinalityType, BudgetAssumption DEF Totals
  <2>5. b.requests > 0 => served.requests <= b.requests - 1 + n
    BY <2>3, <2>4 DEF Within
  <2>6. ASSUME b.tokens > 0, served.requests > 0
        PROVE  served.tokens <= b.tokens - Min(Estimates) + n * Max(Tokens)
    <3>1. CASE Fits(b)
      <4>1. 0 * Max(Tokens) = 0
        BY <2>4
      <4> QED
        BY <2>3, <2>4, <3>1, <4>1 DEF Within
    <3>2. CASE ~Fits(b)
      <4>1. served = Zero
        BY <1>1, <2>1, <2>6, <3>2 DEF IInv, FitInv
      <4> QED
        BY <2>6, <4>1 DEF Zero
    <3> QED
      BY <3>1, <3>2
  <2> QED
    BY <2>5, <2>6
<1>2. IInv => OverrunIsBounded
  BY <1>1
<1> QED
  BY <1>2, LedgerInvariant, PTL

\* A provider whose newest recorded window is not over is not called, unless the limit
\* ledger lost a write or was read while it was torn.
THEOREM LimitsAreHonoured == Spec => WindowsAreRespected
<1> DEFINE Respects ==
      \A c \in Chats :
        chat[c].stage = "idle" /\ chat'[c].stage = "waiting" /\ "limits" \notin damaged' =>
          window[chat'[c].provider] <= now
<1>1. ASSUME IInv, [Next]_vars PROVE [Respects]_chat
  <2> SUFFICES ASSUME NEW c \in Chats, chat[c].stage = "idle", chat'[c].stage = "waiting",
                      "limits" \notin damaged'
               PROVE  window[chat'[c].provider] <= now
    OBVIOUS
  <2>0. chat \in [Chats -> Chat] /\ Quiet.stage = "idle"
    BY <1>1 DEF IInv, TypeInv, Quiet
  <2>1. CASE Send(c)
    <3>1. PICK list \in Candidates, said \in LimitStates, a \in Budgets, p \in Providers :
            /\ Selects(list, said, p)
            /\ chat' = [chat EXCEPT ![c] = Awaiting(p, a)]
      BY <2>1 DEF Send
    <3>2. chat'[c].provider = p
      BY <2>0, <3>1 DEF Awaiting
    <3>3. "limits" \notin damaged /\ ~Torn("limits")
      BY <2>1 DEF Send, Files
    <3>4. ledger.limits = window
      BY <1>1, <3>3 DEF IInv, WindowInv
    <3>5. ~(ledger.limits[p] > now)
      BY <3>1 DEF Selects, Limited
    <3>6. window[p] \in Nat /\ now \in Nat
      BY <1>1 DEF IInv, TypeInv, Limits
    <3> QED
      BY <3>2, <3>4, <3>5, <3>6
  <2>2. ASSUME NEW d \in Chats, Send(d), d # c PROVE FALSE
    <3>1. PICK a \in Budgets, p \in Providers :
            chat' = [chat EXCEPT ![d] = Awaiting(p, a)]
      BY <2>2 DEF Send
    <3> QED
      BY <2>0, <2>2, <3>1
  <2>3. CASE Tick \/ UNCHANGED vars
    BY <2>3 DEF Tick, vars
  <2>4. ASSUME NEW d \in Chats, Completed(d) \/ RateLimited(d) PROVE FALSE
    <3>1. PICK file, x : Read(d, file, x) /\ chat[d].stage = "waiting"
      BY <2>4 DEF Completed, RateLimited
    <3>2. d # c
      BY <3>1
    <3> QED
      BY <2>0, <3>1, <3>2 DEF Read
  <2>5. ASSUME NEW d \in Chats, Failed(d) \/ WriteFails(d) \/ Write(d) PROVE FALSE
    <3>1. chat' = [chat EXCEPT ![d] = Quiet]
      BY <2>5 DEF Failed, WriteFails, Write
    <3> QED
      BY <2>0, <3>1
  <2>6. ASSUME NEW d \in Chats, Truncate(d) PROVE FALSE
    <3>1. chat[d].stage = "read" /\ chat' = [chat EXCEPT ![d].stage = "truncated"]
      BY <2>6 DEF Truncate
    <3>2. d # c
      BY <3>1
    <3> QED
      BY <2>0, <3>1, <3>2
  <2>7. ASSUME NEW d \in Chats, Die(d) PROVE FALSE
    <3>1. chat'[c] = IF SameProcess(d, c) THEN Quiet ELSE chat[c]
      BY <2>7 DEF Die
    <3> QED
      BY <2>0, <3>1
  <2> QED
    BY <1>1, <2>1, <2>2, <2>3, <2>4, <2>5, <2>6, <2>7 DEF Next
<1>2. IInv /\ [Next]_vars => [Respects]_chat
  BY <1>1
<1> QED
  BY <1>2, LedgerInvariant, PTL DEF Spec, WindowsAreRespected

=============================================================================
