---------------------------- MODULE TerminalProofs ----------------------------
(***************************************************************************)
(* Theorems about the two parts of the till of modules Grid and Mirror.    *)
(*                                                                         *)
(* What a till may show for a product, for any stock, any number of        *)
(* fetches under way and any amount of goods put back unannounced.  The    *)
(* statement about the screen is not inductive: an answer under way        *)
(* becomes the screen, so every copy has to obey it.                       *)
(*                                                                         *)
(* What the customer display may show, for any carts, any number of them   *)
(* and any time a banner stays.  The strengthening says what each message  *)
(* under way knows of the carts sent before it, and that the messages      *)
(* arrive in the order in which they were sent, with gaps.                 *)
(***************************************************************************)
EXTENDS Grid, Mirror, TLAPS

(* The product grid.                                                       *)

Drift(c) == Live(c) => /\ Expected - low[c] <= copy[c]
                       /\ copy[c] <= Expected + high[c]

GridInv == GridTypeOK /\ \A c \in Copies : Drift(c)

LEMMA CopyIsInt ==
  ASSUME GridTypeOK, NEW c \in Copies, Live(c)
  PROVE  copy[c] \in Int
BY DEF GridTypeOK, Live

LEMMA GridStarts == GridInit => GridInv
BY GridAssumption DEF GridInit, GridInv, GridTypeOK, Drift, Live, Copies

(* The types.                                                              *)
LEMMA GridTypePreserved ==
  ASSUME GridTypeOK, [GridNext]_gridVars
  PROVE  GridTypeOK'
<1> USE GridAssumption
<1>1. CASE UNCHANGED gridVars
  BY <1>1 DEF GridTypeOK, gridVars
<1>2. ASSUME NEW k \in 1 .. Shelf, Sell(k) PROVE GridTypeOK'
  BY <1>2 DEF GridTypeOK, Sell
<1>3. ASSUME NEW k \in 1 .. Shelf, PutBack(k) PROVE GridTypeOK'
  BY <1>3 DEF GridTypeOK, PutBack
<1>4. ASSUME NEW k \in 1 .. Shelf, TakeOff(k) PROVE GridTypeOK'
  BY <1>4 DEF GridTypeOK, TakeOff, Raised
<1>5. ASSUME NEW k \in 1 .. Shelf, Broadcast(k) PROVE GridTypeOK'
  BY <1>5 DEF GridTypeOK, Broadcast, Announced, Raised
<1>6. ASSUME NEW k \in 1 .. Shelf, StockUpdate(k) PROVE GridTypeOK'
  <2>1. stock' \in Int /\ unsent' \in Nat /\ feed' \in Nat
    BY <1>6 DEF GridTypeOK, StockUpdate
  <2>2. copy' \in [Copies -> Int \cup {Absent}]
    <3>1. CASE Live(Screen)
      <4>1. copy[Screen] - k \in Int
        BY <3>1, CopyIsInt DEF Copies
      <4> QED BY <4>1, <3>1, <1>6 DEF GridTypeOK, StockUpdate, After
    <3>2. CASE ~ Live(Screen)
      BY <3>2, <1>6 DEF GridTypeOK, StockUpdate
    <3> QED BY <3>1, <3>2
  <2>3. low' \in [Copies -> Nat] /\ high' \in [Copies -> Nat]
    BY <1>6 DEF GridTypeOK, StockUpdate, Raised
  <2> QED BY <2>1, <2>2, <2>3, <1>6 DEF GridTypeOK, StockUpdate
<1>7. ASSUME ConnectTill PROVE GridTypeOK'
  BY <1>7 DEF GridTypeOK, ConnectTill
<1>8. ASSUME DisconnectTill PROVE GridTypeOK'
  BY <1>8 DEF GridTypeOK, DisconnectTill, Raised
<1>9. ASSUME NEW f \in Fetches, Ask(f) PROVE GridTypeOK'
  BY <1>9 DEF GridTypeOK, Ask
<1>10. ASSUME NEW f \in Fetches, Read(f) PROVE GridTypeOK'
  <2>1. copy' \in [Copies -> Int \cup {Absent}]
    <3>1. stock \in Int \cup {Absent}
      BY DEF GridTypeOK
    <3>2. copy' = [copy EXCEPT ![f] = stock]
      BY <1>10 DEF Read
    <3> QED BY <3>1, <3>2, Zenon DEF GridTypeOK
  <2>2. low' \in [Copies -> Nat] /\ high' \in [Copies -> Nat]
    <3>1. unsent + feed \in Nat
      BY DEF GridTypeOK
    <3> QED BY <3>1, <1>10 DEF GridTypeOK, Read
  <2> QED BY <2>1, <2>2, <1>10 DEF GridTypeOK, Read
<1>11. ASSUME NEW f \in Fetches, Apply(f) PROVE GridTypeOK'
  BY <1>11 DEF GridTypeOK, Apply, Copies
<1>12. ASSUME NEW f \in Fetches, Lose(f) PROVE GridTypeOK'
  BY <1>12 DEF GridTypeOK, Lose
<1> QED BY <1>1, <1>2, <1>3, <1>4, <1>5, <1>6, <1>7, <1>8, <1>9, <1>10, <1>11,
           <1>12 DEF GridNext

(* Every copy.                                                             *)
LEMMA DriftPreserved ==
  ASSUME GridInv, [GridNext]_gridVars, NEW c \in Copies
  PROVE  Drift(c)'
<1> USE GridAssumption
<1> GridTypeOK /\ Drift(c)
  BY DEF GridInv
<1>0. stock \in Int /\ unsent \in Nat /\ feed \in Nat /\ low[c] \in Nat /\ high[c] \in Nat
  BY DEF GridTypeOK
<1>a. Live(c) => copy[c] \in Int
  BY CopyIsInt
<1>1. CASE UNCHANGED gridVars
  BY <1>1 DEF Drift, Expected, Live, gridVars
<1>2. ASSUME NEW k \in 1 .. Shelf, Sell(k) PROVE Drift(c)'
  BY <1>2, <1>0, <1>a DEF Drift, Expected, Live, Sell
<1>3. ASSUME NEW k \in 1 .. Shelf, PutBack(k) PROVE Drift(c)'
  BY <1>3, <1>0, <1>a DEF Drift, Expected, Live, PutBack
<1>4. ASSUME NEW k \in 1 .. Shelf, TakeOff(k) PROVE Drift(c)'
  BY <1>4, <1>0, <1>a DEF Drift, Expected, Live, TakeOff, Raised
<1>5. ASSUME NEW k \in 1 .. Shelf, Broadcast(k) PROVE Drift(c)'
  <2>1. CASE feed' = feed + k /\ high' = high
    BY <2>1, <1>5, <1>0, <1>a DEF Drift, Expected, Live, Broadcast, Announced
  <2>2. CASE feed' = feed /\ high' = Raised(Copies, k)
    BY <2>2, <1>5, <1>0, <1>a DEF Drift, Expected, Live, Broadcast, Announced, Raised
  <2> QED BY <2>1, <2>2, <1>5 DEF Broadcast
<1>6. ASSUME NEW k \in 1 .. Shelf, StockUpdate(k) PROVE Drift(c)'
  <2>0. feed' = feed - k /\ stock' = stock /\ unsent' = unsent /\ low' = low
    BY <1>6 DEF StockUpdate
  <2>1. CASE c = Screen
    <3>1. high'[c] = high[c]
      BY <2>1, <1>6 DEF StockUpdate, Raised
    <3>2. CASE Live(Screen)
      <4>1. copy'[c] = copy[c] - k
        BY <2>1, <3>2, <1>6 DEF StockUpdate, After, GridTypeOK
      <4> QED BY <4>1, <3>1, <3>2, <2>0, <2>1, <1>0, <1>a DEF Drift, Expected
    <3>3. CASE ~ Live(Screen)
      BY <3>3, <2>1, <1>6 DEF StockUpdate, Drift, Live
    <3> QED BY <3>2, <3>3
  <2>2. CASE c \in Fetches
    <3>1. copy'[c] = copy[c]
      BY <2>2, <1>6 DEF StockUpdate, GridTypeOK
    <3>2. Live(c) => high'[c] = high[c] + k
      BY <2>2, <1>6 DEF StockUpdate, Raised
    <3> QED BY <3>1, <3>2, <2>0, <1>0, <1>a DEF Drift, Expected, Live
  <2> QED BY <2>1, <2>2 DEF Copies
<1>7. ASSUME ConnectTill PROVE Drift(c)'
  BY <1>7 DEF Drift, Expected, Live, ConnectTill
<1>8. ASSUME DisconnectTill PROVE Drift(c)'
  BY <1>8, <1>0, <1>a DEF Drift, Expected, Live, DisconnectTill, Raised
<1>9. ASSUME NEW f \in Fetches, Ask(f) PROVE Drift(c)'
  BY <1>9 DEF Drift, Expected, Live, Ask
<1>10. ASSUME NEW f \in Fetches, Read(f) PROVE Drift(c)'
  <2>0. stock' = stock /\ unsent' = unsent /\ feed' = feed
    BY <1>10 DEF Read
  <2>1. CASE c = f
    <3>1. copy'[c] = stock /\ low'[c] = unsent + feed /\ high'[c] = 0
      BY <2>1, <1>10 DEF Read, GridTypeOK
    <3>2. Expected' - low'[c] = copy'[c] /\ copy'[c] <= Expected' + high'[c]
      BY <3>1, <2>0, <1>0 DEF Expected
    <3>3. Expected' - low'[c] \in Int
      BY <3>1, <2>0, <1>0 DEF Expected
    <3> QED BY <3>2, <3>3 DEF Drift
  <2>2. CASE c # f
    <3>1. copy'[c] = copy[c] /\ low'[c] = low[c] /\ high'[c] = high[c]
      BY <2>2, <1>10 DEF Read, GridTypeOK
    <3> QED BY <3>1, <2>0 DEF Drift, Expected, Live
  <2> QED BY <2>1, <2>2
<1>11. ASSUME NEW f \in Fetches, Apply(f) PROVE Drift(c)'
  <2>0. stock' = stock /\ unsent' = unsent /\ feed' = feed
    BY <1>11 DEF Apply
  <2>1. CASE c = f
    <3>1. copy'[c] = Absent
      BY <2>1, <1>11 DEF Apply, GridTypeOK, Copies
    <3> QED BY <3>1 DEF Drift, Live
  <2>2. CASE c = Screen
    <3>1. copy'[c] = copy[f] /\ low'[c] = low[f] /\ high'[c] = high[f]
      BY <2>2, <1>11 DEF Apply, GridTypeOK, Copies
    <3>2. Drift(f)
      BY DEF GridInv, Copies
    <3> QED BY <3>1, <3>2, <2>0 DEF Drift, Expected, Live
  <2>3. CASE c # f /\ c # Screen
    <3>1. copy'[c] = copy[c] /\ low'[c] = low[c] /\ high'[c] = high[c]
      BY <2>3, <1>11 DEF Apply, GridTypeOK, Copies
    <3> QED BY <3>1, <2>0 DEF Drift, Expected, Live
  <2> QED BY <2>1, <2>2, <2>3
<1>12. ASSUME NEW f \in Fetches, Lose(f) PROVE Drift(c)'
  <2>0. stock' = stock /\ unsent' = unsent /\ feed' = feed
    BY <1>12 DEF Lose
  <2>1. CASE c = f \/ c = Screen
    <3>1. copy'[c] = Absent
      BY <2>1, <1>12 DEF Lose, GridTypeOK, Copies
    <3> QED BY <3>1 DEF Drift, Live
  <2>2. CASE c # f /\ c # Screen
    <3>1. copy'[c] = copy[c] /\ low'[c] = low[c] /\ high'[c] = high[c]
      BY <2>2, <1>12 DEF Lose, GridTypeOK, Copies
    <3> QED BY <3>1, <2>0 DEF Drift, Expected, Live
  <2> QED BY <2>1, <2>2
<1> QED BY <1>1, <1>2, <1>3, <1>4, <1>5, <1>6, <1>7, <1>8, <1>9, <1>10, <1>11,
           <1>12 DEF GridNext

LEMMA GridInvHolds == GridSpec => []GridInv
<1>1. GridInv /\ [GridNext]_gridVars => GridInv'
  BY GridTypePreserved, DriftPreserved DEF GridInv, Copies
<1> QED BY GridStarts, <1>1, PTL DEF GridSpec

(* The stocks and the bookkeeping stay numbers, for every reachable state  *)
(* of the grid (POSPage.tsx keeps subtracting, so a copy may go negative). *)
THEOREM GridTypeCorrect == GridSpec => []GridTypeOK
<1>1. GridInv => GridTypeOK
  BY DEF GridInv
<1> QED BY GridInvHolds, <1>1, PTL

(* DriftExplained: what the till shows is off by no more than what its     *)
(* last refetch overlapped, what the socket lost and what nobody announces *)
(* (the stock_update handler and fetchProducts of POSPage.tsx).            *)
THEOREM DriftIsExplained == GridSpec => []DriftExplained
<1>1. GridInv => DriftExplained
  BY DEF GridInv, Drift, DriftExplained, Copies
<1> QED BY GridInvHolds, <1>1, PTL

-----------------------------------------------------------------------------
(* The customer display.                                                   *)

(* The last positive total among the carts o + 1 to n of l is d; there is  *)
(* none; d is the total of some cart.                                      *)
Latest(d, o, n, l) ==
  d > 0 /\ \E i \in o + 1 .. n : l[i].due = d /\ \A j \in i + 1 .. n : l[j].due <= 0
None(o, n, l) == \A i \in o + 1 .. n : l[i].due <= 0
Known(d, l)   == \E i \in 1 .. Len(l) : l[i].due = d

Good(m, l) ==
  /\ m.n \in 1 .. Len(l) /\ m.opening \in 0 .. Len(l)
  /\ m.items = l[m.n].items
  /\ m.items => m.due = l[m.n].due
  /\ ~ m.items => \/ Latest(m.due, m.opening, m.n, l)
                  \/ m.due <= 0 /\ None(m.opening, m.n, l)

KnownTotal ==
  /\ opening \in 0 .. Len(log)
  /\ \/ Latest(lastTotal, opening, Len(log), log)
     \/ lastTotal = 0 /\ None(opening, Len(log), log)

Queues ==
  /\ \A m \in toServer : Good(m, log)
  /\ \A i \in 1 .. Len(toMirror) : Good(toMirror[i], log)

Screened ==
  /\ handled \in 0 .. Len(log) /\ source \in 0 .. Len(log)
  /\ handled # 0 => IF log[handled].items THEN shown = log[handled] /\ banner = 0
                                          ELSE shown = NoCart
  /\ banner # 0 => \/ Latest(banner, source, handled, log)
                   \/ None(source, handled, log) /\ Known(banner, log)
  /\ last # 0 => Known(last, log)

Counting == banner # 0 => \A t \in timers : t + age >= Display

MirrorInv == MirrorTypeOK /\ KnownTotal /\ Queues /\ Screened /\ Counting

-----------------------------------------------------------------------------
(* Sequences.                                                              *)

LEMMA EmptyFacts == \A S : <<>> \in Seq(S) /\ Len(<<>>) = 0
OBVIOUS

LEMMA TailFacts ==
  ASSUME NEW S, NEW s \in Seq(S), s # <<>>
  PROVE  /\ Head(s) = s[1] /\ 1 \in 1 .. Len(s) /\ Tail(s) \in Seq(S)
         /\ Len(Tail(s)) = Len(s) - 1
         /\ \A i \in 1 .. Len(Tail(s)) : i + 1 \in 1 .. Len(s) /\ Tail(s)[i] = s[i + 1]
OBVIOUS

LEMMA AppendFacts ==
  ASSUME NEW S, NEW s \in Seq(S), NEW x \in S
  PROVE  /\ Append(s, x) \in Seq(S) /\ Len(Append(s, x)) = Len(s) + 1
         /\ Append(s, x)[Len(s) + 1] = x
         /\ \A i \in 1 .. Len(s) : Append(s, x)[i] = s[i]
OBVIOUS

(* What is known of the carts sent stays true when another is.             *)
LEMMA LogGrows ==
  ASSUME NEW l \in Seq(Carts), NEW c \in Carts, NEW o \in Nat, NEW n \in 0 .. Len(l)
  PROVE  /\ \A d : Latest(d, o, n, l) => Latest(d, o, n, Append(l, c))
         /\ None(o, n, l) => None(o, n, Append(l, c))
         /\ \A d : Known(d, l) => Known(d, Append(l, c))
         /\ n # 0 => Append(l, c)[n] = l[n]
<1> DEFINE g == Append(l, c)
<1>0. Len(g) = Len(l) + 1 /\ \A i \in 1 .. Len(l) : g[i] = l[i]
  BY AppendFacts
<1>1. \A i \in o + 1 .. n : g[i] = l[i]
  BY <1>0
<1>2. None(o, n, l) => None(o, n, g)
  BY <1>1 DEF None
<1>3. ASSUME NEW d, Latest(d, o, n, l) PROVE Latest(d, o, n, g)
  <2>2. PICK i \in o + 1 .. n : l[i].due = d /\ \A j \in i + 1 .. n : l[j].due <= 0
    BY <1>3 DEF Latest
  <2>3. g[i].due = d /\ \A j \in i + 1 .. n : g[j].due <= 0
    BY <1>1, <2>2
  <2> QED BY <1>3, <2>3 DEF Latest
<1>4. ASSUME NEW d, Known(d, l) PROVE Known(d, g)
  <2>1. PICK i \in 1 .. Len(l) : l[i].due = d
    BY <1>4 DEF Known
  <2>2. i \in 1 .. Len(g) /\ g[i].due = d
    BY <1>0, <2>1
  <2> HIDE DEF g
  <2> QED BY <2>2 DEF Known
<1>5. n # 0 => g[n] = l[n]
  BY <1>0
<1> QED BY <1>2, <1>3, <1>4, <1>5

LEMMA GoodGrows ==
  ASSUME NEW l \in Seq(Carts), NEW c \in Carts, NEW m \in Message, Good(m, l)
  PROVE  Good(m, Append(l, c))
<1> DEFINE g == Append(l, c)
<1>1. m.n \in 1 .. Len(l) /\ m.opening \in 0 .. Len(l) /\ m.opening \in Nat
      /\ m.n \in 0 .. Len(l) /\ m.n # 0
  BY DEF Good, Message
<1>2. Len(g) = Len(l) + 1
  BY AppendFacts
<1>3. m.n \in 1 .. Len(g) /\ m.opening \in 0 .. Len(g)
  BY <1>1, <1>2
<1>4. g[m.n] = l[m.n]
  BY <1>1, LogGrows
<1>5. None(m.opening, m.n, l) => None(m.opening, m.n, g)
  BY <1>1, LogGrows
<1>6. Latest(m.due, m.opening, m.n, l) => Latest(m.due, m.opening, m.n, g)
  BY <1>1, LogGrows
<1> HIDE DEF g
<1>7. Good(m, g)
  BY <1>3, <1>4, <1>5, <1>6 DEF Good
<1> QED BY <1>7 DEF g

-----------------------------------------------------------------------------
(* The initial states, and the steps.                                      *)

LEMMA MirrorStarts == MirrorInit => MirrorInv
<1> SUFFICES ASSUME MirrorInit PROVE MirrorInv
  OBVIOUS
<1> USE MirrorAssumption
<1>1. MirrorTypeOK
  <2>1. toServer \subseteq Message /\ toMirror \in Seq(Message) /\ log \in Seq(Carts)
    BY EmptyFacts DEF MirrorInit
  <2>2. timers \subseteq 0 .. Display
    BY DEF MirrorInit
  <2>3. cart \in Carts /\ shown \in Carts \cup {NoCart} /\ had \in BOOLEAN
    BY DEF MirrorInit
  <2>4. /\ lastTotal \in Nat /\ last \in Int /\ banner \in Nat /\ handled \in Nat
        /\ source \in Nat /\ opening \in Nat /\ age \in Nat /\ tillLine \in {"connecting", "open", "closed"}
        /\ mirrorLine \in {"down", "up"}
    BY DEF MirrorInit
  <2> QED BY <2>1, <2>2, <2>3, <2>4 DEF MirrorTypeOK
<1>2. KnownTotal
  BY DEF MirrorInit, KnownTotal, None
<1>3. Queues
  BY DEF MirrorInit, Queues
<1>4. Screened /\ Counting
  BY DEF MirrorInit, Screened, Counting
<1> QED BY <1>1, <1>2, <1>3, <1>4 DEF MirrorInv

LEMMA CartFacts ==
  ASSUME NEW c \in Carts
  PROVE  c.items \in BOOLEAN /\ c.due \in Int /\ (~ c.items => c.due <= 0)
BY MirrorAssumption

LEMMA SentFacts ==
  ASSUME MirrorTypeOK, KnownTotal, NEW c \in Carts
  PROVE  /\ Remembered(c) \in Nat /\ Sent(c) \in Message
         /\ Good(Sent(c), Append(log, c))
         /\ \/ Latest(Remembered(c), opening, Len(log) + 1, Append(log, c))
            \/ Remembered(c) = 0 /\ None(opening, Len(log) + 1, Append(log, c))
<1> DEFINE g == Append(log, c)
           N == Len(log)
<1>1. log \in Seq(Carts) /\ N \in Nat /\ lastTotal \in Nat /\ opening \in 0 .. N
  BY DEF MirrorTypeOK, KnownTotal
<1>2. Len(g) = N + 1 /\ g[N + 1] = c /\ \A i \in 1 .. N : g[i] = log[i]
  BY <1>1, AppendFacts
<1>3. c.items \in BOOLEAN /\ c.due \in Int /\ (~ c.items => c.due <= 0)
  BY CartFacts
<1>4. Remembered(c) \in Nat /\ Due(c) \in Int
  BY <1>1, <1>3 DEF Remembered, Due
<1>5. Sent(c) \in Message
  BY <1>1, <1>3, <1>4 DEF Sent, Message
<1>6. \/ Latest(Remembered(c), opening, N + 1, g)
      \/ Remembered(c) = 0 /\ None(opening, N + 1, g)
  <2>1. CASE c.due > 0
    <3>1. Remembered(c) = c.due
      BY <2>1 DEF Remembered
    <3>2. N + 1 \in opening + 1 .. N + 1 /\ \A j \in (N + 1) + 1 .. N + 1 : g[j].due <= 0
      BY <1>1
    <3> HIDE DEF g
    <3> QED BY <3>1, <3>2, <2>1, <1>2 DEF Latest
  <2>2. CASE ~ (c.due > 0)
    <3>1. Remembered(c) = lastTotal /\ c.due <= 0
      BY <2>2, <1>3 DEF Remembered
    <3>2. CASE lastTotal = 0 /\ None(opening, N, log)
      <4>1. None(opening, N + 1, g)
        BY <3>1, <3>2, <1>1, <1>2 DEF None
      <4> QED BY <3>1, <3>2, <4>1
    <3>3. CASE Latest(lastTotal, opening, N, log)
      <4>1. PICK i \in opening + 1 .. N : /\ log[i].due = lastTotal
                                          /\ \A j \in i + 1 .. N : log[j].due <= 0
        BY <3>3 DEF Latest
      <4>2. g[i].due = lastTotal /\ i \in opening + 1 .. N + 1
        BY <4>1, <1>1, <1>2
      <4>3. \A j \in i + 1 .. N + 1 : g[j].due <= 0
        <5>1. TAKE j \in i + 1 .. N + 1
        <5>2. CASE j = N + 1
          BY <5>2, <1>2, <3>1
        <5>3. CASE j # N + 1
          <6>1. j \in i + 1 .. N /\ j \in 1 .. N
            BY <5>3, <1>1, <4>1
          <6> QED BY <6>1, <4>1, <1>2
        <5> QED BY <5>2, <5>3
      <4>4. Latest(lastTotal, opening, N + 1, g)
        BY <4>2, <4>3, <3>3 DEF Latest
      <4> QED BY <4>4, <3>1
    <3> QED BY <3>2, <3>3 DEF KnownTotal
  <2> QED BY <2>1, <2>2
<1>7. Good(Sent(c), g)
  <2>0. Sent(c).n = N + 1 /\ Sent(c).opening = opening /\ Sent(c).items = c.items /\ Sent(c).due = Due(c)
    BY DEF Sent
  <2>1. N + 1 \in 1 .. Len(g) /\ opening \in 0 .. Len(g)
    BY <1>1, <1>2
  <2>2. c.items => Due(c) = c.due
    BY DEF Due
  <2>3. ~ c.items => Latest(Due(c), opening, N + 1, g) \/ (Due(c) <= 0 /\ None(opening, N + 1, g))
    <3>1. CASE c.items
      BY <3>1
    <3>2. CASE ~ c.items /\ Remembered(c) > 0
      <4>1. Due(c) = Remembered(c) /\ Remembered(c) # 0
        BY <3>2, <1>4 DEF Due
      <4> QED BY <4>1, <1>6
    <3>3. CASE ~ c.items /\ ~ (Remembered(c) > 0)
      <4>1. Due(c) = c.due /\ c.due <= 0
        BY <3>3, <1>3 DEF Due
      <4>2. ~ Latest(Remembered(c), opening, N + 1, g)
        BY <3>3 DEF Latest
      <4> QED BY <4>1, <4>2, <1>6
    <3> QED BY <3>1, <3>2, <3>3
  <2> HIDE DEF g
  <2> QED BY <2>0, <2>1, <2>2, <2>3, <1>2 DEF Good
<1> QED BY <1>4, <1>5, <1>6, <1>7


LEMMA HeadFacts ==
  ASSUME MirrorTypeOK, Queues, toMirror # <<>>
  PROVE  LET m == Head(toMirror)
         IN  m \in Message /\ Good(m, log) /\ m.n \in 1 .. Len(log)
<1> DEFINE m == Head(toMirror)
<1>1. m = toMirror[1] /\ 1 \in 1 .. Len(toMirror)
  BY TailFacts DEF MirrorTypeOK
<1>2. m \in Message
  BY <1>1 DEF MirrorTypeOK
<1>3. Good(m, log)
  BY <1>1 DEF Queues
<1> QED BY <1>2, <1>3 DEF Good

(* The types.                                                              *)
LEMMA MirrorTypePreserved ==
  ASSUME MirrorTypeOK, KnownTotal, Queues, [MirrorNext]_mirrorVars
  PROVE  MirrorTypeOK'
<1> USE MirrorAssumption
<1>1. CASE UNCHANGED mirrorVars
  BY <1>1 DEF MirrorTypeOK, mirrorVars, till, display
<1>2. ASSUME NEW c \in Carts, ChangeCart(c) PROVE MirrorTypeOK'
  <2>1. Sent(c) \in Message /\ Remembered(c) \in Nat
    BY SentFacts
  <2>2. CASE tillLine = "open"
    <3>1. log' = Append(log, c) /\ toServer' = toServer \cup {Sent(c)}
          /\ lastTotal' = Remembered(c)
      BY <2>2, <1>2 DEF ChangeCart
    <3>2. log' \in Seq(Carts) /\ toServer' \subseteq Message
      BY <3>1, <2>1 DEF MirrorTypeOK
    <3> QED BY <3>1, <3>2, <2>1, <1>2 DEF MirrorTypeOK, ChangeCart, display
  <2>3. CASE tillLine # "open"
    BY <2>3, <1>2 DEF MirrorTypeOK, ChangeCart, display
  <2> QED BY <2>2, <2>3
<1>3. CASE OpenTill
  BY <1>3 DEF MirrorTypeOK, OpenTill, display
<1>4. CASE CloseTill
  <2>1. toServer' \subseteq Message
    BY <1>4 DEF MirrorTypeOK, CloseTill
  <2> QED BY <2>1, <1>4 DEF MirrorTypeOK, CloseTill, display
<1>a. CASE ReopenTill
  <2>1. opening' \in Nat
    BY <1>a DEF MirrorTypeOK, ReopenTill
  <2> QED BY <2>1, <1>a DEF MirrorTypeOK, ReopenTill, display
<1>5. CASE Relay
  <2>0. PICK m \in toServer : /\ toServer' = toServer \ {m}
                              /\ toMirror' = Append(toMirror, m) \/ toMirror' = toMirror
    BY <1>5 DEF Relay
  <2>1. toServer' \subseteq Message
    BY <2>0 DEF MirrorTypeOK
  <2>2. toMirror' \in Seq(Message)
    <3>1. m \in Message
      BY <2>0 DEF MirrorTypeOK
    <3>2. Append(toMirror, m) \in Seq(Message)
      BY <3>1 DEF MirrorTypeOK
    <3> QED BY <3>2, <2>0 DEF MirrorTypeOK
  <2> QED BY <2>1, <2>2, <1>5 DEF MirrorTypeOK, Relay, display
<1>6. CASE ConnectMirror
  BY <1>6 DEF MirrorTypeOK, ConnectMirror, till, display
<1>7. CASE DisconnectMirror
  BY <1>7 DEF MirrorTypeOK, DisconnectMirror, till, display
<1>8. CASE ReloadMirror
  <2>1. toMirror' \in Seq(Message)
    BY <1>8, EmptyFacts DEF ReloadMirror
  <2>2. timers' \subseteq 0 .. Display
    BY <1>8 DEF ReloadMirror
  <2>3. shown' \in Carts \cup {NoCart} /\ had' \in BOOLEAN
    BY <1>8 DEF ReloadMirror
  <2>4. last' \in Int /\ banner' \in Nat /\ handled' \in Nat /\ source' \in Nat /\ age' \in Nat
        /\ mirrorLine' \in {"down", "up"}
    BY <1>8 DEF ReloadMirror
  <2> QED BY <2>1, <2>2, <2>3, <2>4, <1>8 DEF MirrorTypeOK, ReloadMirror, till
<1>9. CASE CartUpdate
  <2> DEFINE m == Head(toMirror)
  <2>1. toMirror # <<>>
    BY <1>9 DEF CartUpdate
  <2>2. /\ m \in Message /\ Good(m, log) /\ m.n \in 1 .. Len(log)
    BY <2>1, HeadFacts
  <2>3. toMirror' \in Seq(Message)
    BY <1>9, <2>1, TailFacts DEF MirrorTypeOK, CartUpdate
  <2>4. /\ had' = m.items
        /\ shown' = IF m.items THEN [items |-> TRUE, due |-> m.due] ELSE NoCart
        /\ last' = IF m.items /\ m.due # 0 THEN m.due ELSE last
        /\ banner' = Banner(m) /\ timers' = Timers(m) /\ age' = 0 /\ handled' = m.n
        /\ source' = m.opening /\ UNCHANGED <<till, mirrorLine>>
    BY <1>9 DEF CartUpdate
  <2>5. shown' \in Carts \cup {NoCart}
    <3>1. CASE m.items
      <4>1. log[m.n] \in Carts /\ log[m.n] \in [items : BOOLEAN, due : Int]
        BY <2>2 DEF MirrorTypeOK
      <4>2. log[m.n].items = TRUE /\ log[m.n].due = m.due
        BY <2>2, <3>1, <4>1 DEF Good
      <4>3. [items |-> TRUE, due |-> m.due] = log[m.n]
        BY <4>1, <4>2
      <4> QED BY <4>1, <4>3, <2>4, <3>1
    <3>2. CASE ~ m.items
      BY <3>2, <2>4
    <3> QED BY <3>1, <3>2
  <2>6. m.items \in BOOLEAN /\ m.due \in Int /\ m.n \in Nat /\ m.opening \in Nat
    BY <2>2 DEF Message
  <2> HIDE DEF m
  <2>7. last' \in Int /\ handled' \in Nat /\ source' \in Nat /\ had' \in BOOLEAN /\ age' \in Nat
    BY <2>4, <2>6 DEF MirrorTypeOK
  <2>8. banner' \in Nat
    BY <2>4, <2>6 DEF MirrorTypeOK, Banner, Thanks, Amount
  <2>9. timers' \subseteq 0 .. Display
    BY <2>4 DEF MirrorTypeOK, Timers
  <2> QED BY <2>3, <2>4, <2>5, <2>7, <2>8, <2>9 DEF MirrorTypeOK, till
<1>10. CASE Tick
  <2>1. timers' \subseteq 0 .. Display
    <3>1. \A t \in timers : t - 1 \in 0 .. Display
      <4>1. TAKE t \in timers
      <4>2. t \in 0 .. Display /\ t # 0
        BY <1>10 DEF MirrorTypeOK, Tick
      <4> QED BY <4>2
    <3> QED BY <3>1, <1>10 DEF Tick
  <2> QED BY <2>1, <1>10 DEF MirrorTypeOK, Tick, till
<1>11. CASE TimerFires
  BY <1>11 DEF MirrorTypeOK, TimerFires, till
<1> QED BY <1>1, <1>2, <1>3, <1>4, <1>a, <1>5, <1>6, <1>7, <1>8, <1>9, <1>10, <1>11
        DEF MirrorNext


(* What the till remembers.                                                *)
LEMMA KnownTotalPreserved ==
  ASSUME MirrorTypeOK, KnownTotal, [MirrorNext]_mirrorVars
  PROVE  KnownTotal'
<1>1. CASE UNCHANGED <<lastTotal, opening, log>>
  BY <1>1 DEF KnownTotal
<1>2. ASSUME NEW c \in Carts, ChangeCart(c), tillLine = "open" PROVE KnownTotal'
  <2>1. lastTotal' = Remembered(c) /\ log' = Append(log, c) /\ opening' = opening
    BY <1>2 DEF ChangeCart
  <2>2. Len(log') = Len(log) + 1
    BY <2>1, AppendFacts DEF MirrorTypeOK
  <2>3. opening' \in 0 .. Len(log')
    BY <2>1, <2>2 DEF KnownTotal, MirrorTypeOK
  <2> QED BY <2>1, <2>2, <2>3, SentFacts DEF KnownTotal
<1>3. CASE ReopenTill
  <2>1. lastTotal' = 0 /\ opening' = Len(log) /\ log' = log /\ Len(log) \in Nat
    BY <1>3 DEF ReopenTill, MirrorTypeOK
  <2>2. None(Len(log), Len(log), log)
    BY <2>1 DEF None
  <2> QED BY <2>1, <2>2 DEF KnownTotal
<1> QED BY <1>1, <1>2, <1>3 DEF MirrorNext, ChangeCart, OpenTill, CloseTill, Relay,
           ConnectMirror, DisconnectMirror, ReloadMirror, CartUpdate, Tick, TimerFires,
           mirrorVars, till

(* What is under way.                                                      *)
LEMMA QueuesPreserved ==
  ASSUME MirrorTypeOK, KnownTotal, Queues, [MirrorNext]_mirrorVars
  PROVE  Queues'
<1> toServer \subseteq Message /\ toMirror \in Seq(Message) /\ log \in Seq(Carts)
  BY DEF MirrorTypeOK
<1>1. CASE UNCHANGED <<toServer, toMirror, log>>
  BY <1>1 DEF Queues
<1>2. ASSUME NEW c \in Carts, ChangeCart(c), tillLine = "open" PROVE Queues'
  <2> DEFINE g == Append(log, c)
  <2>1. log' = g /\ toServer' = toServer \cup {Sent(c)} /\ toMirror' = toMirror
    BY <1>2 DEF ChangeCart
  <2>2. \A m \in toServer : Good(m, g)
    BY GoodGrows DEF Queues
  <2>3. \A i \in 1 .. Len(toMirror) : Good(toMirror[i], g)
    <3>1. TAKE i \in 1 .. Len(toMirror)
    <3>2. toMirror[i] \in Message /\ Good(toMirror[i], log)
      BY DEF Queues
    <3> QED BY <3>2, GoodGrows
  <2>4. Good(Sent(c), g)
    BY SentFacts
  <2> HIDE DEF g
  <2> QED BY <2>1, <2>2, <2>3, <2>4 DEF Queues
<1>4. CASE CloseTill
  <2>1. toServer' \subseteq toServer /\ toMirror' = toMirror /\ log' = log
    BY <1>4 DEF CloseTill
  <2> QED BY <2>1 DEF Queues
<1>5. CASE Relay
  <2>1. PICK m \in toServer : /\ toServer' = toServer \ {m}
                              /\ toMirror' = Append(toMirror, m) \/ toMirror' = toMirror
    BY <1>5 DEF Relay
  <2>2. log' = log /\ Good(m, log) /\ m \in Message
    BY <1>5, <2>1 DEF Relay, Queues
  <2>3. CASE toMirror' = Append(toMirror, m)
    <3> DEFINE q == Append(toMirror, m)
    <3>1. /\ Len(q) = Len(toMirror) + 1 /\ q[Len(toMirror) + 1] = m
          /\ \A i \in 1 .. Len(toMirror) : q[i] = toMirror[i]
      BY <2>2, AppendFacts
    <3>2. \A i \in 1 .. Len(q) : i \in 1 .. Len(toMirror) \/ i = Len(toMirror) + 1
      BY <3>1
    <3> HIDE DEF q
    <3>3. \A i \in 1 .. Len(q) : Good(q[i], log)
      BY <3>1, <3>2, <2>2 DEF Queues
    <3>4. toMirror' = q
      BY <2>3 DEF q
    <3> QED BY <3>3, <3>4, <2>1, <2>2 DEF Queues
  <2>4. CASE toMirror' = toMirror
    BY <2>1, <2>2, <2>4 DEF Queues
  <2> QED BY <2>1, <2>3, <2>4
<1>7. CASE DisconnectMirror \/ ReloadMirror
  <2>1. toMirror' = <<>> /\ toServer' = toServer /\ log' = log
    BY <1>7 DEF DisconnectMirror, ReloadMirror, till
  <2> QED BY <2>1, EmptyFacts DEF Queues
<1>9. CASE CartUpdate
  <2>1. /\ toServer' = toServer /\ log' = log
        /\ \A i \in 1 .. Len(toMirror') :
             i + 1 \in 1 .. Len(toMirror) /\ toMirror'[i] = toMirror[i + 1]
    BY <1>9, TailFacts DEF CartUpdate, till
  <2> QED BY <2>1 DEF Queues
<1> QED BY <1>1, <1>2, <1>4, <1>5, <1>7, <1>9 DEF MirrorNext, ChangeCart, OpenTill,
           ReopenTill, ConnectMirror, Tick, TimerFires, mirrorVars, till

(* What is on the screen.                                                  *)
LEMMA ScreenedPreserved ==
  ASSUME MirrorTypeOK, Queues, Screened, [MirrorNext]_mirrorVars
  PROVE  Screened'
<1> /\ log \in Seq(Carts) /\ handled \in 0 .. Len(log)
    /\ source \in 0 .. Len(log) /\ source \in Nat
  BY DEF MirrorTypeOK, Screened
<1>1. CASE UNCHANGED <<shown, last, banner, handled, source, log>>
  BY <1>1 DEF Screened
<1>2. ASSUME NEW c \in Carts, ChangeCart(c), tillLine = "open" PROVE Screened'
  <2> DEFINE g == Append(log, c)
  <2>1. log' = g /\ UNCHANGED <<shown, last, banner, handled, source>>
    BY <1>2 DEF ChangeCart, display
  <2>2. Len(g) = Len(log) + 1
    BY AppendFacts
  <2>3. /\ Latest(banner, source, handled, log) => Latest(banner, source, handled, g)
        /\ None(source, handled, log) => None(source, handled, g)
        /\ Known(banner, log) => Known(banner, g)
        /\ Known(last, log) => Known(last, g)
        /\ handled # 0 => g[handled] = log[handled]
    BY LogGrows
  <2> HIDE DEF g
  <2>4. handled \in 0 .. Len(g) /\ source \in 0 .. Len(g)
    BY <2>2
  <2> QED BY <2>1, <2>3, <2>4 DEF Screened
<1>3. CASE ReloadMirror
  BY <1>3 DEF Screened, ReloadMirror, till
<1>4. CASE CartUpdate
  <2> DEFINE m == Head(toMirror)
  <2>1. toMirror # <<>> /\ log' = log
    BY <1>4 DEF CartUpdate, till
  <2>2. /\ m \in Message /\ Good(m, log) /\ m.n \in 1 .. Len(log)
        /\ m.opening \in 0 .. Len(log)
    BY <2>1, HeadFacts DEF Good
  <2>3. /\ shown' = IF m.items THEN [items |-> TRUE, due |-> m.due] ELSE NoCart
        /\ last' = IF m.items /\ m.due # 0 THEN m.due ELSE last
        /\ banner' = Banner(m) /\ handled' = m.n /\ source' = m.opening
    BY <1>4 DEF CartUpdate
  <2>4. /\ log[m.n] \in Carts /\ log[m.n] \in [items : BOOLEAN, due : Int]
        /\ m.items = log[m.n].items /\ (m.items => m.due = log[m.n].due)
        /\ m.due \in Int /\ m.n \in Nat /\ last \in Int
    BY <2>2, MirrorAssumption DEF MirrorTypeOK, Good, Message
  <2>5. m.items => shown' = log[m.n] /\ banner' = 0
    <3>1. ASSUME m.items PROVE log[m.n] = [items |-> TRUE, due |-> m.due]
      BY <3>1, <2>4
    <3> HIDE DEF m
    <3> QED BY <3>1, <2>3 DEF Banner, Thanks
  <2>7. banner' # 0 => \/ Latest(banner', m.opening, m.n, log)
                       \/ None(m.opening, m.n, log) /\ Known(banner', log)
    <3>1. SUFFICES ASSUME banner' # 0
                   PROVE  \/ Latest(banner', m.opening, m.n, log)
                          \/ None(m.opening, m.n, log) /\ Known(banner', log)
      OBVIOUS
    <3>2. ~ m.items /\ banner' = Amount(m) /\ Amount(m) > 0
      BY <3>1, <2>3 DEF Banner, Thanks
    <3>3. CASE m.due > 0
      <4>1. banner' = m.due
        BY <3>2, <3>3 DEF Amount
      <4>2. Latest(m.due, m.opening, m.n, log)
        BY <3>2, <3>3, <2>2, <2>4 DEF Good
      <4> QED BY <4>1, <4>2
    <3>4. CASE ~ (m.due > 0)
      <4>1. last > 0 /\ banner' = last
        BY <3>2, <3>4 DEF Amount
      <4>2. Known(banner', log)
        BY <4>1 DEF Screened
      <4>3. ~ Latest(m.due, m.opening, m.n, log)
        BY <3>4 DEF Latest
      <4> QED BY <4>2, <4>3, <3>2, <2>2 DEF Good
    <3> QED BY <3>3, <3>4
  <2>8. last' # 0 => Known(last', log)
    <3>1. CASE m.items /\ m.due # 0
      <4>1. last' = log[m.n].due
        BY <3>1, <2>3, <2>4
      <4> QED BY <4>1, <2>2 DEF Known
    <3>2. CASE ~ (m.items /\ m.due # 0)
      BY <3>2, <2>3 DEF Screened
    <3> QED BY <3>1, <3>2
  <2>9. ~ m.items => shown' = NoCart
    BY <2>3
  <2>10. handled' \in 0 .. Len(log) /\ source' \in 0 .. Len(log)
    BY <2>2, <2>3
  <2> HIDE DEF m
  <2> QED BY <2>1, <2>3, <2>4, <2>5, <2>7, <2>8, <2>9, <2>10 DEF Screened
<1>5. CASE TimerFires
  BY <1>5 DEF Screened, TimerFires, till
<1> QED BY <1>1, <1>2, <1>3, <1>4, <1>5 DEF MirrorNext, ChangeCart, OpenTill, CloseTill,
           ReopenTill, Relay, ConnectMirror, DisconnectMirror, Tick, mirrorVars, till, display

(* The time left and the time passed.                                      *)
LEMMA CountingPreserved ==
  ASSUME MirrorTypeOK, Counting, [MirrorNext]_mirrorVars
  PROVE  Counting'
<1>1. CASE UNCHANGED <<banner, timers, age>>
  BY <1>1 DEF Counting
<1>2. CASE ReloadMirror
  BY <1>2 DEF Counting, ReloadMirror
<1>3. CASE CartUpdate
  <2> DEFINE m == Head(toMirror)
  <2>1. banner' = Banner(m) /\ timers' = Timers(m) /\ age' = 0
    BY <1>3 DEF CartUpdate
  <2> HIDE DEF m
  <2>2. banner' # 0 => timers' = {Display}
    BY <2>1 DEF Banner, Timers
  <2> QED BY <2>1, <2>2, MirrorAssumption DEF Counting
<1>4. CASE Tick
  <2>1. banner' = banner /\ age' = age + 1 /\ timers' = {t - 1 : t \in timers}
    BY <1>4 DEF Tick
  <2>2. ASSUME banner' # 0, NEW t \in timers' PROVE t + age' >= Display
    <3>1. PICK u \in timers : t = u - 1
      BY <2>1, <2>2
    <3>2. u \in Int /\ age \in Int /\ u + age >= Display /\ Display \in Int
      BY <2>1, <2>2, MirrorAssumption DEF Counting, MirrorTypeOK
    <3> QED BY <3>1, <3>2, <2>1
  <2> QED BY <2>2 DEF Counting
<1>5. CASE TimerFires
  BY <1>5 DEF Counting, TimerFires
<1> QED BY <1>1, <1>2, <1>3, <1>4, <1>5 DEF MirrorNext, ChangeCart, OpenTill, CloseTill,
           ReopenTill, Relay, ConnectMirror, DisconnectMirror, mirrorVars, till, display

LEMMA MirrorInvHolds == MirrorSafety => []MirrorInv
<1>1. MirrorInv /\ [MirrorNext]_mirrorVars => MirrorInv'
  BY MirrorTypePreserved, KnownTotalPreserved, QueuesPreserved, ScreenedPreserved,
     CountingPreserved DEF MirrorInv
<1> QED BY MirrorStarts, <1>1, PTL DEF MirrorSafety

-----------------------------------------------------------------------------
(* The theorems.                                                           *)

(* Types: carts, messages and timers of MirrorDisplayPage.tsx, in every    *)
(* reachable state.                                                        *)
THEOREM MirrorTypeCorrect == MirrorSafety => []MirrorTypeOK
<1>1. MirrorInv => MirrorTypeOK
  BY DEF MirrorInv
<1> QED BY MirrorInvHolds, <1>1, PTL

(* ShowsCart: once the message of the till's last change is handled, the   *)
(* display shows that cart, whatever was lost before (onmessage of         *)
(* MirrorDisplayPage.tsx).                                                 *)
THEOREM CartIsShown == MirrorSafety => []ShowsCart
<1>1. MirrorInv => ShowsCart
  BY DEF MirrorInv, Screened, ShowsCart
<1> QED BY MirrorInvHolds, <1>1, PTL

(* ThanksForAsked: the amount on the banner is the last positive total the *)
(* till asked for since its page was opened, or, if it asked for none, one *)
(* it had asked for at some time (lastGrandTotalRef on either side of the  *)
(* socket), however often the page was left with the cart kept.            *)
THEOREM ThanksForWhatWasAsked == MirrorSafety => []ThanksForAsked
<1>1. MirrorInv => ThanksForAsked
  BY DEF MirrorInv, Screened, ThanksForAsked, LastAsked, Latest, None, Known
<1> QED BY MirrorInvHolds, <1>1, PTL

(* BannerStays: a banner is not taken down early by an older timer         *)
(* (successTimerRef).                                                      *)
THEOREM BannerIsNotCut == MirrorSafety => BannerStays
<1>1. ASSUME MirrorInv, [MirrorNext]_mirrorVars
      PROVE  [banner # 0 /\ banner' = 0 =>
                age >= Display \/ CartUpdate \/ ReloadMirror]_mirrorVars
  <2>1. SUFFICES ASSUME banner # 0, banner' = 0
                 PROVE  age >= Display \/ CartUpdate \/ ReloadMirror
    OBVIOUS
  <2>2. CASE UNCHANGED banner
    BY <2>1, <2>2
  <2>3. CASE TimerFires
    BY <2>1, <2>3, <1>1, MirrorAssumption DEF MirrorInv, Counting, MirrorTypeOK, TimerFires
  <2> QED BY <1>1, <2>2, <2>3 DEF MirrorNext, ChangeCart, OpenTill, CloseTill, ReopenTill,
             Relay, ConnectMirror, DisconnectMirror, Tick, mirrorVars, till, display
<1> QED BY MirrorInvHolds, <1>1, PTL DEF MirrorSafety, BannerStays
=============================================================================
