----------------------------- MODULE StudioProofs ------------------------------
(***************************************************************************)
(* What holds of the components of the studio for every value of their     *)
(* constants: the option trades of a maker (DeriveTrades), the history of  *)
(* option chains (GexChain), a market-data connection (WsSession), the     *)
(* footprints of a chart (ChartTrades) and its volume bubbles              *)
(* (BubbleSummaries).  Each part has its inductive invariant, one lemma    *)
(* for each action, and the theorems at its end.                           *)
(***************************************************************************)
EXTENDS DeriveTrades, GexChain, WsSession, ChartTrades, BubbleSummaries,
        NatSets, FiniteSetTheorems, SequenceTheorems

--------------------------------------------------------------------------------
(* DeriveTrades. *)

(* What the coordinator and the cache are made of. *)
OptionLists == SUBSET Options

Delays == [delay : 0 .. BackoffMax, retryAfter : Nat]

Requests == [from : Nat, to : Nat, first : BOOLEAN, options : OptionLists]

Desks ==
    [subscribed : BOOLEAN, loaded : BOOLEAN,
     options : OptionLists, optionsAt : 0 .. LastMoment, asking : 0 .. LastMoment,
     forceOptions : BOOLEAN, optionsFail : Delays,
     trades : SUBSET tape, since : 0 .. LastMoment, watermark : 0 .. LastMoment,
     tradesAt : 0 .. LastMoment, request : {NoRequest} \cup Requests,
     forceTrades : BOOLEAN, tradesFail : Delays]

(* `trades` has the trades of the retained time from since up to the overlap before mark,     *)
(* apart from the dropped ones.                                                              *)
HeldUpTo(trades, since, mark) ==
    \A t \in tape \ dropped :
       /\ since <= t.at /\ t.at + Overlap < mark
       /\ t.at + Retention >= moment
       => t \in trades

(* A request begins where the watermark it was made from lets it, and the watermark has not  *)
(* moved since.                                                                              *)
RequestFits(d) ==
    d.request # NoRequest =>
       /\ d.loaded
       /\ d.request.from <= d.request.to /\ d.request.to <= moment
       /\ d.watermark <= d.request.to
       /\ d.request.first <=> d.watermark = Unset
       /\ ~d.request.first => d.request.from = Back(d.watermark, Overlap)

GoodDesk(d) ==
    /\ d \in Desks
    /\ d.watermark <= moment
    /\ \A t \in d.trades : t.at <= d.watermark
    /\ RequestFits(d)
    /\ d.watermark # Unset => HeldUpTo(d.trades, d.since, d.watermark)
    /\ ~d.loaded => d.watermark = Unset

GoodStore ==
    /\ stored \in [trades : SUBSET tape, since : 0 .. LastMoment]
    /\ \A n \in stored.trades : n.at <= moment /\ HeldUpTo(stored.trades, stored.since, n.at)

DeriveBase ==
    /\ moment \in 1 .. LastMoment /\ tape \in Tapes /\ breaks \in 0 .. MaxBreaks
    /\ dropped \subseteq tape

DeriveInv == DeriveBase /\ GoodDesk(desk) /\ GoodStore

(* The constants as numbers. *)
LEMMA DeriveConstants ==
    /\ LastMoment \in Nat \ {0} /\ Overlap \in Nat /\ FirstSpan \in Nat
    /\ Retention \in Nat /\ ListLife \in Nat /\ BackoffBase \in Nat /\ BackoffMax \in Nat
    /\ BackoffBase <= BackoffMax /\ MaxBreaks \in Nat
BY DeriveAssumption

(* When a trade of the tape was, and when it is settled. *)
LEMMA TapeIs ==
  ASSUME DeriveBase
  PROVE  \A t \in tape : t.at \in Nat /\ t.settled \in t.at .. t.at + Overlap
BY DeriveAssumption DEF DeriveBase

(* newest: the time of a latest trade. *)
LEMMA NewestIs ==
  ASSUME DeriveBase, NEW T, T \subseteq tape, T # {}, NEW N \in Nat,
         \A t \in T : t.at <= N
  PROVE  /\ \E t \in T : Newest(T) = t.at
         /\ \A t \in T : t.at <= Newest(T)
         /\ Newest(T) \in 0 .. N
<1> DEFINE A == {t.at : t \in T}
<1>1. A \subseteq 0 .. N /\ A # {}
  BY TapeIs
<1>2. \E x \in A : \A y \in A : x >= y
  <2> HIDE DEF A
  <2> QED BY <1>1, GreatestNat
<1>3. Newest(T) \in A /\ \A y \in A : Newest(T) >= y
  BY <1>2 DEF Newest, Max
<1>4. \E t \in T : Newest(T) = t.at
  BY <1>3
<1>5. \A t \in T : Newest(T) >= t.at
  BY <1>3
<1>6. ASSUME NEW t \in T PROVE t.at <= Newest(T)
  BY <1>1, <1>3, <1>5, TapeIs
<1>7. Newest(T) \in 0 .. N
  BY <1>1, <1>3
<1> QED BY <1>4, <1>6, <1>7

(* saturating_sub on times. *)
LEMMA BackIs == \A a, b \in Nat : Back(a, b) \in Nat /\ Back(a, b) <= a /\ Back(a, b) + b >= a
BY DEF Back

(* A fresh desk holds what the store holds of a fresh tape. *)
LEMMA DeriveInitially == DeriveInit => DeriveInv
<1> SUFFICES ASSUME DeriveInit PROVE DeriveInv
  OBVIOUS
<1>1. DeriveBase
  BY DeriveConstants DEF DeriveInit, DeriveBase
<1>2. NewDesk \in Desks
  <2>1. Fine \in Delays
    BY DeriveConstants DEF Fine, Delays
  <2> QED BY <2>1, DeriveConstants DEF NewDesk, Desks, OptionLists, Unset
<1>3. GoodDesk(desk)
  BY <1>1, <1>2 DEF GoodDesk, DeriveInit, NewDesk, RequestFits, Unset, DeriveBase
<1>4. GoodStore
  BY DeriveConstants DEF GoodStore, DeriveInit, NoTrades, Unset
<1> QED BY <1>1, <1>3, <1>4 DEF DeriveInv

(* ensure_loaded: what the store holds comes back, with the watermark of its newest trade. *)
LEMMA LoadedIsGood ==
  ASSUME DeriveBase, GoodStore, NEW d, GoodDesk(d)
  PROVE  GoodDesk(Loaded(d)) /\ Loaded(d).loaded
<1> DEFINE recent == {t \in stored.trades : t.at + Retention >= moment /\ t.at <= moment}
           e == [d EXCEPT !.loaded = TRUE]
           mark == Newest(recent)
           f == [d EXCEPT !.loaded = TRUE, !.trades = recent, !.since = stored.since,
                          !.watermark = mark]
<1>1. CASE d.loaded
  BY <1>1 DEF Loaded
<1>2. CASE ~d.loaded /\ recent = {}
  <2>1. Loaded(d) = e
    BY <1>2 DEF Loaded
  <2>2. /\ e \in Desks /\ e.loaded /\ e.watermark = d.watermark /\ e.trades = d.trades
        /\ e.since = d.since /\ e.request = d.request
    BY DEF GoodDesk, Desks
  <2>3. GoodDesk(e)
    <3> HIDE DEF e
    <3> QED BY <2>2 DEF GoodDesk, RequestFits
  <2> QED BY <2>1, <2>2, <2>3
<1>3. CASE ~d.loaded /\ recent # {}
  <2>1. Loaded(d) = f
    BY <1>3 DEF Loaded
  <2>2. recent \subseteq stored.trades /\ recent \subseteq tape
    BY DEF GoodStore
  <2>3. /\ \E t \in recent : mark = t.at
        /\ \A t \in recent : t.at <= mark
        /\ mark \in 0 .. moment
    <3>1. moment \in Nat /\ \A t \in recent : t.at <= moment
      BY DEF DeriveBase
    <3> HIDE DEF recent
    <3> QED BY <1>3, <2>2, <3>1, NewestIs
  <2>4. HeldUpTo(recent, stored.since, mark)
    <3>1. PICK n \in recent : mark = n.at
      BY <2>3
    <3>2. HeldUpTo(stored.trades, stored.since, n.at) /\ n.at <= moment
      BY <2>2, <3>1 DEF GoodStore
    <3>3. ASSUME NEW t \in tape \ dropped, stored.since <= t.at,
                 t.at + Overlap < n.at, t.at + Retention >= moment
          PROVE  t \in recent
      <4>1. t \in stored.trades
        BY <3>2, <3>3 DEF HeldUpTo
      <4>2. t.at <= moment
        <5>1. n \in tape
          BY <2>2
        <5> QED BY <3>2, <3>3, <5>1, TapeIs, DeriveConstants DEF DeriveBase
      <4> QED BY <3>3, <4>1, <4>2
    <3> HIDE DEF recent, mark
    <3> QED BY <3>1, <3>3 DEF HeldUpTo
  <2>5. /\ f \in Desks /\ f.loaded /\ f.watermark = mark /\ f.trades = recent
        /\ f.since = stored.since /\ f.request = d.request
    <3>1. mark \in 0 .. LastMoment /\ stored.since \in 0 .. LastMoment
      BY <2>3, DeriveConstants DEF GoodStore, DeriveBase
    <3> HIDE DEF recent, mark
    <3> QED BY <2>2, <3>1 DEF GoodDesk, Desks
  <2>6. GoodDesk(f)
    <3>1. f.request = NoRequest
      BY <1>3, <2>5 DEF GoodDesk, RequestFits
    <3>2. f.watermark <= moment
      BY <2>3, <2>5, DeriveConstants DEF DeriveBase
    <3> HIDE DEF recent, mark, f
    <3> QED BY <2>3, <2>4, <2>5, <3>1, <3>2 DEF GoodDesk, RequestFits
  <2> QED BY <2>1, <2>5, <2>6
<1> QED BY <1>1, <1>2, <1>3

(* What a desk has apart from its flags and delays. *)
SameHoldings(d, e) ==
    /\ e.trades = d.trades /\ e.since = d.since /\ e.watermark = d.watermark
    /\ e.request = d.request /\ e.loaded = d.loaded

(* The flags of the desk play no part in what it holds. *)
LEMMA FlagsAreFree ==
  ASSUME NEW d, NEW e, GoodDesk(d), e \in Desks, SameHoldings(d, e)
  PROVE  GoodDesk(e)
BY DEF GoodDesk, RequestFits, SameHoldings

(* A consumer joins or leaves. *)
LEMMA ConsumersIsGood ==
  ASSUME DeriveBase, GoodStore, NEW d, GoodDesk(d), NEW wanted \in BOOLEAN
  PROVE  GoodDesk(Consumers(d, wanted))
<1>1. CASE wanted /\ ~d.subscribed
  <2>1. PICK l : l = Loaded(d)
    OBVIOUS
  <2>2. GoodDesk(l)
    BY <2>1, LoadedIsGood
  <2>3. PICK e : e = [l EXCEPT !.subscribed = TRUE, !.forceOptions = TRUE, !.forceTrades = TRUE]
    OBVIOUS
  <2>4. e \in Desks /\ SameHoldings(l, e)
    BY <2>2, <2>3 DEF GoodDesk, Desks, SameHoldings
  <2>5. Consumers(d, wanted) = e
    BY <1>1, <2>1, <2>3 DEF Consumers
  <2> QED BY <2>2, <2>4, <2>5, FlagsAreFree
<1>2. CASE ~(wanted /\ ~d.subscribed)
  <2>1. PICK e : e = [d EXCEPT !.subscribed = wanted]
    OBVIOUS
  <2>2. e \in Desks /\ SameHoldings(d, e)
    BY <2>1 DEF GoodDesk, Desks, SameHoldings
  <2>3. Consumers(d, wanted) = e
    BY <1>2, <2>1 DEF Consumers
  <2> QED BY <2>2, <2>3, FlagsAreFree
<1> QED BY <1>1, <1>2

(* A forced refresh. *)
LEMMA ForcedIsGood ==
  ASSUME NEW d, GoodDesk(d)
  PROVE  GoodDesk(Forced(d))
<1>1. PICK e : e = Forced(d)
  OBVIOUS
<1>2. e \in Desks /\ SameHoldings(d, e)
  BY <1>1 DEF Forced, GoodDesk, Desks, SameHoldings
<1> QED BY <1>1, <1>2, FlagsAreFree

(* A request for the instruments. *)
LEMMA AskOptionsIsGood ==
  ASSUME DeriveBase, NEW d, GoodDesk(d)
  PROVE  GoodDesk(AskOptions(d)) /\ AskOptions(d).loaded = d.loaded
<1>1. PICK e : e = [d EXCEPT !.asking = moment]
  OBVIOUS
<1>2. e \in Desks /\ SameHoldings(d, e)
  <2>1. moment \in 0 .. LastMoment
    BY DeriveConstants DEF DeriveBase
  <2> QED BY <1>1, <2>1 DEF GoodDesk, Desks, SameHoldings
<1>3. GoodDesk(e) /\ e.loaded = d.loaded
  BY <1>2, FlagsAreFree DEF SameHoldings
<1>4. AskOptions(d) \in {d, e}
  BY <1>1 DEF AskOptions
<1> QED BY <1>3, <1>4

(* A request for trades begins where the watermark lets it: no trade between is left out. *)
LEMMA AskTradesIsGood ==
  ASSUME DeriveBase, NEW d, GoodDesk(d), d.loaded
  PROVE  GoodDesk(AskTrades(d))
<1>1. PICK r : r = [from |-> RequestFrom(d), to |-> moment,
                    first |-> d.watermark = Unset, options |-> d.options]
  OBVIOUS
<1>2. PICK e : e = [d EXCEPT !.request = r]
  OBVIOUS
<1>3. AskTrades(d) = d \/ AskTrades(d) = e
  BY <1>1, <1>2 DEF AskTrades
<1>4. GoodDesk(e)
  <2>1. /\ RequestFrom(d) \in Nat /\ RequestFrom(d) <= moment
        /\ d.watermark # Unset => RequestFrom(d) = Back(d.watermark, Overlap)
    <3>1. d.watermark \in Nat /\ d.watermark <= moment /\ moment \in Nat
      BY DEF GoodDesk, Desks, DeriveBase
    <3>2. /\ Back(d.watermark, Overlap) \in Nat /\ Back(d.watermark, Overlap) <= d.watermark
          /\ Back(moment, FirstSpan) \in Nat /\ Back(moment, FirstSpan) <= moment
      BY <3>1, BackIs, DeriveConstants
    <3> QED BY <3>1, <3>2 DEF RequestFrom
  <2>2. r \in Requests
    <3>1. d.options \in OptionLists /\ moment \in Nat
      BY DEF GoodDesk, Desks, DeriveBase
    <3> QED BY <1>1, <2>1, <3>1 DEF Requests
  <2>3. /\ e \in Desks /\ e.request = r /\ e.loaded /\ e.watermark = d.watermark
        /\ e.trades = d.trades /\ e.since = d.since
    BY <1>2, <2>2 DEF GoodDesk, Desks
  <2>4. RequestFits(e)
    <3>1. r.from <= r.to /\ r.to <= moment /\ e.watermark <= r.to
      BY <1>1, <2>1, <2>3 DEF GoodDesk, DeriveBase
    <3>2. r.first <=> e.watermark = Unset
      <4>1. r.first = (d.watermark = Unset)
        BY <1>1, Zenon
      <4>2. e.watermark = d.watermark
        BY <2>3
      <4> QED BY <4>1, <4>2
    <3>3. ~r.first => r.from = Back(e.watermark, Overlap)
      <4>1. r.from = RequestFrom(d)
        BY <1>1
      <4>2. e.watermark = d.watermark
        BY <2>3
      <4> QED BY <2>1, <3>2, <4>1, <4>2
    <3> QED BY <2>2, <2>3, <3>1, <3>2, <3>3 DEF RequestFits
  <2> QED BY <2>3, <2>4 DEF GoodDesk
<1> QED BY <1>3, <1>4

(* A failure doubles the delay, up to the longest. *)
LEMMA FailedIs ==
  ASSUME DeriveBase, NEW fail \in Delays
  PROVE  Failed(fail) \in Delays
<1>1. moment \in Nat
  BY DEF DeriveBase
<1>2. CASE fail.delay = 0
  BY <1>1, <1>2, DeriveConstants DEF Failed, Delays
<1>3. CASE fail.delay # 0
  <2>1. 2 * fail.delay \in Nat
    BY DEF Delays
  <2>2. PICK n : n = 2 * fail.delay
    OBVIOUS
  <2>3. Min({n, BackoffMax}) \in 0 .. BackoffMax
    <3>1. CASE n <= BackoffMax
      <4>1. n \in {n, BackoffMax} /\ \A y \in {n, BackoffMax} : n <= y
        BY <2>1, <2>2, <3>1, DeriveConstants
      <4>2. \A x \in {n, BackoffMax} : (\A y \in {n, BackoffMax} : x <= y) => x = n
        BY <2>1, <2>2, <3>1, DeriveConstants
      <4>3. Min({n, BackoffMax}) = n
        BY <4>1, <4>2 DEF Min
      <4> QED BY <2>1, <2>2, <3>1, <4>3, DeriveConstants
    <3>2. CASE ~(n <= BackoffMax)
      <4>1. BackoffMax \in {n, BackoffMax} /\ \A y \in {n, BackoffMax} : BackoffMax <= y
        BY <2>1, <2>2, <3>2, DeriveConstants
      <4>2. \A x \in {n, BackoffMax} :
               (\A y \in {n, BackoffMax} : x <= y) => x = BackoffMax
        BY <2>1, <2>2, <3>2, DeriveConstants
      <4>3. Min({n, BackoffMax}) = BackoffMax
        BY <4>1, <4>2 DEF Min
      <4> QED BY <4>3, DeriveConstants
    <3> QED BY <3>1, <3>2
  <2>4. Failed(fail) = [delay |-> Min({n, BackoffMax}),
                        retryAfter |-> moment + Min({n, BackoffMax})]
    BY <1>3, <2>2 DEF Failed
  <2> QED BY <1>1, <2>3, <2>4, DeriveConstants DEF Delays
<1> QED BY <1>2, <1>3

(* DeskTick. *)
LEMMA DeskTickKeepsInv == DeriveInv /\ DeskTick => DeriveInv'
<1> SUFFICES ASSUME DeriveInv, DeskTick PROVE DeriveInv'
  OBVIOUS
<1>1. DeriveBase /\ GoodDesk(desk) /\ GoodStore
  BY DEF DeriveInv
<1>2. PICK wanted \in BOOLEAN, online \in BOOLEAN :
         desk' = IF online /\ wanted
                 THEN AskTrades(AskOptions(Loaded(Consumers(desk, wanted))))
                 ELSE Consumers(desk, wanted)
  BY DEF DeskTick
<1>3. PICK c : c = Consumers(desk, wanted)
  OBVIOUS
<1>4. PICK l : l = Loaded(c)
  OBVIOUS
<1>5. PICK o : o = AskOptions(l)
  OBVIOUS
<1>6. PICK e : e = AskTrades(o)
  OBVIOUS
<1>7. GoodDesk(c)
  BY <1>1, <1>3, ConsumersIsGood
<1>8. GoodDesk(l) /\ l.loaded
  BY <1>1, <1>4, <1>7, LoadedIsGood
<1>9. GoodDesk(o) /\ o.loaded
  BY <1>1, <1>5, <1>8, AskOptionsIsGood
<1>10. GoodDesk(e)
  BY <1>1, <1>6, <1>9, AskTradesIsGood
<1>11. desk' \in {c, e}
  BY <1>2, <1>3, <1>4, <1>5, <1>6
<1>12. PICK d \in {c, e} : desk' = d
  BY <1>11
<1>13. GoodDesk(d)
  BY <1>7, <1>10, <1>12
<1>14. UNCHANGED <<moment, tape, stored, dropped, breaks>>
  BY DEF DeskTick
<1> QED
  BY <1>1, <1>12, <1>13, <1>14
     DEF DeriveInv, DeriveBase, GoodDesk, GoodStore, RequestFits, HeldUpTo, Desks

(* A step that changes the desk alone, to a good one, keeps the invariant. *)
LEMMA DeskChanges ==
  ASSUME DeriveInv, NEW d, GoodDesk(d), desk' = d, UNCHANGED <<moment, tape, stored, dropped, breaks>>
  PROVE  DeriveInv'
BY DEF DeriveInv, DeriveBase, GoodDesk, GoodStore, RequestFits, HeldUpTo, Desks

(* DeskReconnect. *)
LEMMA DeskReconnectKeepsInv == DeriveInv /\ DeskReconnect => DeriveInv'
<1> SUFFICES ASSUME DeriveInv, DeskReconnect PROVE DeriveInv'
  OBVIOUS
<1>1. PICK d : d = Forced(desk)
  OBVIOUS
<1>2. GoodDesk(d)
  BY <1>1, ForcedIsGood DEF DeriveInv
<1> QED BY <1>1, <1>2, DeskChanges DEF DeskReconnect

(* OptionsAnswered. *)
LEMMA OptionsAnsweredKeepsInv == DeriveInv /\ OptionsAnswered => DeriveInv'
<1> SUFFICES ASSUME DeriveInv, OptionsAnswered PROVE DeriveInv'
  OBVIOUS
<1>1. PICK d : d = [desk EXCEPT !.asking = Unset, !.forceOptions = FALSE]
  OBVIOUS
<1>2. DeriveBase /\ GoodDesk(desk)
  BY DEF DeriveInv
<1>3. d \in Desks /\ SameHoldings(desk, d)
  <2>1. Unset \in 0 .. LastMoment
    BY DeriveConstants DEF Unset
  <2> QED BY <1>1, <1>2, <2>1 DEF GoodDesk, Desks, SameHoldings
<1>4. GoodDesk(d)
  BY <1>2, <1>3, FlagsAreFree
<1>5. \E e : desk' = e /\ e \in Desks /\ SameHoldings(d, e)
  <2>1. CASE \E listed \in SUBSET Listed \ {{}} :
                desk' = [d EXCEPT !.options = listed, !.optionsAt = moment,
                                  !.optionsFail = Fine, !.forceTrades = TRUE]
    <3>1. PICK listed \in SUBSET Listed \ {{}} :
             desk' = [d EXCEPT !.options = listed, !.optionsAt = moment,
                               !.optionsFail = Fine, !.forceTrades = TRUE]
      BY <2>1, Zenon
    <3>2. PICK e : e = [d EXCEPT !.options = listed, !.optionsAt = moment,
                                 !.optionsFail = Fine, !.forceTrades = TRUE]
      OBVIOUS
    <3>3. Fine \in Delays
      BY DeriveConstants DEF Fine, Delays
    <3>4. moment \in 0 .. LastMoment
      BY <1>2, DeriveConstants DEF DeriveBase
    <3>5. listed \in OptionLists
      BY <3>1 DEF OptionLists, Listed
    <3>6. e \in Desks /\ SameHoldings(d, e)
      BY <1>3, <3>2, <3>3, <3>4, <3>5 DEF Desks, SameHoldings
    <3>7. desk' = e
      BY <3>1, <3>2, Zenon
    <3> QED BY <3>6, <3>7, Zenon
  <2>2. CASE desk' = [d EXCEPT !.optionsFail = Failed(@)]
    <3>1. PICK fail : fail = Failed(d.optionsFail)
      OBVIOUS
    <3>2. fail \in Delays
      <4>1. d.optionsFail \in Delays
        BY <1>3 DEF Desks
      <4> QED BY <1>2, <3>1, <4>1, FailedIs
    <3>3. PICK e : e = [d EXCEPT !.optionsFail = fail]
      OBVIOUS
    <3>4. e \in Desks /\ SameHoldings(d, e)
      BY <1>3, <3>2, <3>3 DEF Desks, SameHoldings
    <3> QED BY <2>2, <3>1, <3>3, <3>4
  <2>3. \/ \E listed \in SUBSET Listed \ {{}} :
                desk' = [d EXCEPT !.options = listed, !.optionsAt = moment,
                                  !.optionsFail = Fine, !.forceTrades = TRUE]
        \/ desk' = [d EXCEPT !.optionsFail = Failed(@)]
    BY <1>1, Zenon DEF OptionsAnswered
  <2> QED BY <2>1, <2>2, <2>3, Zenon
<1>6. PICK e : desk' = e /\ e \in Desks /\ SameHoldings(d, e)
  BY <1>5
<1>7. GoodDesk(e)
  BY <1>4, <1>6, FlagsAreFree
<1>8. UNCHANGED <<moment, tape, stored, dropped, breaks>>
  BY Zenon DEF OptionsAnswered
<1> QED BY <1>6, <1>7, <1>8, DeskChanges

(* What an answer adds: the trades settled by then of the options and the time asked for; the *)
(* others of that time are dropped.                                                          *)
LEMMA AnswerKeepsHeld ==
  ASSUME DeriveInv, desk.request # NoRequest, NEW asOf \in desk.request.to .. moment,
         NEW answer, NEW trades, NEW since, NEW page,
         page = HistoryPage(desk.request, asOf),
         answer = DeriveAnswer(desk.request, asOf),
         dropped' = (dropped \cup ((page \ answer) \ desk.trades)) \ answer,
         UNCHANGED <<moment, tape>>,
         trades = {t \in desk.trades \cup answer : t.at + Retention >= moment},
         since = IF desk.request.first THEN desk.request.from ELSE desk.since,
         trades # {}
  PROVE  /\ Newest(trades) \in 0 .. moment
         /\ \A t \in trades : t.at <= Newest(trades)
         /\ HeldUpTo(trades, since, Newest(trades))'
<1> USE DeriveConstants
<1>1. DeriveBase /\ GoodDesk(desk)
  BY DEF DeriveInv
<1>2. PICK r : r = desk.request
  OBVIOUS
<1>3. /\ r \in Requests /\ r.from \in Nat /\ r.to \in Nat /\ moment \in Nat
      /\ r.from <= r.to /\ r.to <= moment /\ desk.watermark <= r.to
      /\ r.first <=> desk.watermark = Unset
      /\ ~r.first => r.from = Back(desk.watermark, Overlap)
      /\ desk.watermark \in Nat /\ desk.watermark <= moment
      /\ \A t \in desk.trades : t.at <= desk.watermark
      /\ desk.trades \subseteq tape
      /\ desk.watermark # Unset => HeldUpTo(desk.trades, desk.since, desk.watermark)
  BY <1>1, <1>2 DEF GoodDesk, Desks, Requests, RequestFits, DeriveBase
<1>4. trades \subseteq tape /\ \A t \in trades : t.at <= r.to
  <2>1. ASSUME NEW t \in trades PROVE t.at <= r.to /\ t \in tape
    <3>1. t \in desk.trades \cup answer
      OBVIOUS
    <3>2. CASE t \in answer
      BY <1>2, <3>2 DEF DeriveAnswer, HistoryPage
    <3>3. CASE t \in desk.trades
      <4>1. t \in tape /\ t.at <= desk.watermark
        BY <1>3, <3>3
      <4> QED BY <1>1, <1>3, <4>1, TapeIs
    <3> QED BY <3>1, <3>2, <3>3
  <2> QED BY <2>1
<1>5. PICK mark : mark = Newest(trades)
  OBVIOUS
<1>6. mark \in 0 .. r.to /\ (\A t \in trades : t.at <= mark)
  BY <1>1, <1>3, <1>4, <1>5, NewestIs
<1>7. ASSUME NEW t \in tape, t \notin dropped', since <= t.at, t.at + Overlap < mark,
             t.at + Retention >= moment
      PROVE  t \in trades
  <2>1. t.at \in Nat /\ t.settled \in Nat /\ t.settled <= t.at + Overlap
    BY <1>1, TapeIs
  <2>2. t.at <= r.to /\ t.settled <= asOf
    BY <1>2, <1>3, <1>6, <1>7, <2>1
  <2>3. CASE t.at >= r.from
    <3>1. t \in page
      BY <1>2, <2>2, <2>3 DEF HistoryPage
    <3>2. t \in answer \/ t \in desk.trades
      BY <1>7, <3>1
    <3> QED BY <1>7, <3>2
  <2>4. CASE ~(t.at >= r.from)
    <3>1. ~r.first
      BY <1>2, <1>3, <1>7, <2>1, <2>4
    <3>2. r.from = Back(desk.watermark, Overlap) /\ desk.watermark # Unset
      BY <1>3, <3>1
    <3>3. t.at + Overlap < desk.watermark
      BY <1>3, <2>1, <2>4, <3>2 DEF Back
    <3>4. desk.since <= t.at
      BY <1>2, <1>7, <3>1
    <3>5. t \notin dropped => t \in desk.trades
      BY <1>3, <1>7, <3>2, <3>3, <3>4 DEF HeldUpTo
    <3>6. t \in dropped => t \in answer
      BY <1>7
    <3> QED BY <1>7, <3>5, <3>6
  <2> QED BY <2>3, <2>4
<1>8. HeldUpTo(trades, since, mark)'
  BY <1>7 DEF HeldUpTo
<1> QED BY <1>3, <1>5, <1>6, <1>8

(* TradesAnswered: the answer joins what is held, and the watermark goes where it ends. *)
LEMMA TradesAnsweredKeepsInv == DeriveInv /\ TradesAnswered => DeriveInv'
<1> SUFFICES ASSUME DeriveInv, TradesAnswered PROVE DeriveInv'
  OBVIOUS
<1> USE DeriveConstants
<1>1. DeriveBase /\ GoodDesk(desk) /\ GoodStore /\ desk.request # NoRequest
  BY DEF DeriveInv, TradesAnswered
<1>2. PICK d : d = Finished
  OBVIOUS
<1>3. /\ d \in Desks /\ d.request = NoRequest /\ d.loaded = desk.loaded
      /\ d.trades = desk.trades /\ d.since = desk.since /\ d.watermark = desk.watermark
      /\ d.loaded
  BY <1>1, <1>2 DEF Finished, GoodDesk, Desks, RequestFits
<1>4. GoodDesk(d)
  BY <1>1, <1>3 DEF GoodDesk, RequestFits
<1>5. CASE desk' = [d EXCEPT !.tradesFail = Failed(@)] /\ UNCHANGED <<stored, dropped>>
  <2>1. PICK fail : fail = Failed(d.tradesFail)
    OBVIOUS
  <2>2. fail \in Delays
    <3>1. d.tradesFail \in Delays
      BY <1>3 DEF Desks
    <3> QED BY <1>1, <2>1, <3>1, FailedIs
  <2>3. PICK e : e = [d EXCEPT !.tradesFail = fail]
    OBVIOUS
  <2>4. e \in Desks /\ SameHoldings(d, e)
    BY <1>3, <2>2, <2>3 DEF Desks, SameHoldings
  <2>5. GoodDesk(e)
    BY <1>4, <2>4, FlagsAreFree
  <2>6. desk' = e
    BY <1>5, <2>1, <2>3
  <2> QED BY <1>5, <2>5, <2>6, DeskChanges DEF TradesAnswered
<1>6. ASSUME NEW asOf \in desk.request.to .. moment, NEW answer, NEW trades, NEW since,
             NEW page, page = HistoryPage(desk.request, asOf),
             dropped' = (dropped \cup ((page \ answer) \ desk.trades)) \ answer,
             answer = DeriveAnswer(desk.request, asOf),
             trades = {t \in desk.trades \cup answer : t.at + Retention >= moment},
             since = IF desk.request.first THEN desk.request.from ELSE desk.since,
             desk' = [d EXCEPT !.trades = trades, !.since = since,
                               !.watermark = IF trades = {} THEN @ ELSE Newest(trades),
                               !.tradesAt = moment, !.tradesFail = Fine],
             stored' = [trades |-> trades, since |-> since]
      PROVE  DeriveInv'
  <2>1. PICK mark : mark = IF trades = {} THEN d.watermark ELSE Newest(trades)
    OBVIOUS
  <2>2. trades # {} => /\ mark \in 0 .. moment
                       /\ \A t \in trades : t.at <= mark
                       /\ HeldUpTo(trades, since, mark)'
    <3>1. UNCHANGED <<moment, tape>>
      BY DEF TradesAnswered
    <3> QED BY <1>1, <1>6, <2>1, <3>1, AnswerKeepsHeld
  <2>3. moment \in Nat /\ moment <= LastMoment /\ moment >= 1
    BY <1>1 DEF DeriveBase
  <2>4. trades \subseteq tape /\ dropped' \subseteq tape
    BY <1>1, <1>6 DEF GoodDesk, Desks, DeriveAnswer, HistoryPage, DeriveBase
  <2>5. since \in 0 .. LastMoment
    <3>1. desk.request.first => desk.request.from \in 0 .. moment
      BY <1>1, <2>3 DEF GoodDesk, Desks, RequestFits, Requests
    <3>2. desk.since \in 0 .. LastMoment
      BY <1>1 DEF GoodDesk, Desks
    <3> QED BY <1>6, <2>3, <3>1, <3>2
  <2>6. trades = {} /\ d.watermark # Unset => HeldUpTo(trades, since, mark)'
    <3> SUFFICES ASSUME trades = {}, d.watermark # Unset, NEW t \in tape, t \notin dropped',
                        since <= t.at, t.at + Overlap < mark, t.at + Retention >= moment
                 PROVE  t \in trades
      BY DEF HeldUpTo, TradesAnswered
    <3>1. since = desk.since
      <4>1. ~desk.request.first
        BY <1>1, <1>3 DEF GoodDesk, RequestFits
      <4> QED BY <1>6, <4>1
    <3>2. HeldUpTo(desk.trades, desk.since, desk.watermark) /\ mark = desk.watermark
      BY <1>1, <1>3, <2>1 DEF GoodDesk
    <3>3. t \notin dropped => t \in desk.trades
      BY <3>1, <3>2 DEF HeldUpTo
    <3>4. t \in dropped => t \in answer
      BY <1>6
    <3> QED BY <1>6, <3>3, <3>4
  <2>7. mark \in 0 .. moment
    BY <1>3, <1>4, <2>1, <2>2, <2>3 DEF GoodDesk, Desks
  <2>8. PICK e : e = [d EXCEPT !.trades = trades, !.since = since, !.watermark = mark,
                               !.tradesAt = moment, !.tradesFail = Fine]
    OBVIOUS
  <2>9. desk' = e
    BY <1>6, <2>1, <2>8
  <2>10. /\ e \in Desks /\ e.request = NoRequest /\ e.loaded
         /\ e.trades = trades /\ e.since = since /\ e.watermark = mark
    <3>1. Fine \in Delays
      BY DEF Fine, Delays
    <3>2. mark \in 0 .. LastMoment /\ moment \in 0 .. LastMoment
      BY <2>3, <2>7
    <3> HIDE DEF Desks
    <3>3. e \in Desks
      BY <1>3, <2>4, <2>5, <2>8, <3>1, <3>2 DEF Desks
    <3>4. /\ e.request = NoRequest /\ e.loaded
          /\ e.trades = trades /\ e.since = since /\ e.watermark = mark
      BY <1>3, <2>8 DEF Desks
    <3> QED BY <3>3, <3>4
  <2>11. GoodDesk(e)'
    <3>1. UNCHANGED <<moment, tape>>
      BY DEF TradesAnswered
    <3>2. e.watermark <= moment /\ e.request = NoRequest
      BY <2>3, <2>7, <2>10
    <3>3. \A t \in e.trades : t.at <= e.watermark
      BY <2>2, <2>10
    <3>4. e.watermark # Unset => HeldUpTo(e.trades, e.since, e.watermark)'
      BY <2>1, <2>2, <2>6, <2>10
    <3>5. (e \in Desks)'
      BY <2>10, <3>1 DEF Desks
    <3> QED BY <2>10, <3>1, <3>2, <3>3, <3>4, <3>5 DEF GoodDesk, RequestFits
  <2>12. PICK s : s = [trades |-> trades, since |-> since]
    OBVIOUS
  <2>13. /\ s \in [trades : SUBSET tape, since : 0 .. LastMoment]
         /\ \A n \in s.trades : n.at <= moment /\ HeldUpTo(s.trades, s.since, n.at)'
    <3>1. s.trades = trades /\ s.since = since
      BY <2>12
    <3>2. s \in [trades : SUBSET tape, since : 0 .. LastMoment]
      BY <2>4, <2>5, <2>12
    <3>3. ASSUME NEW n \in trades PROVE n.at <= moment /\ HeldUpTo(trades, since, n.at)'
      <4>1. n.at \in Nat /\ n.at <= mark /\ mark \in Nat /\ mark <= moment
        BY <1>1, <2>2, <2>3, <2>4, <2>7, <3>3, TapeIs
      <4>2. HeldUpTo(trades, since, mark)'
        BY <2>2, <3>3
      <4>3. \A t \in tape : t.at + Overlap < n.at => t.at + Overlap < mark
        BY <1>1, <4>1, TapeIs
      <4> QED BY <2>3, <4>1, <4>2, <4>3 DEF HeldUpTo, TradesAnswered
    <3> QED BY <3>1, <3>2, <3>3
  <2>14. stored' = s /\ UNCHANGED <<moment, tape, breaks>>
    BY <1>6, <2>12 DEF TradesAnswered
  <2> QED BY <1>1, <2>4, <2>9, <2>11, <2>13, <2>14
          DEF DeriveInv, DeriveBase, GoodDesk, GoodStore, RequestFits, HeldUpTo, Desks
<1>7. CASE \E asOf \in desk.request.to .. moment :
              LET answer == DeriveAnswer(desk.request, asOf)
              IN TradesJoin(answer, HistoryPage(desk.request, asOf) \ answer)
  <2>1. PICK asOf \in desk.request.to .. moment :
           LET answer == DeriveAnswer(desk.request, asOf)
           IN TradesJoin(answer, HistoryPage(desk.request, asOf) \ answer)
    BY <1>7
  <2>2. PICK answer, page : /\ answer = DeriveAnswer(desk.request, asOf)
                            /\ page = HistoryPage(desk.request, asOf)
    OBVIOUS
  <2>3. PICK trades : trades = {t \in desk.trades \cup answer : t.at + Retention >= moment}
    OBVIOUS
  <2>4. PICK since : since = IF desk.request.first THEN desk.request.from ELSE desk.since
    OBVIOUS
  <2>5. TradesJoin(answer, page \ answer)
    BY <2>1, <2>2
  <2>6. /\ desk' = [d EXCEPT !.trades = trades, !.since = since,
                             !.watermark = IF trades = {} THEN @ ELSE Newest(trades),
                             !.tradesAt = moment, !.tradesFail = Fine]
        /\ stored' = [trades |-> trades, since |-> since]
        /\ dropped' = (dropped \cup ((page \ answer) \ desk.trades)) \ answer
    BY <1>2, <2>3, <2>4, <2>5, Zenon DEF TradesJoin
  <2> QED BY <1>6, <2>2, <2>3, <2>4, <2>6, Zenon
<1> QED BY <1>2, <1>5, <1>7, Zenon DEF TradesAnswered

(* MomentPasses: later trades are beyond every watermark. *)
LEMMA MomentPassesKeepsInv == DeriveInv /\ MomentPasses => DeriveInv'
<1> SUFFICES ASSUME DeriveInv, MomentPasses PROVE DeriveInv'
  OBVIOUS
<1>1. DeriveBase /\ GoodDesk(desk) /\ GoodStore
  BY DEF DeriveInv
<1>2. /\ moment \in Nat /\ moment' = moment + 1 /\ moment' \in 1 .. LastMoment
      /\ UNCHANGED <<tape, desk, stored, dropped, breaks>>
  BY <1>1, DeriveConstants DEF MomentPasses, DeriveBase
<1>3. ASSUME NEW trades, NEW since, NEW mark, HeldUpTo(trades, since, mark)
      PROVE  HeldUpTo(trades, since, mark)'
  <2>1. \A t \in tape : t.at + Retention >= moment' => t.at + Retention >= moment
    BY <1>1, <1>2, TapeIs, DeriveConstants
  <2> QED BY <1>2, <1>3, <2>1 DEF HeldUpTo
<1>4. DeriveBase'
  BY <1>1, <1>2 DEF DeriveBase
<1>5. GoodDesk(desk)'
  <2>1. /\ desk \in Desks /\ desk.watermark <= moment /\ desk.watermark \in Nat
        /\ \A t \in desk.trades : t.at <= desk.watermark
        /\ RequestFits(desk)
        /\ desk.watermark # Unset => HeldUpTo(desk.trades, desk.since, desk.watermark)
        /\ ~desk.loaded => desk.watermark = Unset
    BY <1>1 DEF GoodDesk, Desks
  <2>2. RequestFits(desk)'
    <3>1. desk.request # NoRequest => desk.request.to \in Nat /\ desk.request.to <= moment'
      BY <1>2, <2>1 DEF Desks, Requests, RequestFits
    <3> QED BY <1>2, <2>1, <3>1 DEF RequestFits
  <2>3. (desk.watermark <= moment)' /\ (desk \in Desks)'
    BY <1>2, <2>1 DEF Desks
  <2>4. PICK d : d = desk
    OBVIOUS
  <2>5. d.watermark # Unset => HeldUpTo(d.trades, d.since, d.watermark)'
    BY <1>3, <2>1, <2>4
  <2>6. desk' = d
    BY <1>2, <2>4
  <2> QED BY <1>2, <2>1, <2>2, <2>3, <2>4, <2>5, <2>6 DEF GoodDesk, HeldUpTo
<1>6. GoodStore'
  <2>1. PICK s : s = stored
    OBVIOUS
  <2>2. ASSUME NEW n \in s.trades PROVE n.at <= moment' /\ HeldUpTo(s.trades, s.since, n.at)'
    <3>1. n \in tape /\ n.at <= moment /\ HeldUpTo(s.trades, s.since, n.at)
      BY <1>1, <2>1 DEF GoodStore
    <3>2. n.at <= moment'
      BY <1>1, <1>2, <3>1, TapeIs
    <3> QED BY <1>3, <3>1, <3>2
  <2>3. s \in [trades : SUBSET tape, since : 0 .. LastMoment] /\ stored' = s
    BY <1>1, <1>2, <2>1 DEF GoodStore
  <2> QED BY <1>2, <2>2, <2>3 DEF GoodStore, HeldUpTo
<1> QED BY <1>4, <1>5, <1>6 DEF DeriveInv

(* DeskRestarts. *)
LEMMA DeskRestartsKeepsInv == DeriveInv /\ DeskRestarts => DeriveInv'
<1> SUFFICES ASSUME DeriveInv, DeskRestarts PROVE DeriveInv'
  OBVIOUS
<1>1. DeriveBase /\ GoodStore
  BY DEF DeriveInv
<1>2. desk' = NewDesk /\ UNCHANGED <<moment, tape, stored, dropped>> /\ breaks' \in 0 .. MaxBreaks
  BY <1>1, DeriveConstants DEF DeskRestarts, DeriveBase
<1>3. PICK d : d = NewDesk
  OBVIOUS
<1>4. d \in Desks
  <2>1. Fine \in Delays
    BY DeriveConstants DEF Fine, Delays
  <2> QED BY <1>3, <2>1, DeriveConstants DEF NewDesk, Desks, OptionLists, Unset
<1>5. GoodDesk(d)
  BY <1>1, <1>3, <1>4 DEF GoodDesk, NewDesk, RequestFits, Unset, DeriveBase
<1>6. desk' = d
  BY <1>2, <1>3
<1> QED BY <1>1, <1>2, <1>5, <1>6
        DEF DeriveInv, DeriveBase, GoodDesk, GoodStore, RequestFits, HeldUpTo, Desks

(* StoreCleared. *)
LEMMA StoreClearedKeepsInv == DeriveInv /\ StoreCleared => DeriveInv'
<1> SUFFICES ASSUME DeriveInv, StoreCleared PROVE DeriveInv'
  OBVIOUS
<1>1. DeriveBase /\ GoodDesk(desk)
  BY DEF DeriveInv
<1>2. stored' = NoTrades /\ UNCHANGED <<moment, tape, desk, dropped>> /\ breaks' \in 0 .. MaxBreaks
  BY <1>1, DeriveConstants DEF StoreCleared, DeriveBase
<1>3. GoodStore'
  BY <1>2, DeriveConstants DEF GoodStore, NoTrades, Unset
<1>4. GoodDesk(desk)'
  BY <1>1, <1>2 DEF GoodDesk, RequestFits, HeldUpTo, Desks
<1> QED BY <1>1, <1>2, <1>3, <1>4 DEF DeriveInv, DeriveBase

(* Every step keeps the invariant. *)
LEMMA DeriveInvIsInductive == DeriveInv /\ [DeriveNext]_deriveVars => DeriveInv'
<1> SUFFICES ASSUME DeriveInv, [DeriveNext]_deriveVars PROVE DeriveInv'
  OBVIOUS
<1>1. CASE UNCHANGED deriveVars
  BY <1>1 DEF deriveVars, DeriveInv, DeriveBase, GoodDesk, GoodStore, RequestFits, HeldUpTo,
              Desks
<1>2. CASE DeriveNext
  BY <1>2, DeskTickKeepsInv, DeskReconnectKeepsInv, OptionsAnsweredKeepsInv,
     TradesAnsweredKeepsInv, MomentPassesKeepsInv, DeskRestartsKeepsInv, StoreClearedKeepsInv
     DEF DeriveNext
<1> QED BY <1>1, <1>2

(* For every tape of trades, overlap and retention: over failures, backoffs, late settlement, *)
(* restarts and clearings, what the watermark has passed by more than the overlap is held,    *)
(* apart from what the client dropped as its option was not listed.                           *)
THEOREM MakerTradesKept == DeriveSpec => []MakerTradesAreHeld
<1>1. DeriveInv => MakerTradesAreHeld
  BY DEF DeriveInv, GoodDesk, HeldUpTo, MakerTradesAreHeld
<1> QED BY <1>1, DeriveInitially, DeriveInvIsInductive, PTL DEF DeriveSpec

(* The coordinator, the store and the clock keep their types. *)
THEOREM DeriveTypeCorrect == DeriveSpec => []DeriveTypeOK
<1>1. DeriveInv => DeriveTypeOK
  BY DEF DeriveInv, DeriveBase, GoodDesk, GoodStore, DeriveTypeOK, Desks, OptionLists, Delays
<1> QED BY <1>1, DeriveInitially, DeriveInvIsInductive, PTL DEF DeriveSpec

--------------------------------------------------------------------------------
(* GexChain. *)

(* What the chain and the disk are made of. *)
Seconds == 0 .. LastSecond

Observed == 1 .. LastSecond

Chains ==
    [consumer : BOOLEAN, force : BOOLEAN, listAt : Seconds,
     retryAfter : 0 .. LastSecond + ChainBackoff,
     raw : [observed : Seconds, received : Seconds, derived : BOOLEAN],
     history : Seq(Observed), loaded : BOOLEAN]

Rising(s) == \A i, j \in 1 .. Len(s) : i < j => s[i] < s[j]

(* A history in order; a snapshot that was observed before it was received, if there is one. *)
GoodChain(c) ==
    /\ c \in Chains
    /\ c.raw.observed <= c.raw.received /\ c.raw.received <= second
    /\ c.raw = NoChain \/ c.raw.observed \in Observed
    /\ Rising(c.history)
    /\ ~c.loaded => c.history = <<>>

(* The history has what is stored, once that is loaded. *)
Backs(series, c) == c.loaded => series \subseteq Range(c.history)

(* One snapshot is asked for at a time, and after the one there is was observed. *)
InTurn(c) ==
    \A r \in asked :
       /\ r.kind \in {"instruments", "snapshot"} /\ r.sent \in 1 .. second
       /\ r.kind = "snapshot" => c.raw.observed <= r.sent
       /\ \A q \in asked : q.kind = r.kind => q = r

ChainBase ==
    /\ second \in 1 .. LastSecond /\ crashes \in 0 .. MaxCrashes
    /\ kept \in [file : Seconds, series : SUBSET Observed] /\ kept.file <= second

ChainInv == ChainBase /\ GoodChain(chain) /\ Backs(kept.series, chain) /\ InTurn(chain)

(* The constants as numbers. *)
LEMMA ChainConstants ==
    /\ LastSecond \in Nat \ {0} /\ ListTTL \in Nat /\ ChainTTL \in Nat
    /\ ChainBackoff \in Nat /\ MaxCrashes \in Nat
BY ChainAssumption

(* The elements of a sequence. *)
LEMMA RangeIs ==
  ASSUME NEW S, NEW s \in Seq(S)
  PROVE  Range(s) = {s[i] : i \in 1 .. Len(s)} /\ Range(s) \subseteq S
BY DEF Range

(* A line of a set: all of it, in order. *)
InLine(T, s) ==
    /\ s \in [1 .. Cardinality(T) -> T]
    /\ \A i, j \in 1 .. Cardinality(T) : i < j => s[i] < s[j]
    /\ \A t \in T : \E i \in 1 .. Cardinality(T) : s[i] = t

(* A set that can be put in order can with one more second. *)
LEMMA LineGrows ==
  ASSUME NEW A, IsFiniteSet(A), NEW t, t \notin A, \A x \in A : x < t,
         NEW s, InLine(A, s)
  PROVE  \E u : InLine(A \cup {t}, u)
<1> DEFINE T == A \cup {t}
<1>1. PICK k : k = Cardinality(A)
  OBVIOUS
<1>2. k \in Nat /\ Cardinality(T) = k + 1
  BY <1>1, FS_CardinalityType, FS_AddElement
<1>3. PICK u : u = [i \in 1 .. k + 1 |-> IF i = k + 1 THEN t ELSE s[i]]
  OBVIOUS
<1>4. /\ s \in [1 .. k -> A]
      /\ \A i, j \in 1 .. k : i < j => s[i] < s[j]
      /\ \A x \in A : \E i \in 1 .. k : s[i] = x
  BY <1>1 DEF InLine
<1>5. \A i \in 1 .. k + 1 : i # k + 1 => i \in 1 .. k
  BY <1>2
<1>6. /\ u \in [1 .. k + 1 -> T] /\ u[k + 1] = t
      /\ \A i \in 1 .. k : u[i] = s[i] /\ i \in 1 .. k + 1
  BY <1>2, <1>3, <1>4, <1>5
<1>7. ASSUME NEW i \in 1 .. k + 1, NEW j \in 1 .. k + 1, i < j PROVE u[i] < u[j]
  <2>1. i \in 1 .. k
    BY <1>2, <1>7
  <2>2. u[i] = s[i] /\ s[i] \in A
    BY <1>4, <1>6, <2>1
  <2>3. CASE j = k + 1
    BY <1>6, <2>2, <2>3
  <2>4. CASE j # k + 1
    <3>1. j \in 1 .. k /\ u[j] = s[j]
      BY <1>5, <1>6, <2>4
    <3> QED BY <1>4, <1>7, <2>1, <2>2, <3>1
  <2> QED BY <2>3, <2>4
<1>8. ASSUME NEW x \in T PROVE \E i \in 1 .. k + 1 : u[i] = x
  <2>1. CASE x = t
    <3>1. k + 1 \in 1 .. k + 1
      BY <1>2
    <3> QED BY <1>6, <2>1, <3>1
  <2>2. CASE x \in A
    BY <1>4, <1>6, <2>2
  <2> QED BY <2>1, <2>2
<1> HIDE DEF T
<1>9. InLine(T, u)
  BY <1>2, <1>6, <1>7, <1>8 DEF InLine
<1> QED BY <1>9 DEF T

(* A set of moments has a line: taken up one moment after the other. *)
LEMMA LineExists ==
  ASSUME NEW N \in Nat, NEW T, T \subseteq 0 .. N
  PROVE  \E s : InLine(T, s)
<1> DEFINE Done == {n \in 0 .. N : \E s : InLine(T \cap 0 .. n, s)}
<1>1. \A x \in T : x \in Nat /\ x <= N
  OBVIOUS
<1>2. ASSUME NEW n \in Nat PROVE IsFiniteSet(T \cap 0 .. n)
  <2>1. IsFiniteSet(0 .. n)
    BY FS_Interval
  <2> QED BY <2>1, FS_Subset
<1>3. ASSUME NEW A, IsFiniteSet(A), NEW n \in 0 .. N, \A x \in A : x < n, n \notin A,
             NEW s, InLine(A, s), T \cap 0 .. n \in {A, A \cup {n}}
      PROVE  n \in Done
  <2>1. CASE T \cap 0 .. n = A
    <3>1. InLine(T \cap 0 .. n, s)
      BY <1>3, <2>1
    <3> QED BY <3>1
  <2>2. CASE T \cap 0 .. n = A \cup {n}
    <3>1. \E u : InLine(A \cup {n}, u)
      BY <1>3, LineGrows
    <3>2. \E u : InLine(T \cap 0 .. n, u)
      BY <2>2, <3>1
    <3> QED BY <3>2
  <2> QED BY <1>3, <2>1, <2>2
<1>4. 0 \in Done
  <2>1. IsFiniteSet({}) /\ Cardinality({}) = 0
    BY FS_EmptySet
  <2>2. 1 .. 0 = {}
    OBVIOUS
  <2>3. PICK s : s = [i \in {} |-> 0]
    OBVIOUS
  <2>4. InLine({}, s)
    BY <2>1, <2>2, <2>3 DEF InLine
  <2>5. 0 .. 0 = {0} /\ 0 \in 0 .. N
    OBVIOUS
  <2>6. T \cap 0 .. 0 \in {{}, {} \cup {0}}
    BY <2>5
  <2> HIDE DEF Done
  <2> QED BY <1>3, <2>1, <2>4, <2>5, <2>6
<1>5. ASSUME NEW n \in 0 .. N - 1, n \in Done PROVE n + 1 \in Done
  <2>1. PICK s : InLine(T \cap 0 .. n, s)
    BY <1>5
  <2>2. PICK A : A = T \cap 0 .. n
    OBVIOUS
  <2>3. n \in Nat /\ n + 1 \in 0 .. N
    OBVIOUS
  <2>4. IsFiniteSet(A) /\ InLine(A, s)
    BY <1>2, <2>1, <2>2, <2>3
  <2>5. (\A x \in A : x < n + 1) /\ n + 1 \notin A
    BY <2>2, <2>3
  <2>6. \A x \in T : x \in 0 .. n + 1 <=> x \in 0 .. n \/ x = n + 1
    BY <1>1, <2>3
  <2>7. T \cap 0 .. n + 1 \in {A, A \cup {n + 1}}
    <3>1. CASE n + 1 \in T
      <4>1. T \cap 0 .. n + 1 = A \cup {n + 1}
        BY <2>2, <2>6, <3>1
      <4> QED BY <4>1
    <3>2. CASE n + 1 \notin T
      <4>1. T \cap 0 .. n + 1 = A
        BY <2>2, <2>6, <3>2
      <4> QED BY <4>1
    <3> QED BY <3>1, <3>2
  <2>8. PICK m : m = n + 1
    OBVIOUS
  <2> HIDE DEF Done
  <2> QED BY <1>3, <2>3, <2>4, <2>5, <2>7, <2>8
<1>6. N \in Done
  <2> HIDE DEF Done
  <2>1. 0 .. N \subseteq Done
    BY <1>4, <1>5, UpToInduction
  <2> QED BY <2>1
<1>7. T \cap 0 .. N = T
  OBVIOUS
<1> QED BY <1>6, <1>7

(* Every finite set of seconds can be put in order. *)
LEMMA InOrderIs ==
  ASSUME NEW T, T \subseteq Observed
  PROVE  LET s == InOrder(T)
         IN s \in Seq(Observed) /\ Rising(s) /\ Range(s) = T
<1>1. T \subseteq 0 .. LastSecond /\ LastSecond \in Nat
  BY ChainConstants DEF Observed
<1>2. PICK n : n = Cardinality(T)
  OBVIOUS
<1>3. n \in Nat
  <2>1. IsFiniteSet(0 .. LastSecond)
    BY <1>1, FS_Interval
  <2>2. IsFiniteSet(T)
    BY <1>1, <2>1, FS_Subset
  <2> QED BY <1>2, <2>2, FS_CardinalityType
<1>4. \E s \in [1 .. n -> T] : Range(s) = T /\ \A i, j \in DOMAIN s : i < j => s[i] < s[j]
  <2>1. PICK u \in [1 .. n -> T] : /\ \A i, j \in 1 .. n : i < j => u[i] < u[j]
                                   /\ \A t \in T : \E i \in 1 .. n : u[i] = t
    BY <1>1, <1>2, LineExists, ZenonT(40) DEF InLine
  <2>2. Range(u) = T /\ DOMAIN u = 1 .. n
    BY <2>1 DEF Range
  <2> QED BY <2>1, <2>2
<1>5. PICK s : s = InOrder(T)
  OBVIOUS
<1>6. s \in [1 .. n -> T] /\ \A i, j \in DOMAIN s : i < j => s[i] < s[j]
  BY <1>2, <1>4, <1>5 DEF InOrder
<1>7. s \in Seq(Observed) /\ Len(s) = n /\ Rising(s)
  BY <1>3, <1>6 DEF Rising
<1>8. Range(s) = T
  BY <1>2, <1>4, <1>5 DEF InOrder
<1> QED BY <1>5, <1>7, <1>8

(* A moment that is new to the history takes its place in it. *)
LEMMA InsertedIs ==
  ASSUME NEW h \in Seq(Observed), Rising(h), NEW x \in Observed, x \notin Range(h)
  PROVE  LET t == Inserted(h, x)
         IN t \in Seq(Observed) /\ Rising(t) /\ Range(t) = Range(h) \cup {x}
<1> DEFINE later == {i \in DOMAIN h : h[i] > x}
<1>1. Len(h) \in Nat /\ DOMAIN h = 1 .. Len(h) /\ Observed \subseteq Nat
      /\ \A i \in 1 .. Len(h) : h[i] \in Observed
  BY ChainConstants DEF Observed
<1>0. \A i \in 1 .. Len(h) : i \in later <=> ~(h[i] <= x)
  <2> SUFFICES ASSUME NEW i \in 1 .. Len(h) PROVE h[i] > x <=> ~(h[i] <= x)
    BY <1>1
  <2>1. h[i] \in Nat /\ x \in Nat
    BY <1>1
  <2> QED BY <2>1
<1>2. PICK p : p = Position(h, x)
  OBVIOUS
<1>3. /\ p \in 1 .. Len(h) + 1
      /\ \A i \in 1 .. Len(h) : i < p => h[i] <= x
      /\ p <= Len(h) => h[p] > x
  <2>1. CASE later = {}
    <3>1. p = Len(h) + 1
      BY <1>2, <2>1 DEF Position
    <3>2. \A i \in 1 .. Len(h) : h[i] <= x
      BY <1>0, <2>1
    <3> QED BY <1>1, <3>1, <3>2
  <2>2. CASE later # {}
    <3>1. later \subseteq Nat /\ later \subseteq 1 .. Len(h)
      BY <1>1
    <3>2. \E i \in later : \A j \in later : i <= j
      <4> HIDE DEF later
      <4> QED BY <2>2, <3>1, LeastNat
    <3>3. p = Min(later)
      BY <1>2, <2>2 DEF Position
    <3>4. p \in later /\ \A j \in later : p <= j
      <4> HIDE DEF later
      <4> QED BY <3>2, <3>3 DEF Min
    <3>5. ASSUME NEW i \in 1 .. Len(h), i < p PROVE h[i] <= x
      <4>1. i \notin later
        <5>1. p \in Nat /\ i \in Nat
          BY <1>1, <3>1, <3>4
        <5> HIDE DEF later
        <5> QED BY <3>4, <3>5, <5>1
      <4> QED BY <1>0, <4>1
    <3>6. p \in 1 .. Len(h) /\ h[p] > x
      BY <1>1, <3>4
    <3> QED BY <1>1, <3>5, <3>6
  <2> QED BY <2>1, <2>2
<1>4. \A i \in 1 .. Len(h) : h[i] # x
  BY <1>1 DEF Range
<1>5. PICK t : t = Inserted(h, x)
  OBVIOUS
<1>6. t = SubSeq(h, 1, p - 1) \o <<x>> \o SubSeq(h, p, Len(h))
  BY <1>2, <1>5 DEF Inserted, InsertAt
<1>7. PICK u, v : u = SubSeq(h, 1, p - 1) /\ v = SubSeq(h, p, Len(h))
  OBVIOUS
<1>8. u \in Seq(Observed) /\ Len(u) = p - 1 /\ \A i \in 1 .. p - 1 : u[i] = h[i]
  BY <1>1, <1>3, <1>7
<1>9. /\ v \in Seq(Observed) /\ Len(v) = Len(h) + 1 - p
      /\ \A i \in 1 .. Len(v) : v[i] = h[p - 1 + i]
  BY <1>1, <1>3, <1>7
<1>10. PICK w : w = u \o <<x>>
  OBVIOUS
<1>11. /\ w \in Seq(Observed) /\ Len(w) = p /\ w[p] = x
       /\ \A i \in 1 .. p - 1 : w[i] = h[i]
  BY <1>3, <1>8, <1>10
<1>12. t = w \o v
  BY <1>6, <1>7, <1>10
<1>13. /\ t \in Seq(Observed) /\ Len(t) = Len(h) + 1
       /\ \A i \in 1 .. Len(t) : t[i] = IF i <= p THEN w[i] ELSE v[i - p]
  <2>1. t \in Seq(Observed) /\ Len(t) = Len(w) + Len(v)
    BY <1>9, <1>11, <1>12
  <2>2. Len(w) = p /\ Len(w) + Len(v) = Len(h) + 1
    BY <1>1, <1>3, <1>9, <1>11
  <2>3. \A i \in 1 .. Len(w) + Len(v) : t[i] = IF i <= Len(w) THEN w[i] ELSE v[i - Len(w)]
    BY <1>9, <1>11, <1>12, SMTT(30)
  <2> QED BY <2>1, <2>2, <2>3
<1>14. ASSUME NEW i \in 1 .. Len(t)
       PROVE  /\ i < p => i \in 1 .. Len(h) /\ t[i] = h[i]
              /\ i = p => t[i] = x
              /\ i > p => i - 1 \in 1 .. Len(h) /\ t[i] = h[i - 1]
  <2>1. i \in Nat /\ p \in Nat /\ i >= 1 /\ i <= Len(h) + 1
    BY <1>1, <1>3, <1>13
  <2>2. CASE i < p
    <3>1. i \in 1 .. p - 1 /\ i <= p /\ i \in 1 .. Len(h)
      BY <1>1, <1>3, <2>1, <2>2
    <3> QED BY <1>11, <1>13, <2>1, <2>2, <3>1
  <2>3. CASE i = p
    BY <1>11, <1>13, <2>1, <2>3
  <2>4. CASE i > p
    <3>1. i - p \in 1 .. Len(v) /\ p - 1 + (i - p) = i - 1 /\ i - 1 \in 1 .. Len(h)
      BY <1>1, <1>3, <1>9, <2>1, <2>4
    <3>2. t[i] = v[i - p] /\ v[i - p] = h[i - 1]
      BY <1>9, <1>13, <2>1, <2>4, <3>1
    <3> QED BY <2>1, <2>4, <3>1, <3>2
  <2> QED BY <2>1, <2>2, <2>3, <2>4
<1>15. Rising(t)
  <2> SUFFICES ASSUME NEW i \in 1 .. Len(t), NEW j \in 1 .. Len(t), i < j PROVE t[i] < t[j]
    BY DEF Rising
  <2>1. i \in Nat /\ j \in Nat /\ p \in Nat /\ x \in Nat /\ Len(t) \in Nat
    BY <1>1, <1>3, <1>13
  <2>2. \A k \in 1 .. Len(h) : h[k] \in Nat
    BY <1>1
  <2>3. \A k, l \in 1 .. Len(h) : k < l => h[k] < h[l]
    BY DEF Rising
  <2>4. CASE j < p
    BY <1>14, <2>1, <2>3, <2>4
  <2>5. CASE j = p
    <3>1. i < p /\ i \in 1 .. Len(h) /\ t[i] = h[i] /\ t[j] = x
      BY <1>14, <2>1, <2>5
    <3>2. h[i] <= x /\ h[i] # x /\ h[i] \in Nat
      BY <1>3, <1>4, <2>2, <3>1
    <3> QED BY <2>1, <3>1, <3>2
  <2>6. CASE j > p
    <3>1. j - 1 \in 1 .. Len(h) /\ t[j] = h[j - 1] /\ h[j - 1] \in Nat
      BY <1>14, <2>1, <2>2, <2>6
    <3>2. CASE i > p
      <4>1. i - 1 \in 1 .. Len(h) /\ t[i] = h[i - 1] /\ i - 1 < j - 1
        BY <1>14, <2>1, <3>2
      <4> QED BY <2>3, <3>1, <4>1
    <3>3. x < h[j - 1]
      <4>1. p <= Len(h) /\ p \in 1 .. Len(h) /\ h[p] > x /\ h[p] \in Nat
        BY <1>1, <1>3, <2>1, <2>2, <2>6, <3>1
      <4>2. p = j - 1 \/ p < j - 1
        BY <2>1, <2>6
      <4>3. h[p] <= h[j - 1]
        BY <2>3, <3>1, <4>1, <4>2, SMTT(30)
      <4> QED BY <2>1, <3>1, <4>1, <4>3
    <3>4. CASE i = p
      BY <1>14, <3>1, <3>3, <3>4
    <3>5. CASE i < p
      <4>1. i \in 1 .. Len(h) /\ t[i] = h[i] /\ h[i] <= x /\ h[i] \in Nat
        BY <1>3, <1>14, <2>2, <3>5
      <4> QED BY <2>1, <3>1, <3>3, <4>1
    <3> QED BY <2>1, <3>2, <3>4, <3>5
  <2> QED BY <2>1, <2>4, <2>5, <2>6
<1>16. Range(t) = Range(h) \cup {x}
  <2>1. Range(t) = {t[i] : i \in 1 .. Len(t)} /\ Range(h) = {h[i] : i \in 1 .. Len(h)}
    BY <1>13, RangeIs
  <2>2. ASSUME NEW y \in Range(t) PROVE y \in Range(h) \cup {x}
    <3>1. PICK i \in 1 .. Len(t) : y = t[i]
      BY <2>1, <2>2
    <3>2. i \in Nat /\ p \in Nat
      BY <1>3
    <3>3. (\E k \in 1 .. Len(h) : t[i] = h[k]) \/ t[i] = x
      BY <1>14, <3>2
    <3> QED BY <2>1, <3>1, <3>3
  <2>3. ASSUME NEW k \in 1 .. Len(h) PROVE h[k] \in Range(t)
    <3>1. CASE k < p
      <4>1. k \in 1 .. Len(t) /\ t[k] = h[k]
        BY <1>1, <1>3, <1>13, <1>14, <3>1
      <4> QED BY <2>1, <4>1
    <3>2. CASE ~(k < p)
      <4>1. k + 1 \in 1 .. Len(t) /\ k + 1 > p /\ (k + 1) - 1 = k
        BY <1>1, <1>3, <1>13, <3>2
      <4>2. t[k + 1] = h[k]
        BY <1>14, <4>1
      <4> QED BY <2>1, <4>1, <4>2
    <3> QED BY <3>1, <3>2
  <2>4. x \in Range(t)
    <3>1. p \in 1 .. Len(t) /\ t[p] = x
      BY <1>1, <1>3, <1>13, <1>14
    <3> QED BY <2>1, <3>1
  <2> QED BY <2>1, <2>2, <2>3, <2>4
<1> QED BY <1>5, <1>13, <1>15, <1>16

(* ensure_history_loaded: the history and what is on disk become one line. *)
LEMMA WithHistoryIs ==
  ASSUME ChainBase, NEW c, GoodChain(c), Backs(kept.series, c)
  PROVE  LET e == WithHistory(c)
         IN /\ GoodChain(e) /\ Backs(kept.series, e) /\ e.loaded /\ e.raw = c.raw
            /\ e.consumer = c.consumer /\ Range(c.history) \subseteq Range(e.history)
<1>1. CASE c.loaded
  BY <1>1 DEF WithHistory
<1>2. CASE ~c.loaded
  <2>1. PICK s : s = InOrder(kept.series)
    OBVIOUS
  <2>2. s \in Seq(Observed) /\ Rising(s) /\ Range(s) = kept.series
    <3>1. kept.series \subseteq Observed
      BY DEF ChainBase
    <3> QED BY <2>1, <3>1, InOrderIs
  <2>3. c.history = <<>> /\ c \in Chains
    BY <1>2 DEF GoodChain
  <2>4. <<>> \o s = s
    BY <2>2
  <2>5. PICK e : e = [c EXCEPT !.loaded = TRUE, !.history = s]
    OBVIOUS
  <2>6. WithHistory(c) = e
    BY <1>2, <2>1, <2>3, <2>4, <2>5 DEF WithHistory
  <2>7. /\ e \in Chains /\ e.loaded /\ e.raw = c.raw /\ e.history = s
        /\ e.consumer = c.consumer
    BY <2>2, <2>3, <2>5 DEF Chains
  <2>8. GoodChain(e) /\ Backs(kept.series, e)
    BY <2>2, <2>7 DEF GoodChain, Backs
  <2>9. Range(c.history) = {}
    BY <2>3 DEF Range
  <2> QED BY <2>6, <2>7, <2>8, <2>9
<1> QED BY <1>1, <1>2

(* A chain that is derived adds its second to the history, and stays the chain it was. *)
LEMMA DerivedIs ==
  ASSUME ChainBase, NEW c, GoodChain(c), Backs(kept.series, c)
  PROVE  LET e == Derived(c)
         IN /\ GoodChain(e) /\ Backs(kept.series, e) /\ e.consumer = c.consumer
            /\ e.raw.observed = c.raw.observed
<1>1. CASE c.raw = NoChain \/ c.raw.derived
  BY <1>1 DEF Derived
<1>2. CASE ~(c.raw = NoChain \/ c.raw.derived)
  <2>1. PICK b : b = [c EXCEPT !.raw.derived = TRUE]
    OBVIOUS
  <2>2. /\ b \in Chains /\ b.raw.observed = c.raw.observed /\ b.raw.received = c.raw.received
        /\ b.consumer = c.consumer /\ b.history = c.history /\ b.loaded = c.loaded
    BY <2>1 DEF GoodChain, Chains
  <2>3. c.raw.observed \in Observed
    BY <1>2 DEF GoodChain
  <2>4. GoodChain(b) /\ Backs(kept.series, b)
    BY <2>2, <2>3 DEF GoodChain, Backs
  <2>5. PICK d : d = WithHistory(b)
    OBVIOUS
  <2>6. /\ GoodChain(d) /\ Backs(kept.series, d) /\ d.loaded /\ d.raw = b.raw
        /\ d.consumer = c.consumer
    BY <2>2, <2>4, <2>5, WithHistoryIs
  <2>7. Derived(c) = IF c.raw.observed \in Range(d.history) THEN d
                     ELSE [d EXCEPT !.history = Inserted(@, c.raw.observed)]
    BY <1>2, <2>1, <2>5 DEF Derived
  <2>8. CASE c.raw.observed \in Range(d.history)
    BY <2>2, <2>6, <2>7, <2>8
  <2>9. CASE c.raw.observed \notin Range(d.history)
    <3>1. PICK t : t = Inserted(d.history, c.raw.observed)
      OBVIOUS
    <3>2. d.history \in Seq(Observed) /\ Rising(d.history) /\ d \in Chains
      BY <2>6 DEF GoodChain, Chains
    <3>3. t \in Seq(Observed) /\ Rising(t) /\ Range(d.history) \subseteq Range(t)
      BY <2>3, <2>9, <3>1, <3>2, InsertedIs
    <3>4. PICK e : e = [d EXCEPT !.history = t]
      OBVIOUS
    <3>5. /\ e \in Chains /\ e.loaded /\ e.raw = d.raw /\ e.history = t
          /\ e.consumer = d.consumer
      BY <2>6, <3>2, <3>3, <3>4 DEF Chains
    <3>6. GoodChain(e) /\ Backs(kept.series, e)
      BY <2>6, <3>3, <3>5 DEF GoodChain, Backs
    <3>7. Derived(c) = e
      BY <2>7, <2>9, <3>1, <3>4
    <3> QED BY <2>2, <2>6, <3>5, <3>6, <3>7
  <2> QED BY <2>8, <2>9
<1> QED BY <1>1, <1>2

(* What the coordinator does for an open pane keeps its chain and its history in line. *)
LEMMA SyncedIs ==
  ASSUME ChainBase, NEW c, GoodChain(c), Backs(kept.series, c), NEW seen \in BOOLEAN
  PROVE  LET e == Synced(c, seen)
         IN /\ GoodChain(e) /\ Backs(kept.series, e) /\ e.consumer = c.consumer
            /\ e.raw.observed = c.raw.observed
<1>1. CASE seen
  <2>1. PICK d : d = Derived(c)
    OBVIOUS
  <2>2. /\ GoodChain(d) /\ Backs(kept.series, d) /\ d.consumer = c.consumer
        /\ d.raw.observed = c.raw.observed
    BY <2>1, DerivedIs
  <2>3. PICK e : e = WithHistory(d)
    OBVIOUS
  <2>4. GoodChain(e) /\ Backs(kept.series, e) /\ e.consumer = d.consumer /\ e.raw = d.raw
    BY <2>2, <2>3, WithHistoryIs
  <2>5. Synced(c, seen) = e
    BY <1>1, <2>1, <2>3 DEF Synced
  <2> QED BY <2>2, <2>4, <2>5
<1>2. CASE ~seen
  BY <1>2 DEF Synced
<1> QED BY <1>1, <1>2

(* What is stored of a history is in it, and stays stored. *)
LEMMA StoreIs ==
  ASSUME ChainBase, NEW c, NEW d, GoodChain(d), Backs(kept.series, d)
  PROVE  LET k == Store(c, d)
         IN /\ k \in [file : Seconds, series : SUBSET Observed] /\ k.file = kept.file
            /\ Backs(k.series, d)
<1>1. PICK more : more = Range(d.history) \ Range(WithHistory(c).history)
  OBVIOUS
<1>2. PICK k : k = Store(c, d)
  OBVIOUS
<1>3. k = [kept EXCEPT !.series = @ \cup more]
  BY <1>1, <1>2 DEF Store
<1>4. more \subseteq Range(d.history) /\ more \subseteq Observed
  <2>1. d.history \in Seq(Observed)
    BY DEF GoodChain, Chains
  <2> QED BY <1>1, <2>1, RangeIs
<1>5. /\ k \in [file : Seconds, series : SUBSET Observed] /\ k.file = kept.file
      /\ k.series = kept.series \cup more
  BY <1>3, <1>4 DEF ChainBase
<1>6. Backs(k.series, d)
  BY <1>4, <1>5 DEF Backs
<1> QED BY <1>2, <1>5, <1>6

(* What a step of the running program may not do. *)
Onward == (crashes' = crashes) => chain'.raw.observed >= chain.raw.observed

(* Nothing is derived at first. *)
LEMMA ChainInitially == ChainInit => ChainInv
<1> SUFFICES ASSUME ChainInit PROVE ChainInv
  OBVIOUS
<1> USE ChainConstants
<1>1. ChainBase
  BY DEF ChainInit, ChainBase, Seconds, NoTime
<1>2. chain \in Chains /\ chain.raw = NoChain /\ chain.history = <<>> /\ ~chain.loaded
  BY DEF ChainInit, NewChain, NoChain, Chains, Seconds, NoTime
<1>3. NoChain.observed = 0 /\ NoChain.received = 0 /\ second \in Nat
  BY <1>1 DEF NoChain, NoTime, ChainBase
<1>4. GoodChain(chain)
  BY <1>1, <1>2, <1>3 DEF GoodChain, Rising, ChainBase
<1>5. Backs(kept.series, chain) /\ InTurn(chain)
  BY <1>2 DEF Backs, InTurn, ChainInit
<1> QED BY <1>1, <1>4, <1>5 DEF ChainInv

(* At most one request is due: the list or a snapshot. *)
LEMMA DueIs ==
  ASSUME NEW c
  PROVE  /\ Due(c) \subseteq {"instruments", "snapshot"}
         /\ \A k, l \in Due(c) : k = l
BY DEF Due

(* ChainTick. *)
LEMMA ChainTickStep == ChainInv /\ ChainTick => ChainInv' /\ Onward
<1> SUFFICES ASSUME ChainInv, ChainTick PROVE ChainInv' /\ Onward
  OBVIOUS
<1>1. ChainBase /\ GoodChain(chain) /\ Backs(kept.series, chain) /\ InTurn(chain)
  BY DEF ChainInv
<1>2. PICK wanted \in BOOLEAN, seen \in BOOLEAN, online \in BOOLEAN :
         LET c == [chain EXCEPT !.consumer = wanted,
                                !.force = @ \/ (wanted /\ ~chain.consumer)]
             d == Synced(c, seen)
         IN /\ chain' = d
            /\ kept' = Store(c, d)
            /\ asked' = asked \cup {[kind |-> kind, sent |-> second] :
                                       kind \in {k \in Due(d) : online /\ ~InFlight(k)}}
  BY ZenonT(40) DEF ChainTick
<1>3. PICK c : c = [chain EXCEPT !.consumer = wanted,
                                 !.force = @ \/ (wanted /\ ~chain.consumer)]
  OBVIOUS
<1>4. PICK d : d = Synced(c, seen)
  OBVIOUS
<1>5. PICK new : new = {k \in Due(d) : online /\ ~InFlight(k)}
  OBVIOUS
<1>6. /\ chain' = d /\ kept' = Store(c, d) /\ UNCHANGED <<second, crashes>>
      /\ asked' = asked \cup {[kind |-> kind, sent |-> second] : kind \in new}
  BY <1>2, <1>3, <1>4, <1>5, Zenon DEF ChainTick
<1>7. /\ c \in Chains /\ c.raw = chain.raw /\ c.history = chain.history
      /\ c.loaded = chain.loaded
  <2>1. PICK force \in BOOLEAN : force = (chain.force \/ (wanted /\ ~chain.consumer))
    OBVIOUS
  <2>2. c = [chain EXCEPT !.consumer = wanted, !.force = force]
    BY <1>3, <2>1, Zenon
  <2> QED BY <1>1, <2>2 DEF GoodChain, Chains
<1>8. GoodChain(c) /\ Backs(kept.series, c)
  BY <1>1, <1>7 DEF GoodChain, Backs
<1>9. GoodChain(d) /\ Backs(kept.series, d) /\ d.raw.observed = chain.raw.observed
  BY <1>1, <1>4, <1>7, <1>8, SyncedIs, SMTT(30)
<1>10. PICK k : k = Store(c, d)
  OBVIOUS
<1>11. /\ k \in [file : Seconds, series : SUBSET Observed] /\ k.file = kept.file
       /\ Backs(k.series, d)
  BY <1>1, <1>9, <1>10, StoreIs
<1>12. /\ second \in Nat /\ second >= 1 /\ d.raw.observed \in Nat
       /\ d.raw.observed <= second
  BY <1>1, <1>9, ChainConstants DEF ChainBase, GoodChain, Chains, Seconds
<1>13. ASSUME NEW r \in asked'
       PROVE  /\ r.kind \in {"instruments", "snapshot"} /\ r.sent \in 1 .. second
              /\ r.kind = "snapshot" => d.raw.observed <= r.sent
              /\ \A q \in asked' : q.kind = r.kind => q = r
  <2>1. \A q \in asked' : q \in asked \/ \E l \in new : q = [kind |-> l, sent |-> second]
    BY <1>6
  <2>2. \A l \in new : /\ l \in {"instruments", "snapshot"} /\ l \in Due(d)
                       /\ \A q \in asked : q.kind # l
    BY <1>5, DueIs DEF InFlight
  <2>3. CASE r \in asked
    <3>1. /\ r.kind \in {"instruments", "snapshot"} /\ r.sent \in 1 .. second
          /\ r.kind = "snapshot" => d.raw.observed <= r.sent
          /\ \A q \in asked : q.kind = r.kind => q = r
      BY <1>1, <1>9, <2>3 DEF InTurn
    <3>2. ASSUME NEW q \in asked', q.kind = r.kind PROVE q \in asked
      BY <2>1, <2>2, <2>3, <3>2
    <3> QED BY <3>1, <3>2
  <2>4. CASE r \notin asked
    <3>1. PICK l \in new : r = [kind |-> l, sent |-> second]
      BY <2>1, <2>4
    <3>2. ASSUME NEW q \in asked', q.kind = r.kind PROVE q = r
      <4>1. q \notin asked
        BY <2>2, <3>1, <3>2
      <4>2. PICK m \in new : q = [kind |-> m, sent |-> second]
        BY <2>1, <4>1
      <4> QED BY <3>1, <3>2, <4>2
    <3>3. r.kind = l /\ r.sent = second
      BY <3>1
    <3>4. r.kind \in {"instruments", "snapshot"} /\ r.sent \in 1 .. second
      BY <1>12, <2>2, <3>3
    <3>5. d.raw.observed <= r.sent
      BY <1>12, <3>3
    <3> QED BY <3>2, <3>4, <3>5
  <2> QED BY <2>3, <2>4
<1>14. ChainBase'
  <2>1. k.file <= second
    BY <1>1, <1>11 DEF ChainBase
  <2> QED BY <1>1, <1>6, <1>10, <1>11, <2>1 DEF ChainBase
<1>15. GoodChain(chain)'
  BY <1>6, <1>9 DEF GoodChain
<1>16. Backs(kept.series, chain)'
  BY <1>6, <1>10, <1>11 DEF Backs
<1>17. InTurn(chain)'
  <2>1. chain' = d /\ second' = second
    BY <1>6
  <2> QED BY <1>13, <2>1 DEF InTurn
<1>18. Onward
  BY <1>6, <1>9, <1>12 DEF Onward
<1> QED BY <1>14, <1>15, <1>16, <1>17, <1>18 DEF ChainInv

(* ChainReconnect. *)
LEMMA ChainReconnectStep == ChainInv /\ ChainReconnect => ChainInv' /\ Onward
<1> SUFFICES ASSUME ChainInv, ChainReconnect PROVE ChainInv' /\ Onward
  OBVIOUS
<1>1. PICK force \in BOOLEAN : force = (chain.force \/ chain.consumer)
  OBVIOUS
<1>2. PICK d : d = [chain EXCEPT !.force = force]
  OBVIOUS
<1>3. chain' = d /\ UNCHANGED <<second, asked, kept, crashes>>
  BY <1>1, <1>2, Zenon DEF ChainReconnect
<1>4. /\ d \in Chains /\ d.raw = chain.raw /\ d.history = chain.history
      /\ d.loaded = chain.loaded
  BY <1>2 DEF ChainInv, GoodChain, Chains
<1>5. d.raw.observed \in Nat
  BY <1>4, ChainConstants DEF Chains, Seconds
<1>6. ChainInv'
  BY <1>3, <1>4 DEF ChainInv, ChainBase, GoodChain, Backs, InTurn
<1> QED BY <1>3, <1>4, <1>5, <1>6 DEF Onward

(* A change of times alone. *)
LEMMA TimesAreFree ==
  ASSUME ChainInv, NEW d, d \in Chains, d.raw = chain.raw, d.history = chain.history,
         d.loaded = chain.loaded, chain' = d, asked' \subseteq asked,
         UNCHANGED <<second, kept, crashes>>
  PROVE  ChainInv' /\ Onward
<1>1. d.raw.observed \in Nat
  BY ChainConstants DEF Chains, Seconds
<1>2. ChainBase' /\ GoodChain(chain)' /\ Backs(kept.series, chain)'
  BY DEF ChainInv, ChainBase, GoodChain, Backs
<1>3. InTurn(chain)'
  BY DEF ChainInv, InTurn
<1> QED BY <1>1, <1>2, <1>3 DEF ChainInv, Onward

(* A failure backs off, and leaves the chain. *)
LEMMA FailsIs ==
  ASSUME ChainBase, NEW c \in Chains
  PROVE  LET d == Fails(c)
         IN d \in Chains /\ d.raw = c.raw /\ d.history = c.history /\ d.loaded = c.loaded
<1>1. second + ChainBackoff \in 0 .. LastSecond + ChainBackoff
  BY ChainConstants DEF ChainBase
<1>2. PICK n : n = second + ChainBackoff
  OBVIOUS
<1>3. Fails(c) = [c EXCEPT !.retryAfter = n]
  BY <1>2 DEF Fails
<1> QED BY <1>1, <1>2, <1>3 DEF Chains

(* InstrumentsArrive. *)
LEMMA InstrumentsArriveStep ==
  ASSUME ChainInv, NEW request \in asked, InstrumentsArrive(request)
  PROVE  ChainInv' /\ Onward
<1>1. chain \in Chains /\ ChainBase
  BY DEF ChainInv, GoodChain
<1>2. PICK e : e = [chain EXCEPT !.listAt = second, !.retryAfter = NoTime, !.force = TRUE]
  OBVIOUS
<1>3. PICK f : f = Fails(chain)
  OBVIOUS
<1>4. second \in Seconds /\ NoTime \in 0 .. LastSecond + ChainBackoff
  BY <1>1, ChainConstants DEF ChainBase, Seconds, NoTime
<1>5. e \in Chains /\ e.raw = chain.raw /\ e.history = chain.history /\ e.loaded = chain.loaded
  BY <1>1, <1>2, <1>4 DEF Chains
<1>6. f \in Chains /\ f.raw = chain.raw /\ f.history = chain.history /\ f.loaded = chain.loaded
  BY <1>1, <1>3, FailsIs
<1>7. chain' \in {e, f}
  BY <1>2, <1>3 DEF InstrumentsArrive
<1>8. asked' \subseteq asked /\ UNCHANGED <<second, kept, crashes>>
  BY DEF InstrumentsArrive
<1> QED BY <1>5, <1>6, <1>7, <1>8, TimesAreFree

(* SnapshotArrives: the answer was observed after what was seen when it was asked for. *)
LEMMA SnapshotArrivesStep ==
  ASSUME ChainInv, NEW request \in asked, SnapshotArrives(request)
  PROVE  ChainInv' /\ Onward
<1>1. ChainBase /\ GoodChain(chain) /\ Backs(kept.series, chain) /\ InTurn(chain)
  BY DEF ChainInv
<1>2. PICK c : c = [chain EXCEPT !.force = FALSE]
  OBVIOUS
<1>3. /\ c \in Chains /\ c.raw = chain.raw /\ c.history = chain.history
      /\ c.loaded = chain.loaded /\ c.consumer = chain.consumer
  BY <1>1, <1>2 DEF GoodChain, Chains
<1>4. /\ request.kind = "snapshot" /\ asked' = asked \ {request}
      /\ UNCHANGED <<second, crashes>>
  BY DEF SnapshotArrives
<1>5. CASE chain' = Fails(c) /\ UNCHANGED kept
  <2>1. PICK f : f = Fails(c)
    OBVIOUS
  <2>2. f \in Chains /\ f.raw = chain.raw /\ f.history = chain.history
        /\ f.loaded = chain.loaded
    BY <1>1, <1>3, <2>1, FailsIs
  <2> QED BY <1>4, <1>5, <2>1, <2>2, TimesAreFree
<1>6. ASSUME NEW observed \in request.sent .. second, NEW seen \in BOOLEAN,
             NEW n, NEW d, NEW file \in {observed, kept.file, NoTime},
             n = [c EXCEPT !.raw = [observed |-> observed, received |-> second,
                                    derived |-> FALSE], !.retryAfter = NoTime],
             d = Synced(n, seen), chain' = d,
             kept' = [Store(n, d) EXCEPT !.file = file]
      PROVE  ChainInv' /\ Onward
  <2>1. /\ request.sent \in 1 .. second /\ chain.raw.observed <= request.sent
        /\ \A q \in asked : q.kind = request.kind => q = request
    BY <1>1, <1>4 DEF InTurn
  <2>2. /\ second \in Nat /\ second <= LastSecond /\ observed \in Observed
        /\ observed <= second /\ observed \in Seconds /\ second \in Seconds
        /\ chain.raw.observed \in Nat /\ chain.raw.observed <= observed
    BY <1>1, <2>1, ChainConstants, SMTT(30) DEF ChainBase, GoodChain, Chains, Seconds, Observed
  <2>3. PICK raw : raw = [observed |-> observed, received |-> second, derived |-> FALSE]
    OBVIOUS
  <2>4. NoTime \in 0 .. LastSecond + ChainBackoff
    BY ChainConstants DEF NoTime
  <2>5. /\ n \in Chains /\ n.raw = raw /\ n.history = chain.history
        /\ n.loaded = chain.loaded /\ raw.observed = observed /\ raw.received = second
    BY <1>3, <1>6, <2>2, <2>3, <2>4 DEF Chains
  <2>6. GoodChain(n) /\ Backs(kept.series, n)
    BY <1>1, <2>2, <2>5 DEF GoodChain, Backs
  <2>7. GoodChain(d) /\ Backs(kept.series, d) /\ d.raw.observed = observed
    BY <1>1, <1>6, <2>5, <2>6, SyncedIs
  <2>8. PICK s : s = Store(n, d)
    OBVIOUS
  <2>9. s \in [file : Seconds, series : SUBSET Observed] /\ Backs(s.series, d)
    BY <1>1, <2>7, <2>8, StoreIs
  <2>10. PICK k : k = [s EXCEPT !.file = file]
    OBVIOUS
  <2>11. file \in Seconds /\ file <= second
    BY <1>1, <2>2, ChainConstants DEF ChainBase, Seconds, NoTime
  <2>12. /\ k \in [file : Seconds, series : SUBSET Observed] /\ k.file = file
         /\ k.series = s.series
    BY <2>9, <2>10, <2>11
  <2>13. kept' = k
    BY <1>6, <2>8, <2>10
  <2>14. ChainBase'
    BY <1>1, <1>4, <2>11, <2>12, <2>13 DEF ChainBase
  <2>15. GoodChain(chain)'
    BY <1>4, <1>6, <2>7 DEF GoodChain
  <2>16. Backs(kept.series, chain)'
    BY <1>6, <2>9, <2>12, <2>13 DEF Backs
  <2>17. InTurn(chain)'
    BY <1>1, <1>4, <2>1 DEF InTurn
  <2>18. Onward
    BY <1>6, <2>2, <2>7 DEF Onward
  <2> QED BY <2>14, <2>15, <2>16, <2>17, <2>18 DEF ChainInv
<1>7. CASE \E observed \in request.sent .. second, seen \in BOOLEAN :
              LET n == [c EXCEPT !.raw = [observed |-> observed, received |-> second,
                                          derived |-> FALSE], !.retryAfter = NoTime]
                  d == Synced(n, seen)
              IN /\ chain' = d
                 /\ \E file \in {observed, kept.file, NoTime} :
                       kept' = [Store(n, d) EXCEPT !.file = file]
  <2>1. PICK observed \in request.sent .. second, seen \in BOOLEAN :
           LET n == [c EXCEPT !.raw = [observed |-> observed, received |-> second,
                                       derived |-> FALSE], !.retryAfter = NoTime]
               d == Synced(n, seen)
           IN /\ chain' = d
              /\ \E file \in {observed, kept.file, NoTime} :
                    kept' = [Store(n, d) EXCEPT !.file = file]
    BY <1>7
  <2>2. PICK n : n = [c EXCEPT !.raw = [observed |-> observed, received |-> second,
                                        derived |-> FALSE], !.retryAfter = NoTime]
    OBVIOUS
  <2>3. PICK d : d = Synced(n, seen)
    OBVIOUS
  <2>4. /\ chain' = d
        /\ \E file \in {observed, kept.file, NoTime} :
              kept' = [Store(n, d) EXCEPT !.file = file]
    BY <2>1, <2>2, <2>3
  <2>5. PICK file \in {observed, kept.file, NoTime} : kept' = [Store(n, d) EXCEPT !.file = file]
    BY <2>4
  <2> QED BY <1>6, <2>2, <2>3, <2>4, <2>5, Zenon
<1> QED BY <1>2, <1>5, <1>7, ZenonT(30) DEF SnapshotArrives

(* SecondPasses. *)
LEMMA SecondPassesStep == ChainInv /\ SecondPasses => ChainInv' /\ Onward
<1> SUFFICES ASSUME ChainInv, SecondPasses PROVE ChainInv' /\ Onward
  OBVIOUS
<1>1. /\ second \in Nat /\ second' = second + 1 /\ second' \in 1 .. LastSecond
      /\ UNCHANGED <<chain, asked, kept, crashes>>
  BY ChainConstants DEF ChainInv, ChainBase, SecondPasses
<1>2. /\ chain.raw.observed \in Nat /\ chain.raw.received \in Nat
      /\ kept.file \in Nat
  BY ChainConstants DEF ChainInv, ChainBase, GoodChain, Chains, Seconds
<1>3. ChainBase' /\ GoodChain(chain)' /\ Backs(kept.series, chain)'
  BY <1>1, <1>2 DEF ChainInv, ChainBase, GoodChain, Backs
<1>4. InTurn(chain)'
  BY <1>1 DEF ChainInv, InTurn
<1> QED BY <1>1, <1>2, <1>3, <1>4 DEF ChainInv, Onward

(* ChainRestarts. *)
LEMMA ChainRestartsStep == ChainInv /\ ChainRestarts => ChainInv' /\ Onward
<1> SUFFICES ASSUME ChainInv, ChainRestarts PROVE ChainInv' /\ Onward
  OBVIOUS
<1> USE ChainConstants
<1>1. /\ crashes \in Nat /\ crashes' = crashes + 1 /\ crashes' \in 0 .. MaxCrashes
      /\ asked' = {} /\ UNCHANGED <<second, kept>>
  BY DEF ChainInv, ChainBase, ChainRestarts, ChainCrash
<1>2. PICK d : d = NewChain(kept.file)
  OBVIOUS
<1>3. chain' = d
  BY <1>2 DEF ChainRestarts
<1>4. kept.file \in Seconds /\ kept.file <= second /\ second \in Nat
  BY DEF ChainInv, ChainBase
<1>5. d \in Chains /\ d.history = <<>> /\ ~d.loaded
  BY <1>2, <1>4 DEF NewChain, NoChain, Chains, Seconds, NoTime
<1>6. /\ d.raw.observed <= d.raw.received /\ d.raw.received <= second
      /\ d.raw = NoChain \/ d.raw.observed \in Observed
  <2>1. CASE kept.file = NoTime
    <3>1. d.raw = NoChain /\ NoChain.observed = 0 /\ NoChain.received = 0
      BY <1>2, <2>1 DEF NewChain, NoChain, NoTime
    <3> QED BY <1>4, <3>1
  <2>2. CASE kept.file # NoTime
    <3>1. d.raw.observed = kept.file /\ d.raw.received = kept.file
      BY <1>2, <2>2 DEF NewChain
    <3> QED BY <1>4, <2>2, <3>1 DEF Seconds, Observed, NoTime
  <2> QED BY <2>1, <2>2
<1>7. ChainBase'
  BY <1>1 DEF ChainInv, ChainBase
<1>8. GoodChain(chain)' /\ Backs(kept.series, chain)' /\ InTurn(chain)'
  BY <1>1, <1>3, <1>5, <1>6 DEF GoodChain, Rising, Backs, InTurn
<1> QED BY <1>1, <1>7, <1>8 DEF ChainInv, Onward

(* ChainCleared. *)
LEMMA ChainClearedStep == ChainInv /\ ChainCleared => ChainInv' /\ Onward
<1> SUFFICES ASSUME ChainInv, ChainCleared PROVE ChainInv' /\ Onward
  OBVIOUS
<1> USE ChainConstants
<1>1. /\ crashes \in Nat /\ crashes' = crashes + 1 /\ crashes' \in 0 .. MaxCrashes
      /\ UNCHANGED <<second, asked>>
  BY DEF ChainInv, ChainBase, ChainCleared, ChainCrash
<1>2. PICK d : d = [chain EXCEPT !.raw = NoChain, !.history = <<>>, !.loaded = FALSE]
  OBVIOUS
<1>3. chain' = d
  BY <1>2 DEF ChainCleared
<1>4. NoChain \in [observed : Seconds, received : Seconds, derived : BOOLEAN]
      /\ NoChain.observed = 0 /\ NoChain.received = 0
  BY DEF NoChain, NoTime, Seconds
<1>5. d \in Chains /\ d.history = <<>> /\ ~d.loaded /\ d.raw = NoChain
  <2>1. chain \in Chains /\ <<>> \in Seq(Observed)
    BY DEF ChainInv, GoodChain
  <2> QED BY <1>2, <1>4, <2>1 DEF Chains
<1>6. second \in Nat /\ second >= 1
  BY DEF ChainInv, ChainBase
<1>7. /\ kept' \in [file : Seconds, series : SUBSET Observed] /\ kept'.file <= second
  BY <1>6 DEF ChainInv, ChainBase, ChainCleared, NoTime, Seconds
<1>8. ChainBase'
  BY <1>1, <1>7 DEF ChainInv, ChainBase
<1>9. GoodChain(chain)' /\ Backs(kept.series, chain)'
  BY <1>1, <1>3, <1>4, <1>5, <1>6 DEF GoodChain, Rising, Backs
<1>10. InTurn(chain)'
  <2>1. \A r \in asked : r.sent \in 1 .. second => NoChain.observed <= r.sent
    BY <1>4
  <2> QED BY <1>1, <1>3, <1>5, <2>1 DEF ChainInv, InTurn
<1> QED BY <1>1, <1>8, <1>9, <1>10 DEF ChainInv, Onward

(* Every step keeps the invariant and goes onward. *)
LEMMA ChainStep == ChainInv /\ [ChainNext]_chainVars => ChainInv' /\ (ChainNext => Onward)
<1> SUFFICES ASSUME ChainInv, [ChainNext]_chainVars PROVE ChainInv' /\ (ChainNext => Onward)
  OBVIOUS
<1>1. CASE ChainNext
  BY <1>1, ChainTickStep, ChainReconnectStep, SecondPassesStep, ChainRestartsStep,
     ChainClearedStep, InstrumentsArriveStep, SnapshotArrivesStep DEF ChainNext
<1>2. CASE UNCHANGED chainVars
  <2>1. chain.raw.observed \in Nat
    BY ChainConstants DEF ChainInv, GoodChain, Chains, Seconds
  <2>2. ChainInv'
    BY <1>2 DEF ChainInv, ChainBase, GoodChain, Backs, InTurn, chainVars
  <2> QED BY <1>2, <2>1, <2>2 DEF Onward, chainVars
<1> QED BY <1>1, <1>2

(* For every number of seconds and all lives of a list and a snapshot: over restarts that     *)
(* bring back an older file, clearings that succeed in part and late derivations, the history *)
(* is strictly in order and holds what the cache has.                                         *)
THEOREM HistoryStaysOneLine == ChainSpec => []HistoryIsOneLine
<1>1. ChainInv => HistoryIsOneLine
  <2> SUFFICES ASSUME ChainInv PROVE HistoryIsOneLine
    OBVIOUS
  <2>1. /\ Rising(chain.history) /\ DOMAIN chain.history = 1 .. Len(chain.history)
        /\ Len(chain.history) \in Nat
    BY DEF ChainInv, GoodChain, Chains
  <2>2. ASSUME NEW i \in DOMAIN chain.history, NEW j \in 1 .. (i - 1)
        PROVE  chain.history[j] < chain.history[i]
    <3>1. j \in 1 .. Len(chain.history) /\ j < i
      BY <2>1
    <3> QED BY <2>1, <3>1 DEF Rising
  <2> QED BY <2>2 DEF ChainInv, Backs, HistoryIsOneLine
<1> QED BY <1>1, ChainInitially, ChainStep, PTL DEF ChainSpec

(* While the program runs the chain on display is never replaced by one observed earlier: the *)
(* answer to a request belongs to the time after the chain that was shown when it was sent.   *)
THEOREM ChainGoesForward == ChainSpec => ChainNeverRewinds
<1>1. ChainInv /\ [ChainNext]_chainVars
        => [(crashes' = crashes) => chain'.raw.observed >= chain.raw.observed]_chainVars
  BY ChainStep DEF Onward
<1> QED BY <1>1, ChainInitially, ChainStep, PTL DEF ChainSpec, ChainNeverRewinds

(* The coordinator, what is in flight and what is on disk keep their types. *)
THEOREM ChainTypeCorrect == ChainSpec => []ChainTypeOK
<1>1. ChainInv => ChainTypeOK
  <2> SUFFICES ASSUME ChainInv PROVE ChainTypeOK
    OBVIOUS
  <2>1. ChainBase /\ GoodChain(chain) /\ InTurn(chain) /\ second \in Nat
    BY ChainConstants DEF ChainInv, ChainBase
  <2>2. /\ {chain.listAt, chain.raw.observed, chain.raw.received, kept.file} \subseteq Seconds
        /\ chain.raw.observed <= chain.raw.received
        /\ chain.retryAfter \in 0 .. (LastSecond + ChainBackoff)
    BY <2>1 DEF ChainBase, GoodChain, Chains
  <2>3. Range(chain.history) \cup kept.series \subseteq Observed
    <3>1. chain.history \in Seq(Observed) /\ kept.series \subseteq Observed
      BY <2>1 DEF ChainBase, GoodChain, Chains
    <3> QED BY <3>1, RangeIs
  <2>4. \A request \in asked : request.sent <= second
    BY <2>1 DEF InTurn
  <2> QED BY <2>1, <2>2, <2>3, <2>4 DEF ChainTypeOK, ChainBase, Seconds, Observed
<1> QED BY <1>1, ChainInitially, ChainStep, PTL DEF ChainSpec

--------------------------------------------------------------------------------
(* WsSession. *)

(* The events of a session. *)
Events ==
    [type : {"status"}, up : BOOLEAN]
      \cup [type : {"trades"}, ids : Seq(Ids) \ {<<>>}]
      \cup [type : {"orderflow"}, ids : Seq(Ids)]
      \cup [type : {"reconnect"}]

Values(kind) == IF kind = "up" THEN BOOLEAN ELSE Nat

(* What an event tells: the status it sets, and data come only while that is up; the trades  *)
(* it goes on with.                                                                          *)
Tells(kind, before, event, after) ==
    /\ kind = "up" =>
         /\ event.type = "status" => after = event.up
         /\ event.type # "status" => after = before
         /\ event.type \in {"trades", "orderflow"} => before = TRUE
    /\ kind = "ids" =>
         /\ event.type = "trades" => /\ event.ids # <<>> /\ Follow(event.ids, before)
                                     /\ after = before + Len(event.ids)
         /\ event.type # "trades" => after = before

(* v[i] is known after the first i of the events. *)
Traces(kind, events0, v, from, to) ==
    /\ v \in [0 .. Len(events0) -> Values(kind)]
    /\ v[0] = from /\ v[Len(events0)] = to
    /\ \A i \in 1 .. Len(events0) : Tells(kind, v[i - 1], events0[i], v[i])

(* The events lead from what is known before them to what is known after them. *)
Leads(kind, events0, from, to) == \E v : Traces(kind, events0, v, from, to)

(* No event tells anything. *)
LEMMA LeadsNowhere ==
  ASSUME NEW kind, NEW from \in Values(kind)
  PROVE  Leads(kind, <<>>, from, from)
<1>1. PICK v : v = [i \in 0 .. 0 |-> from]
  OBVIOUS
<1>2. Len(<<>>) = 0 /\ 0 .. 0 = {0} /\ 1 .. 0 = {}
  OBVIOUS
<1>3. v \in [0 .. 0 -> Values(kind)] /\ v[0] = from
  BY <1>1, <1>2
<1>4. Traces(kind, <<>>, v, from, from)
  BY <1>2, <1>3 DEF Traces
<1> QED BY <1>4 DEF Leads

(* No event tells anything. *)
LEMMA LeadsNowhereElse ==
  ASSUME NEW kind, NEW from, NEW to, Leads(kind, <<>>, from, to)
  PROVE  from = to /\ from \in Values(kind)
<1>1. PICK v : Traces(kind, <<>>, v, from, to)
  BY DEF Leads
<1>2. Len(<<>>) = 0 /\ 0 \in 0 .. 0
  OBVIOUS
<1> QED BY <1>1, <1>2 DEF Traces

(* One event leads to what it tells. *)
LEMMA LeadsOnce ==
  ASSUME NEW kind, NEW e \in Events, NEW from \in Values(kind), NEW to \in Values(kind),
         Tells(kind, from, e, to)
  PROVE  Leads(kind, <<e>>, from, to)
<1>1. PICK v : v = [i \in 0 .. 1 |-> IF i = 0 THEN from ELSE to]
  OBVIOUS
<1>2. Len(<<e>>) = 1 /\ 0 .. 1 = {0, 1} /\ 1 .. 1 = {1} /\ <<e>>[1] = e
  OBVIOUS
<1>3. v \in [0 .. 1 -> Values(kind)] /\ v[0] = from /\ v[1] = to
  BY <1>1, <1>2
<1>4. \A i \in 1 .. 1 : Tells(kind, v[i - 1], <<e>>[i], v[i])
  <2>1. 1 - 1 = 0
    OBVIOUS
  <2> QED BY <1>2, <1>3, <2>1
<1>5. Traces(kind, <<e>>, v, from, to)
  BY <1>2, <1>3, <1>4 DEF Traces
<1> QED BY <1>5 DEF Leads

(* One event leads to what it tells, and to nothing else. *)
LEMMA OnceTells ==
  ASSUME NEW kind, NEW e \in Events, NEW from, NEW to, Leads(kind, <<e>>, from, to)
  PROVE  Tells(kind, from, e, to) /\ from \in Values(kind) /\ to \in Values(kind)
<1>1. PICK v : Traces(kind, <<e>>, v, from, to)
  BY DEF Leads
<1>2. Len(<<e>>) = 1 /\ 0 .. 1 = {0, 1} /\ 1 \in 1 .. 1 /\ <<e>>[1] = e /\ 1 - 1 = 0
  OBVIOUS
<1>3. v \in [0 .. 1 -> Values(kind)] /\ v[0] = from /\ v[1] = to
      /\ Tells(kind, v[1 - 1], <<e>>[1], v[1])
  BY <1>1, <1>2 DEF Traces
<1> QED BY <1>2, <1>3

(* Where events lead, further events lead on. *)
LEMMA LeadsOn ==
  ASSUME NEW kind, NEW p \in Seq(Events), NEW q \in Seq(Events), NEW from, NEW mid, NEW to,
         Leads(kind, p, from, mid), Leads(kind, q, mid, to)
  PROVE  Leads(kind, p \o q, from, to)
<1>1. PICK v : Traces(kind, p, v, from, mid)
  BY DEF Leads
<1>2. PICK w : Traces(kind, q, w, mid, to)
  BY DEF Leads
<1>3. PICK m, n : m = Len(p) /\ n = Len(q)
  OBVIOUS
<1>4. m \in Nat /\ n \in Nat
  BY <1>3
<1>5. PICK s : s = p \o q
  OBVIOUS
<1>6. /\ Len(s) = m + n
      /\ \A i \in 1 .. m + n : s[i] = IF i <= m THEN p[i] ELSE q[i - m]
  BY <1>3, <1>5
<1>7. /\ v \in [0 .. m -> Values(kind)] /\ v[0] = from /\ v[m] = mid
      /\ \A i \in 1 .. m : Tells(kind, v[i - 1], p[i], v[i])
      /\ w \in [0 .. n -> Values(kind)] /\ w[0] = mid /\ w[n] = to
      /\ \A i \in 1 .. n : Tells(kind, w[i - 1], q[i], w[i])
  BY <1>1, <1>2, <1>3 DEF Traces
<1>8. PICK u : u = [i \in 0 .. m + n |-> IF i <= m THEN v[i] ELSE w[i - m]]
  OBVIOUS
<1>9. /\ \A i \in 0 .. m : u[i] = v[i] /\ i \in 0 .. m + n
      /\ \A i \in 0 .. n : u[m + i] = w[i] /\ m + i \in 0 .. m + n
  <2>1. ASSUME NEW i \in 0 .. m PROVE u[i] = v[i] /\ i \in 0 .. m + n
    BY <1>4, <1>8
  <2>2. ASSUME NEW i \in 0 .. n PROVE u[m + i] = w[i] /\ m + i \in 0 .. m + n
    <3>1. m + i \in 0 .. m + n /\ (m + i) - m = i /\ (m + i <= m => i = 0 /\ m + i = m)
      BY <1>4
    <3>2. CASE i = 0
      <4>1. m + i = m /\ m \in 0 .. m
        BY <1>4, <3>2
      <4> QED BY <1>7, <2>1, <3>1, <3>2, <4>1
    <3>3. CASE i # 0
      BY <1>8, <3>1, <3>3
    <3> QED BY <3>2, <3>3
  <2> QED BY <2>1, <2>2
<1>10. u \in [0 .. m + n -> Values(kind)]
  <2>1. ASSUME NEW i \in 0 .. m + n
        PROVE  (IF i <= m THEN v[i] ELSE w[i - m]) \in Values(kind)
    <3>1. CASE i <= m
      <4>1. i \in 0 .. m
        BY <1>4, <3>1
      <4> QED BY <1>7, <3>1, <4>1
    <3>2. CASE ~(i <= m)
      <4>1. i - m \in 0 .. n
        BY <1>4, <3>2
      <4> QED BY <1>7, <3>2, <4>1
    <3> QED BY <3>1, <3>2
  <2> QED BY <1>8, <2>1
<1>11. u[0] = from /\ u[m + n] = to
  BY <1>4, <1>7, <1>9
<1>12. ASSUME NEW i \in 1 .. m + n PROVE Tells(kind, u[i - 1], s[i], u[i])
  <2>1. CASE i <= m
    <3>1. i \in 1 .. m /\ i \in 0 .. m /\ i - 1 \in 0 .. m
      BY <1>4, <2>1
    <3>2. u[i] = v[i] /\ u[i - 1] = v[i - 1] /\ s[i] = p[i]
      BY <1>6, <1>9, <2>1, <3>1
    <3> QED BY <1>7, <3>1, <3>2
  <2>2. CASE ~(i <= m)
    <3>1. PICK k : k = i - m
      OBVIOUS
    <3>2. /\ k \in 1 .. n /\ k \in 0 .. n /\ k - 1 \in 0 .. n
          /\ m + k = i /\ m + (k - 1) = i - 1
      BY <1>4, <2>2, <3>1
    <3>3. u[i] = w[k] /\ u[i - 1] = w[k - 1] /\ s[i] = q[k]
      BY <1>6, <1>9, <2>2, <3>1, <3>2
    <3> QED BY <1>7, <3>2, <3>3
  <2> QED BY <2>1, <2>2
<1>13. Traces(kind, s, u, from, to)
  BY <1>6, <1>10, <1>11, <1>12 DEF Traces
<1> QED BY <1>5, <1>13 DEF Leads

(* Events in a row lead through what is known between them. *)
LEMMA LeadsThrough ==
  ASSUME NEW kind, NEW p \in Seq(Events), NEW q \in Seq(Events), NEW from, NEW to,
         Leads(kind, p \o q, from, to)
  PROVE  \E mid : Leads(kind, p, from, mid) /\ Leads(kind, q, mid, to)
<1>1. PICK s : s = p \o q
  OBVIOUS
<1>2. PICK u : Traces(kind, s, u, from, to)
  BY <1>1 DEF Leads
<1>3. PICK m, n : m = Len(p) /\ n = Len(q)
  OBVIOUS
<1>4. m \in Nat /\ n \in Nat
  BY <1>3
<1>5. /\ Len(s) = m + n
      /\ \A i \in 1 .. m + n : s[i] = IF i <= m THEN p[i] ELSE q[i - m]
  BY <1>1, <1>3
<1>6. /\ u \in [0 .. m + n -> Values(kind)] /\ u[0] = from /\ u[m + n] = to
      /\ \A i \in 1 .. m + n : Tells(kind, u[i - 1], s[i], u[i])
  BY <1>2, <1>5 DEF Traces
<1>7. PICK v : v = [i \in 0 .. m |-> u[i]]
  OBVIOUS
<1>8. PICK w : w = [i \in 0 .. n |-> u[m + i]]
  OBVIOUS
<1>9. v \in [0 .. m -> Values(kind)] /\ \A i \in 0 .. m : v[i] = u[i]
  <2>1. \A i \in 0 .. m : i \in 0 .. m + n
    BY <1>4
  <2> QED BY <1>6, <1>7, <2>1
<1>10. w \in [0 .. n -> Values(kind)] /\ \A i \in 0 .. n : w[i] = u[m + i]
  <2>1. \A i \in 0 .. n : m + i \in 0 .. m + n
    BY <1>4
  <2> QED BY <1>6, <1>8, <2>1
<1>11. Traces(kind, p, v, from, u[m])
  <2>1. v[0] = from /\ v[m] = u[m]
    BY <1>4, <1>6, <1>9
  <2>2. ASSUME NEW i \in 1 .. m PROVE Tells(kind, v[i - 1], p[i], v[i])
    <3>1. i \in 0 .. m /\ i - 1 \in 0 .. m /\ i \in 1 .. m + n /\ i <= m
      BY <1>4
    <3>2. v[i] = u[i] /\ v[i - 1] = u[i - 1] /\ s[i] = p[i]
      BY <1>5, <1>9, <3>1
    <3> QED BY <1>6, <3>1, <3>2
  <2> QED BY <1>3, <1>9, <2>1, <2>2 DEF Traces
<1>12. Traces(kind, q, w, u[m], to)
  <2>1. w[0] = u[m] /\ w[n] = to
    <3>1. m + 0 = m /\ 0 \in 0 .. n /\ n \in 0 .. n
      BY <1>4
    <3> QED BY <1>6, <1>10, <3>1
  <2>2. ASSUME NEW i \in 1 .. n PROVE Tells(kind, w[i - 1], q[i], w[i])
    <3>1. PICK k : k = m + i
      OBVIOUS
    <3>2. /\ i \in 0 .. n /\ i - 1 \in 0 .. n /\ k \in 1 .. m + n /\ ~(k <= m)
          /\ k - m = i /\ m + (i - 1) = k - 1
      BY <1>4, <3>1
    <3>3. w[i] = u[k] /\ w[i - 1] = u[k - 1] /\ s[k] = q[i]
      BY <1>5, <1>10, <3>1, <3>2
    <3> QED BY <1>6, <3>2, <3>3
  <2> QED BY <1>3, <1>10, <2>1, <2>2 DEF Traces
<1> QED BY <1>11, <1>12 DEF Leads

(* The constants as numbers. *)
LEMMA SessionConstants ==
    /\ ChannelCap \in Nat \ {0} /\ RawCap \in Nat \ {0} /\ IdleLimit \in Nat \ {0}
    /\ MaxDelay \in Nat \ {0} /\ MaxFrames \in Nat \ {0} /\ MaxTrades \in Nat \ {0}
    /\ DrainMax \in Nat
BY SessionAssumption

(* The last event of a type before another. *)
LEMMA LastOfIs ==
  ASSUME Pipeline \in Seq(Events), NEW i \in 1 .. Len(Pipeline) + 1, NEW type
  PROVE  /\ LastOf(type, i) \in 0 .. i - 1
         /\ LastOf(type, i) # 0 => Pipeline[LastOf(type, i)].type = type
         /\ \A k \in 1 .. i - 1 : k > LastOf(type, i) => Pipeline[k].type # type
<1>1. PICK n : n = i - 1
  OBVIOUS
<1>2. n \in Nat
  BY <1>1
<1>3. PICK T : T = {0} \cup {j \in 1 .. n : Pipeline[j].type = type}
  OBVIOUS
<1>4. T \subseteq 0 .. n /\ T # {} /\ T \subseteq Nat
  BY <1>2, <1>3
<1>5. \E x \in T : \A y \in T : x >= y
  BY <1>2, <1>4, GreatestNat
<1>6. PICK x : x = LastOf(type, i)
  OBVIOUS
<1>7. x \in T /\ \A y \in T : x >= y
  BY <1>1, <1>3, <1>5, <1>6 DEF LastOf, Max
<1>8. x \in 0 .. n
  BY <1>4, <1>7
<1>9. x # 0 => Pipeline[x].type = type
  BY <1>3, <1>7
<1>10. ASSUME NEW k \in 1 .. n, k > x PROVE Pipeline[k].type # type
  <2>1. k \notin T
    BY <1>7, <1>8, <1>10
  <2> QED BY <1>3, <2>1
<1> QED BY <1>1, <1>6, <1>8, <1>9, <1>10

(* What is known stays known while no event tells anything. *)
LEMMA Unmoved ==
  ASSUME NEW v, NEW j \in Nat, NEW n \in Nat, \A k \in j + 1 .. j + n : v[k] = v[k - 1]
  PROVE  v[j + n] = v[j]
<1> DEFINE S == {m \in 0 .. n : v[j + m] = v[j]}
<1>1. 0 \in S
  OBVIOUS
<1>2. ASSUME NEW m \in 0 .. n - 1, m \in S PROVE m + 1 \in S
  <2>1. j + (m + 1) \in j + 1 .. j + n /\ (j + (m + 1)) - 1 = j + m
    OBVIOUS
  <2>2. v[j + (m + 1)] = v[(j + (m + 1)) - 1]
    BY <2>1
  <2>3. v[j + (m + 1)] = v[j]
    BY <1>2, <2>1, <2>2
  <2> QED BY <2>3
<1>3. n \in S
  <2> HIDE DEF S
  <2>1. 0 .. n \subseteq S
    BY <1>1, <1>2, UpToInduction
  <2> QED BY <2>1
<1> QED BY <1>3

(* What the application knows of the status before an event. *)
LEMMA UpBeforeIs ==
  ASSUME Pipeline \in Seq(Events), NEW i \in 1 .. Len(Pipeline) + 1, NEW v, NEW to,
         Traces("up", Pipeline, v, shown.up, to)
  PROVE  UpBefore(i) = v[i - 1]
<1>1. PICK j : j = LastOf("status", i)
  OBVIOUS
<1>2. /\ j \in 0 .. i - 1 /\ (j # 0 => Pipeline[j].type = "status")
      /\ \A k \in 1 .. i - 1 : k > j => Pipeline[k].type # "status"
  BY <1>1, LastOfIs
<1>3. Len(Pipeline) \in Nat
  OBVIOUS
<1>4. \A k \in 1 .. Len(Pipeline) : Tells("up", v[k - 1], Pipeline[k], v[k])
  BY DEF Traces
<1>5. \A k \in j + 1 .. i - 1 : v[k] = v[k - 1]
  <2> SUFFICES ASSUME NEW k \in j + 1 .. i - 1 PROVE v[k] = v[k - 1]
    OBVIOUS
  <2>1. k \in 1 .. i - 1 /\ k > j /\ k \in 1 .. Len(Pipeline)
    BY <1>2, <1>3
  <2> QED BY <1>2, <1>4, <2>1 DEF Tells
<1>6. v[i - 1] = v[j]
  <2>1. PICK n : n = i - 1 - j
    OBVIOUS
  <2>2. n \in Nat /\ j \in Nat /\ j + n = i - 1
    BY <1>2, <2>1
  <2> QED BY <1>5, <2>2, Unmoved
<1>7. CASE j = 0
  <2>1. v[0] = shown.up
    BY DEF Traces
  <2> QED BY <1>1, <1>6, <1>7, <2>1 DEF UpBefore
<1>8. CASE j # 0
  <2>1. j \in 1 .. Len(Pipeline)
    BY <1>2, <1>3, <1>8
  <2>2. v[j] = Pipeline[j].up
    BY <1>2, <1>4, <1>8, <2>1 DEF Tells
  <2> QED BY <1>1, <1>6, <1>8, <2>2 DEF UpBefore
<1> QED BY <1>7, <1>8

(* The last trade the application knows of before an event. *)
LEMMA ReachedBeforeIs ==
  ASSUME Pipeline \in Seq(Events), NEW i \in 1 .. Len(Pipeline) + 1, NEW v, NEW to,
         Traces("ids", Pipeline, v, shown.last, to)
  PROVE  ReachedBefore(i) = v[i - 1]
<1>1. PICK j : j = LastOf("trades", i)
  OBVIOUS
<1>2. /\ j \in 0 .. i - 1 /\ (j # 0 => Pipeline[j].type = "trades")
      /\ \A k \in 1 .. i - 1 : k > j => Pipeline[k].type # "trades"
  BY <1>1, LastOfIs
<1>3. Len(Pipeline) \in Nat
  OBVIOUS
<1>4. /\ \A k \in 1 .. Len(Pipeline) : Tells("ids", v[k - 1], Pipeline[k], v[k])
      /\ v \in [0 .. Len(Pipeline) -> Nat]
  BY DEF Traces, Values
<1>5. \A k \in j + 1 .. i - 1 : v[k] = v[k - 1]
  <2> SUFFICES ASSUME NEW k \in j + 1 .. i - 1 PROVE v[k] = v[k - 1]
    OBVIOUS
  <2>1. k \in 1 .. i - 1 /\ k > j /\ k \in 1 .. Len(Pipeline)
    BY <1>2, <1>3
  <2> QED BY <1>2, <1>4, <2>1 DEF Tells
<1>6. v[i - 1] = v[j]
  <2>1. PICK n : n = i - 1 - j
    OBVIOUS
  <2>2. n \in Nat /\ j \in Nat /\ j + n = i - 1
    BY <1>2, <2>1
  <2> QED BY <1>5, <2>2, Unmoved
<1>7. CASE j = 0
  <2>1. v[0] = shown.last
    BY DEF Traces
  <2> QED BY <1>1, <1>6, <1>7, <2>1 DEF ReachedBefore
<1>8. CASE j # 0
  <2>1. j \in 1 .. Len(Pipeline) /\ j - 1 \in 0 .. Len(Pipeline)
    BY <1>2, <1>3, <1>8
  <2>2. PICK e : e = Pipeline[j]
    OBVIOUS
  <2>3. e \in Events /\ e.type = "trades"
    BY <1>2, <1>8, <2>1, <2>2
  <2>4. e.ids \in Seq(Ids)
    BY <2>3 DEF Events
  <2>5. /\ e.ids # <<>> /\ Follow(e.ids, v[j - 1]) /\ v[j] = v[j - 1] + Len(e.ids)
    BY <1>4, <2>1, <2>2, <2>3 DEF Tells
  <2>6. Len(e.ids) \in Nat /\ Len(e.ids) # 0
    BY <2>4, <2>5
  <2>7. Last(e.ids) = v[j]
    <3>1. Len(e.ids) \in 1 .. Len(e.ids)
      BY <2>6
    <3>2. e.ids = [k \in 1 .. Len(e.ids) |-> v[j - 1] + k]
      BY <2>5 DEF Follow
    <3>3. e.ids[Len(e.ids)] = v[j - 1] + Len(e.ids)
      BY <3>1, <3>2
    <3> QED BY <2>5, <3>3 DEF Last
  <2> QED BY <1>1, <1>6, <1>8, <2>2, <2>7 DEF ReachedBefore
<1> QED BY <1>7, <1>8

(* The status on the way ends at what the link is; the trades at what is accepted. *)
StatusOnTheWay ==
    "status" \notin lost =>
       \E up \in BOOLEAN : (up <=> link.phase = "up") /\ Leads("up", Pipeline, shown.up, up)

TradesOnTheWay ==
    "trades" \notin lost =>
       \E last \in Nat : /\ Leads("ids", Pipeline, shown.last, last)
                         /\ Follow(adapter.buffer, last)
                         /\ accepted = last + Len(adapter.buffer)

(* What is on the way tells the right status, and data come only while it is up. *)
LEMMA StatusIsRight ==
  ASSUME Pipeline \in Seq(Events), StatusOnTheWay
  PROVE  DataOnlyWhileUp
<1> SUFFICES ASSUME "status" \notin lost
             PROVE  /\ \A i \in DOMAIN Pipeline :
                          Pipeline[i].type \in {"trades", "orderflow"} => UpBefore(i)
                    /\ UpBefore(Len(Pipeline) + 1) <=> link.phase = "up"
  BY DEF DataOnlyWhileUp
<1>1. PICK up \in BOOLEAN : (up <=> link.phase = "up") /\ Leads("up", Pipeline, shown.up, up)
  BY DEF StatusOnTheWay
<1>2. PICK v : Traces("up", Pipeline, v, shown.up, up)
  BY <1>1 DEF Leads
<1>3. Len(Pipeline) \in Nat /\ DOMAIN Pipeline = 1 .. Len(Pipeline)
  OBVIOUS
<1>4. ASSUME NEW i \in DOMAIN Pipeline, Pipeline[i].type \in {"trades", "orderflow"}
      PROVE  UpBefore(i)
  <2>1. i \in 1 .. Len(Pipeline) /\ i \in 1 .. Len(Pipeline) + 1
    BY <1>3
  <2>2. UpBefore(i) = v[i - 1]
    BY <1>2, <2>1, UpBeforeIs
  <2>3. v[i - 1] = TRUE
    BY <1>2, <1>4, <2>1 DEF Traces, Tells
  <2> QED BY <2>2, <2>3
<1>5. UpBefore(Len(Pipeline) + 1) = up
  <2>1. PICK n : n = Len(Pipeline) + 1
    OBVIOUS
  <2>2. n \in 1 .. Len(Pipeline) + 1 /\ n - 1 = Len(Pipeline)
    BY <1>3, <2>1
  <2>3. UpBefore(n) = v[n - 1]
    BY <1>2, <2>2, UpBeforeIs
  <2> QED BY <1>2, <2>1, <2>2, <2>3 DEF Traces
<1> QED BY <1>1, <1>4, <1>5

(* What is on the way goes on trade by trade. *)
LEMMA TradesAreRight ==
  ASSUME Pipeline \in Seq(Events), TradesOnTheWay
  PROVE  TradesAreAccounted
<1>1. CASE "trades" \in lost
  BY <1>1 DEF TradesAreAccounted
<1>2. CASE "trades" \notin lost
  <2>1. PICK last \in Nat : /\ Leads("ids", Pipeline, shown.last, last)
                            /\ Follow(adapter.buffer, last)
                            /\ accepted = last + Len(adapter.buffer)
    BY <1>2 DEF TradesOnTheWay
  <2>2. PICK v : Traces("ids", Pipeline, v, shown.last, last)
    BY <2>1 DEF Leads
  <2>3. Len(Pipeline) \in Nat /\ DOMAIN Pipeline = 1 .. Len(Pipeline)
    OBVIOUS
  <2>4. ASSUME NEW i \in DOMAIN Pipeline, Pipeline[i].type = "trades"
        PROVE  Pipeline[i].ids # <<>> /\ Follow(Pipeline[i].ids, ReachedBefore(i))
    <3>1. i \in 1 .. Len(Pipeline) /\ i \in 1 .. Len(Pipeline) + 1
      BY <2>3
    <3>2. ReachedBefore(i) = v[i - 1]
      BY <2>2, <3>1, ReachedBeforeIs
    <3>3. Pipeline[i].ids # <<>> /\ Follow(Pipeline[i].ids, v[i - 1])
      BY <2>2, <2>4, <3>1 DEF Traces, Tells
    <3> QED BY <3>2, <3>3
  <2>5. PICK n : n = Len(Pipeline) + 1
    OBVIOUS
  <2>6. ReachedBefore(n) = last
    <3>1. n \in 1 .. Len(Pipeline) + 1 /\ n - 1 = Len(Pipeline)
      BY <2>3, <2>5
    <3>2. ReachedBefore(n) = v[n - 1]
      BY <2>2, <3>1, ReachedBeforeIs
    <3> QED BY <2>2, <3>1, <3>2 DEF Traces
  <2>7. Follow(adapter.buffer, ReachedBefore(n))
        /\ accepted = ReachedBefore(n) + Len(adapter.buffer)
    BY <2>1, <2>6
  <2> QED BY <2>4, <2>5, <2>7 DEF TradesAreAccounted
<1> QED BY <1>1, <1>2

(* What the state is, besides the events on the way. *)
SessionShapes ==
    /\ adapter \in [kind : {"batch", "push"}, buffer : Seq(Ids), raw : Seq(Ids)]
    /\ Len(adapter.raw) <= RawCap
    /\ adapter.kind = "push" \/ link.phase # "up" => adapter.buffer = <<>> /\ adapter.raw = <<>>
    /\ link \in [phase : {"connecting", "up", "sleeping"}, delay : 0 .. MaxDelay,
                 data : BOOLEAN, outbox : Seq(Events)]
    /\ io \in [peer : {"none", "live", "silent"}, quiet : 0 .. IdleLimit]
    /\ frames \in Seq({"trade", "end"})
    /\ events \in Seq(Events) /\ Len(events) <= ChannelCap
    /\ shown \in [up : BOOLEAN, last : 0 .. MaxTrades]
    /\ accepted \in Nat /\ accepted + Cardinality(TradeFrames(frames)) <= MaxTrades

SessionInv == SessionShapes /\ StatusOnTheWay /\ TradesOnTheWay

(* The trades among the frames of a prefix are no more than all; with those behind the       *)
(* prefix, they are all.                                                                     *)
LEMMA TradeFramesCounted ==
  ASSUME NEW f \in Seq({"trade", "end"})
  PROVE  /\ TradeFrames(f) \subseteq 1 .. Len(f)
         /\ IsFiniteSet(TradeFrames(f)) /\ Cardinality(TradeFrames(f)) \in Nat
<1>1. Len(f) \in Nat /\ DOMAIN f = 1 .. Len(f)
  OBVIOUS
<1>2. TradeFrames(f) \subseteq 1 .. Len(f)
  BY <1>1 DEF TradeFrames
<1>3. IsFiniteSet(1 .. Len(f))
  BY <1>1, FS_Interval
<1>4. IsFiniteSet(TradeFrames(f))
  BY <1>2, <1>3, FS_Subset
<1> QED BY <1>2, <1>4, FS_CardinalityType

(* The trades of the first k frames, and those behind them, are all of them. *)
LEMMA TradesReadSplit ==
  ASSUME NEW f \in Seq({"trade", "end"}), NEW k \in 0 .. Len(f)
  PROVE  LET read == {i \in 1 .. k : f[i] = "trade"}
             rest == SubSeq(f, k + 1, Len(f))
         IN /\ Cardinality(read) \in Nat
            /\ rest \in Seq({"trade", "end"})
            /\ Cardinality(read) + Cardinality(TradeFrames(rest)) = Cardinality(TradeFrames(f))
            /\ Cardinality(read) <= k
<1>1. PICK n : n = Len(f)
  OBVIOUS
<1>2. n \in Nat /\ k \in 0 .. n /\ DOMAIN f = 1 .. n
  BY <1>1
<1>3. PICK read : read = {i \in 1 .. k : f[i] = "trade"}
  OBVIOUS
<1>4. PICK behind : behind = {i \in k + 1 .. n : f[i] = "trade"}
  OBVIOUS
<1>5. PICK rest : rest = SubSeq(f, k + 1, n)
  OBVIOUS
<1>6. /\ rest \in Seq({"trade", "end"}) /\ Len(rest) = n - k
      /\ \A i \in 1 .. n - k : rest[i] = f[k + i]
  BY <1>1, <1>2, <1>5
<1>7. TradeFrames(f) = read \cup behind /\ read \cap behind = {}
  BY <1>2, <1>3, <1>4 DEF TradeFrames
<1>8. IsFiniteSet(read) /\ IsFiniteSet(behind)
  <2>1. IsFiniteSet(TradeFrames(f))
    BY TradeFramesCounted
  <2>2. read \subseteq TradeFrames(f) /\ behind \subseteq TradeFrames(f)
    BY <1>7
  <2> QED BY <2>1, <2>2, FS_Subset
<1>9. Cardinality(TradeFrames(f)) = Cardinality(read) + Cardinality(behind)
  <2>1. Cardinality(read \cap behind) = 0
    BY <1>7, FS_EmptySet, Zenon
  <2>2. Cardinality(read) \in Nat /\ Cardinality(behind) \in Nat
    BY <1>8, FS_CardinalityType
  <2>3. Cardinality(read \cup behind)
          = Cardinality(read) + Cardinality(behind) - Cardinality(read \cap behind)
    BY <1>8, FS_Union, Zenon
  <2>4. Cardinality(TradeFrames(f)) = Cardinality(read \cup behind)
    BY <1>7, Zenon
  <2>5. Cardinality(read \cup behind) = Cardinality(read) + Cardinality(behind)
    BY <2>1, <2>2, <2>3
  <2> QED BY <2>4, <2>5, Zenon
<1>10. TradeFrames(rest) = {i \in 1 .. n - k : f[k + i] = "trade"}
  <2>1. DOMAIN rest = 1 .. n - k
    BY <1>2, <1>6
  <2> QED BY <1>6, <2>1 DEF TradeFrames
<1>11. Cardinality(TradeFrames(rest)) = Cardinality(behind)
  <2>1. PICK g : g = [i \in TradeFrames(rest) |-> k + i]
    OBVIOUS
  <2>2. g \in [TradeFrames(rest) -> behind]
    BY <1>2, <1>4, <1>10, <2>1
  <2>3. \A i, j \in TradeFrames(rest) : g[i] = g[j] => i = j
    <3> SUFFICES ASSUME NEW i \in TradeFrames(rest), NEW j \in TradeFrames(rest), g[i] = g[j]
                 PROVE  i = j
      OBVIOUS
    <3>1. g[i] = k + i /\ g[j] = k + j
      BY <2>1
    <3>2. i \in 1 .. n - k /\ j \in 1 .. n - k
      BY <1>10
    <3>3. k + i = k + j
      BY <3>1, Zenon
    <3> QED BY <1>2, <3>2, <3>3
  <2>4. \A b \in behind : \E i \in TradeFrames(rest) : g[i] = b
    <3> SUFFICES ASSUME NEW b \in behind PROVE \E i \in TradeFrames(rest) : g[i] = b
      OBVIOUS
    <3>1. PICK i : i = b - k
      OBVIOUS
    <3>2. i \in TradeFrames(rest) /\ k + i = b
      BY <1>2, <1>4, <1>10, <3>1
    <3> QED BY <2>1, <3>2
  <2>5. g \in Bijection(TradeFrames(rest), behind)
    BY <2>1, <2>2, <2>3, <2>4 DEF Bijection, Injection, Surjection, IsInjective
  <2>6. ExistsBijection(TradeFrames(rest), behind)
    BY <2>5 DEF ExistsBijection
  <2>7. IsFiniteSet(TradeFrames(rest))
    BY <1>6, TradeFramesCounted
  <2> QED BY <2>6, <2>7, FS_Bijection
<1>12. Cardinality(read) \in Nat /\ Cardinality(read) <= k
  <2>1. read \subseteq 1 .. k /\ k \in Nat
    BY <1>2, <1>3
  <2>2. IsFiniteSet(1 .. k) /\ Cardinality(1 .. k) = k
    <3>1. IsFiniteSet(1 .. k) /\ Cardinality(1 .. k) = IF 1 > k THEN 0 ELSE k - 1 + 1
      BY <2>1, FS_Interval
    <3> QED BY <2>1, <3>1
  <2>3. Cardinality(read) <= k
    BY <2>1, <2>2, FS_Subset
  <2> QED BY <1>8, <2>3, FS_CardinalityType
<1> QED BY <1>1, <1>3, <1>5, <1>6, <1>9, <1>11, <1>12

(* What the events of the model are, and what each of them tells.                            *)
LEMMA StatusTells ==
  ASSUME NEW b \in BOOLEAN
  PROVE  /\ Status(b) \in Events /\ Status(b).type = "status"
         /\ \A a \in BOOLEAN : Leads("up", <<Status(b)>>, a, b)
         /\ \A last \in Nat : Leads("ids", <<Status(b)>>, last, last)
<1>1. PICK e : e = Status(b)
  OBVIOUS
<1>2. e.type = "status" /\ e.up = b
  BY <1>1 DEF Status
<1>3. e \in [type : {"status"}, up : BOOLEAN]
  BY <1>1, Zenon DEF Status
<1>4. e \in Events
  BY <1>3 DEF Events
<1>5. ASSUME NEW a \in BOOLEAN PROVE Leads("up", <<e>>, a, b)
  <2>1. Tells("up", a, e, b)
    BY <1>2 DEF Tells
  <2> QED BY <1>4, <2>1, LeadsOnce DEF Values
<1>6. ASSUME NEW last \in Nat PROVE Leads("ids", <<e>>, last, last)
  <2>1. Tells("ids", last, e, last)
    BY <1>2 DEF Tells
  <2> QED BY <1>4, <2>1, LeadsOnce DEF Values
<1> QED BY <1>1, <1>2, <1>4, <1>5, <1>6

(* A batch goes on with its trades, while the connection is up. *)
LEMMA BatchTells ==
  ASSUME NEW ids \in Seq(Ids), ids # <<>>, NEW up \in BOOLEAN, up = TRUE
  PROVE  /\ Batch(ids) \in Events
         /\ Leads("up", <<Batch(ids)>>, up, up)
         /\ \A last \in Nat :
               Follow(ids, last) => Leads("ids", <<Batch(ids)>>, last, last + Len(ids))
<1>1. PICK e : e = Batch(ids)
  OBVIOUS
<1>2. e.type = "trades" /\ e.ids = ids /\ e \in [type : {"trades"}, ids : Seq(Ids) \ {<<>>}]
  BY <1>1 DEF Batch
<1>3. e \in Events
  BY <1>2 DEF Events
<1>4. Leads("up", <<e>>, up, up)
  <2>1. Tells("up", up, e, up)
    BY <1>2 DEF Tells
  <2> QED BY <1>3, <2>1, LeadsOnce DEF Values
<1>5. ASSUME NEW last \in Nat, Follow(ids, last)
      PROVE  Leads("ids", <<e>>, last, last + Len(ids))
  <2>1. Tells("ids", last, e, last + Len(ids))
    BY <1>2, <1>5 DEF Tells
  <2>2. last + Len(ids) \in Nat
    OBVIOUS
  <2> QED BY <1>3, <2>1, <2>2, LeadsOnce DEF Values
<1> QED BY <1>1, <1>3, <1>4, <1>5

(* The events of a detector tell nothing of the trades of the charts.                        *)
LEMMA DetectorTells ==
  ASSUME NEW up \in BOOLEAN, up = TRUE,
         NEW e, (e = [type |-> "reconnect"] \/ \E ids \in Seq(Ids) : e = Raw(ids))
  PROVE  /\ e \in Events
         /\ Leads("up", <<e>>, up, up)
         /\ \A last \in Nat : Leads("ids", <<e>>, last, last)
<1>1. e \in Events /\ e.type \in {"reconnect", "orderflow"}
  <2>1. CASE e = [type |-> "reconnect"]
    <3>1. e.type = "reconnect" /\ e \in [type : {"reconnect"}]
      BY <2>1
    <3> QED BY <3>1 DEF Events
  <2>2. CASE \E ids \in Seq(Ids) : e = Raw(ids)
    <3>1. PICK ids \in Seq(Ids) : e = Raw(ids)
      BY <2>2
    <3>2. e.type = "orderflow" /\ e \in [type : {"orderflow"}, ids : Seq(Ids)]
      BY <3>1 DEF Raw
    <3> QED BY <3>2 DEF Events
  <2> QED BY <2>1, <2>2
<1>2. Leads("up", <<e>>, up, up)
  <2>1. Tells("up", up, e, up)
    BY <1>1 DEF Tells
  <2> QED BY <1>1, <2>1, LeadsOnce DEF Values
<1>3. ASSUME NEW last \in Nat PROVE Leads("ids", <<e>>, last, last)
  <2>1. Tells("ids", last, e, last)
    BY <1>1 DEF Tells
  <2> QED BY <1>1, <2>1, LeadsOnce DEF Values
<1> QED BY <1>1, <1>2, <1>3

(* A flush goes on with the buffered trades, all of them.                                    *)
LEMMA FlushTells ==
  ASSUME NEW a, a.buffer \in Seq(Ids), a.raw \in Seq(Ids), NEW up \in BOOLEAN, up = TRUE
  PROVE  /\ FlushOf(a) \in Seq(Events)
         /\ Leads("up", FlushOf(a), up, up)
         /\ a.buffer = <<>> /\ a.raw = <<>> => FlushOf(a) = <<>>
         /\ \A last \in Nat :
               Follow(a.buffer, last) => Leads("ids", FlushOf(a), last, last + Len(a.buffer))
<1>1. PICK p : p = IF a.buffer = <<>> THEN <<>> ELSE <<Batch(a.buffer)>>
  OBVIOUS
<1>2. PICK q : q = IF a.raw = <<>> THEN <<>> ELSE <<Raw(a.raw)>>
  OBVIOUS
<1>3. FlushOf(a) = p \o q
  BY <1>1, <1>2, Zenon DEF FlushOf
<1>4. up \in Values("up") /\ \A last \in Nat : last \in Values("ids")
  BY DEF Values
<1>5. /\ p \in Seq(Events) /\ Leads("up", p, up, up)
      /\ \A last \in Nat :
            Follow(a.buffer, last) => Leads("ids", p, last, last + Len(a.buffer))
  <2>1. CASE a.buffer = <<>>
    <3>1. p = <<>> /\ Len(a.buffer) = 0
      BY <1>1, <2>1
    <3>2. Leads("up", <<>>, up, up)
      BY <1>4, LeadsNowhere
    <3>3. ASSUME NEW last \in Nat PROVE Leads("ids", <<>>, last, last + Len(a.buffer))
      <4>1. Leads("ids", <<>>, last, last) /\ last + Len(a.buffer) = last
        BY <1>4, <3>1, LeadsNowhere
      <4> QED BY <4>1
    <3>4. p \in Seq(Events)
      BY <3>1
    <3> QED BY <3>1, <3>2, <3>3, <3>4, Zenon
  <2>2. CASE a.buffer # <<>>
    <3>1. p = <<Batch(a.buffer)>>
      BY <1>1, <2>2, Zenon
    <3>2. /\ Batch(a.buffer) \in Events
          /\ Leads("up", <<Batch(a.buffer)>>, up, up)
          /\ \A last \in Nat : Follow(a.buffer, last)
               => Leads("ids", <<Batch(a.buffer)>>, last, last + Len(a.buffer))
      BY <2>2, BatchTells
    <3>3. <<Batch(a.buffer)>> \in Seq(Events)
      BY <3>2
    <3> QED BY <3>1, <3>2, <3>3, Zenon
  <2> QED BY <2>1, <2>2
<1>6. /\ q \in Seq(Events) /\ Leads("up", q, up, up)
      /\ \A last \in Nat : Leads("ids", q, last, last)
  <2>1. CASE a.raw = <<>>
    <3>1. q = <<>>
      BY <1>2, <2>1
    <3>2. <<>> \in Seq(Events)
      OBVIOUS
    <3>3. Leads("up", <<>>, up, up)
      BY <1>4, LeadsNowhere
    <3>4. \A last \in Nat : Leads("ids", <<>>, last, last)
      BY <1>4, LeadsNowhere
    <3> QED BY <3>1, <3>2, <3>3, <3>4, Zenon
  <2>2. CASE a.raw # <<>>
    <3>1. PICK e : e = Raw(a.raw)
      OBVIOUS
    <3>2. q = <<e>>
      BY <1>2, <2>2, <3>1, Zenon
    <3>3. e \in Events /\ Leads("up", <<e>>, up, up)
          /\ \A last \in Nat : Leads("ids", <<e>>, last, last)
      BY <3>1, DetectorTells
    <3>4. <<e>> \in Seq(Events)
      BY <3>3
    <3> QED BY <3>2, <3>3, <3>4, Zenon
  <2> QED BY <2>1, <2>2
<1>7. p \o q \in Seq(Events) /\ Leads("up", p \o q, up, up)
  <2>1. p \o q \in Seq(Events)
    BY <1>5, <1>6
  <2>2. Leads("up", p \o q, up, up)
    BY <1>5, <1>6, LeadsOn
  <2> QED BY <2>1, <2>2
<1>8. ASSUME NEW last \in Nat, Follow(a.buffer, last)
      PROVE  Leads("ids", p \o q, last, last + Len(a.buffer))
  <2>1. last + Len(a.buffer) \in Nat
    OBVIOUS
  <2> QED BY <1>5, <1>6, <1>8, <2>1, LeadsOn
<1>9. a.buffer = <<>> /\ a.raw = <<>> => p \o q = <<>>
  BY <1>1, <1>2
<1> QED BY <1>3, <1>7, <1>8, <1>9

(* A session task that has sent everything returns more: what is on the way goes on with it. *)
LEMMA StatusGoesOn ==
  ASSUME SessionInv, link.outbox = <<>>, UNCHANGED <<events, shown, lost>>,
         NEW box \in Seq(Events), link'.outbox = box,
         NEW from \in BOOLEAN, from <=> link.phase = "up",
         NEW to \in BOOLEAN, to <=> link'.phase = "up",
         Leads("up", box, from, to)
  PROVE  StatusOnTheWay'
<1> SUFFICES ASSUME "status" \notin lost
             PROVE  \E up \in BOOLEAN : /\ up <=> link'.phase = "up"
                                        /\ Leads("up", Pipeline', shown'.up, up)
  BY DEF StatusOnTheWay
<1>1. PICK up \in BOOLEAN : (up <=> link.phase = "up") /\ Leads("up", Pipeline, shown.up, up)
  BY DEF SessionInv, StatusOnTheWay
<1>2. up = from
  BY <1>1
<1>3. events \in Seq(Events)
  BY DEF SessionInv, SessionShapes
<1>4. Pipeline = events /\ Pipeline' = events \o box
  BY <1>3 DEF Pipeline
<1>5. Leads("up", events, shown.up, from)
  BY <1>1, <1>2, <1>4
<1>6. Leads("up", events \o box, shown.up, to)
  BY <1>3, <1>5, LeadsOn
<1> QED BY <1>4, <1>6

(* The trades it returns, with what it still keeps, go on to what it has accepted. *)
LEMMA TradesGoOn ==
  ASSUME SessionInv, link.outbox = <<>>, UNCHANGED <<events, shown, lost>>,
         NEW box \in Seq(Events), link'.outbox = box,
         \A last \in Nat :
            Follow(adapter.buffer, last) /\ accepted = last + Len(adapter.buffer)
              => \E to \in Nat : /\ Leads("ids", box, last, to)
                                 /\ Follow(adapter'.buffer, to)
                                 /\ accepted' = to + Len(adapter'.buffer)
  PROVE  TradesOnTheWay'
<1> SUFFICES ASSUME "trades" \notin lost
             PROVE  \E to \in Nat : /\ Leads("ids", Pipeline', shown'.last, to)
                                    /\ Follow(adapter'.buffer, to)
                                    /\ accepted' = to + Len(adapter'.buffer)
  BY DEF TradesOnTheWay
<1>1. PICK last \in Nat : /\ Leads("ids", Pipeline, shown.last, last)
                          /\ Follow(adapter.buffer, last)
                          /\ accepted = last + Len(adapter.buffer)
  BY DEF SessionInv, TradesOnTheWay
<1>2. PICK to \in Nat : /\ Leads("ids", box, last, to)
                        /\ Follow(adapter'.buffer, to)
                        /\ accepted' = to + Len(adapter'.buffer)
  BY <1>1
<1>3. events \in Seq(Events)
  BY DEF SessionInv, SessionShapes
<1>4. Pipeline = events /\ Pipeline' = events \o box
  BY <1>3 DEF Pipeline
<1>5. Leads("ids", events, shown.last, last)
  BY <1>1, <1>4
<1>6. Leads("ids", events \o box, shown.last, to)
  BY <1>2, <1>3, <1>5, LeadsOn
<1> QED BY <1>2, <1>4, <1>6

(* The invariant gives every variable its type. *)
LEMMA SessionTyped == SessionInv => SessionTypeOK
<1> SUFFICES ASSUME SessionInv PROVE SessionTypeOK
  OBVIOUS
<1>1. SessionShapes
  BY DEF SessionInv
<1>2. accepted \in 0 .. MaxTrades
  <2>1. Cardinality(TradeFrames(frames)) \in Nat
    BY <1>1, TradeFramesCounted DEF SessionShapes
  <2> QED BY <1>1, <2>1, SessionConstants, SMTT(30) DEF SessionShapes
<1>3. link.phase \in {"connecting", "up", "sleeping"} /\ link.delay \in 0 .. MaxDelay
      /\ link.data \in BOOLEAN
  BY <1>1 DEF SessionShapes
<1> QED BY <1>1, <1>2, <1>3 DEF SessionShapes, SessionTypeOK

(* Nothing is on the way at first. *)
LEMMA SessionStarts == SessionInit => SessionInv
<1> SUFFICES ASSUME SessionInit PROVE SessionInv
  OBVIOUS
<1> USE DEF SessionInit
<1>1. frames = <<>> /\ events = <<>> /\ link.outbox = <<>> /\ link.phase = "connecting"
      /\ adapter.buffer = <<>> /\ adapter.raw = <<>> /\ accepted = 0
      /\ shown.last = 0 /\ shown.up = FALSE
  OBVIOUS
<1>2. Pipeline = <<>>
  BY <1>1 DEF Pipeline
<1>3. SessionShapes
  <2>1. TradeFrames(frames) = {} /\ Cardinality({}) = 0
    <3>1. DOMAIN <<>> = {}
      OBVIOUS
    <3> QED BY <1>1, <3>1, FS_EmptySet DEF TradeFrames
  <2>2. accepted + Cardinality(TradeFrames(frames)) <= MaxTrades
    <3>1. Cardinality(TradeFrames(frames)) = 0
      BY <2>1, Zenon
    <3> QED BY <1>1, <3>1, SessionConstants
  <2>3. adapter \in [kind : {"batch", "push"}, buffer : Seq(Ids), raw : Seq(Ids)]
        /\ Len(adapter.raw) <= RawCap
    <3>1. PICK none : none = <<>>
      OBVIOUS
    <3>2. none \in Seq(Ids) /\ Len(none) = 0
      BY <3>1
    <3>3. adapter \in [kind : {"batch", "push"}, buffer : {none}, raw : {none}]
      BY <3>1, Zenon
    <3>4. adapter \in [kind : {"batch", "push"}, buffer : Seq(Ids), raw : Seq(Ids)]
      BY <3>2, <3>3
    <3>5. Len(adapter.raw) = 0
      BY <3>2, <3>3
    <3> QED BY <3>4, <3>5, SessionConstants
  <2>4. link \in [phase : {"connecting", "up", "sleeping"}, delay : 0 .. MaxDelay,
                  data : BOOLEAN, outbox : Seq(Events)]
    <3>1. 0 \in 0 .. MaxDelay /\ <<>> \in Seq(Events) /\ FALSE \in BOOLEAN
      BY SessionConstants
    <3>2. PICK none : none = <<>>
      OBVIOUS
    <3> QED BY <3>1, Zenon
  <2>5. io \in [peer : {"none", "live", "silent"}, quiet : 0 .. IdleLimit]
    BY SessionConstants DEF Silence
  <2>6. frames \in Seq({"trade", "end"}) /\ events \in Seq(Events) /\ Len(events) <= ChannelCap
    BY <1>1, SessionConstants
  <2>7. shown \in [up : BOOLEAN, last : 0 .. MaxTrades]
    <3>1. 0 \in 0 .. MaxTrades /\ FALSE \in BOOLEAN
      BY SessionConstants
    <3> QED BY <3>1, Zenon
  <2>8. accepted \in Nat
    BY <1>1
  <2> QED BY <1>1, <2>2, <2>3, <2>4, <2>5, <2>6, <2>7, <2>8 DEF SessionShapes
<1>4. StatusOnTheWay
  <2>1. PICK up \in BOOLEAN : up = FALSE
    OBVIOUS
  <2>2. shown.up = up /\ up \in Values("up")
    BY <1>1, <2>1 DEF Values
  <2>3. Leads("up", <<>>, up, up)
    BY <2>2, LeadsNowhere
  <2>4. up <=> link.phase = "up"
    BY <1>1, <2>1
  <2>5. Leads("up", Pipeline, shown.up, up)
    BY <1>2, <2>2, <2>3, Zenon
  <2> QED BY <2>4, <2>5 DEF StatusOnTheWay
<1>5. TradesOnTheWay
  <2>1. 0 \in Nat /\ 0 \in Values("ids")
    BY DEF Values
  <2>2. Leads("ids", <<>>, 0, 0)
    BY <2>1, LeadsNowhere
  <2>3. Follow(adapter.buffer, 0) /\ accepted = 0 + Len(adapter.buffer)
    BY <1>1 DEF Follow
  <2>4. Leads("ids", Pipeline, shown.last, 0)
    BY <1>1, <1>2, <2>2, Zenon
  <2> QED BY <2>1, <2>3, <2>4 DEF TradesOnTheWay
<1> QED BY <1>3, <1>4, <1>5 DEF SessionInv

(* What is on the way, what is accepted and whether the link is up stay as they are. *)
LEMMA OnTheWayStays ==
  ASSUME StatusOnTheWay, TradesOnTheWay, Pipeline' = Pipeline,
         UNCHANGED <<shown, lost, accepted>>, adapter'.buffer = adapter.buffer,
         link'.phase = "up" <=> link.phase = "up"
  PROVE  StatusOnTheWay' /\ TradesOnTheWay'
<1>1. StatusOnTheWay'
  <2> SUFFICES ASSUME "status" \notin lost
               PROVE  \E up \in BOOLEAN : /\ up <=> link'.phase = "up"
                                          /\ Leads("up", Pipeline', shown'.up, up)
    BY DEF StatusOnTheWay
  <2>1. PICK up \in BOOLEAN : (up <=> link.phase = "up") /\ Leads("up", Pipeline, shown.up, up)
    BY DEF StatusOnTheWay
  <2> QED BY <2>1
<1>2. TradesOnTheWay'
  <2> SUFFICES ASSUME "trades" \notin lost
               PROVE  \E to \in Nat : /\ Leads("ids", Pipeline', shown'.last, to)
                                      /\ Follow(adapter'.buffer, to)
                                      /\ accepted' = to + Len(adapter'.buffer)
    BY DEF TradesOnTheWay
  <2>1. PICK last \in Nat : /\ Leads("ids", Pipeline, shown.last, last)
                            /\ Follow(adapter.buffer, last)
                            /\ accepted = last + Len(adapter.buffer)
    BY DEF TradesOnTheWay
  <2> QED BY <2>1
<1> QED BY <1>1, <1>2

(* Wake, BecomesStable and steps of others: nothing is sent. *)
LEMMA IdlesAreRight ==
  ASSUME SessionInv, \/ Wake \/ BecomesStable \/ UNCHANGED sessionVars
  PROVE  SessionInv'
<1>1. UNCHANGED <<adapter, io, frames, events, shown, lost, accepted>>
      /\ link'.outbox = link.outbox /\ link'.phase \in {"connecting", "up", "sleeping"}
      /\ (link'.phase = "up" <=> link.phase = "up")
      /\ link' \in [phase : {"connecting", "up", "sleeping"}, delay : 0 .. MaxDelay,
                    data : BOOLEAN, outbox : Seq(Events)]
  <2>1. link \in [phase : {"connecting", "up", "sleeping"}, delay : 0 .. MaxDelay,
                  data : BOOLEAN, outbox : Seq(Events)]
    BY DEF SessionInv, SessionShapes
  <2>2. CASE Wake
    BY <2>1, <2>2 DEF Wake, Free
  <2>3. CASE BecomesStable
    BY <2>1, <2>3, SessionConstants DEF BecomesStable, Free
  <2>4. CASE UNCHANGED sessionVars
    BY <2>1, <2>4 DEF sessionVars
  <2> QED BY <2>2, <2>3, <2>4
<1>2. SessionShapes'
  BY <1>1 DEF SessionInv, SessionShapes
<1>3. Pipeline' = Pipeline
  BY <1>1 DEF Pipeline
<1>4. StatusOnTheWay' /\ TradesOnTheWay'
  BY <1>1, <1>3, OnTheWayStays DEF SessionInv
<1> QED BY <1>2, <1>4 DEF SessionInv

(* The I/O task adds frames, and no more trades than are awaited. *)
LEMMA ArrivalsAreRight ==
  ASSUME SessionInv, \/ Receive \/ PeerFallsSilent \/ Heartbeat
  PROVE  SessionInv'
<1>1. UNCHANGED <<adapter, link, events, shown, lost, accepted>>
  BY DEF Receive, PeerFallsSilent, Heartbeat
<1>2. io \in [peer : {"none", "live", "silent"}, quiet : 0 .. IdleLimit]
      /\ frames \in Seq({"trade", "end"}) /\ accepted \in Nat
      /\ accepted + Cardinality(TradeFrames(frames)) <= MaxTrades
  BY DEF SessionInv, SessionShapes
<1>3. io' \in [peer : {"none", "live", "silent"}, quiet : 0 .. IdleLimit]
  <2>1. Silence \in [peer : {"none", "live", "silent"}, quiet : 0 .. IdleLimit]
    BY SessionConstants DEF Silence
  <2>2. CASE Receive
    <3>1. io' = Silence \/ io' = [io EXCEPT !.quiet = 0]
      BY <2>2 DEF Receive
    <3>2. 0 \in 0 .. IdleLimit
      BY SessionConstants
    <3> QED BY <1>2, <2>1, <3>1, <3>2
  <2>3. CASE PeerFallsSilent
    BY <1>2, <2>3 DEF PeerFallsSilent
  <2>4. CASE Heartbeat
    <3>1. io' = Silence \/ (io.quiet < IdleLimit /\ io' = [io EXCEPT !.quiet = @ + 1])
      BY <2>4 DEF Heartbeat
    <3>2. io.quiet < IdleLimit => io.quiet + 1 \in 0 .. IdleLimit
      BY <1>2, SessionConstants
    <3> QED BY <1>2, <2>1, <3>1, <3>2
  <2> QED BY <2>2, <2>3, <2>4
<1>4. Cardinality(TradeFrames(frames)) \in Nat
  BY <1>2, TradeFramesCounted
<1>5. ASSUME NEW frame \in {"trade", "end"}, frames' = Append(frames, frame),
             frame = "trade" => Awaited > 0
      PROVE  /\ frames' \in Seq({"trade", "end"})
             /\ accepted + Cardinality(TradeFrames(frames')) <= MaxTrades
  <2>1. PICK n : n = Len(frames) + 1
    OBVIOUS
  <2>2. /\ n \in Nat /\ DOMAIN frames = 1 .. n - 1 /\ DOMAIN frames' = 1 .. n
        /\ \A i \in 1 .. n - 1 : frames'[i] = frames[i]
        /\ frames'[n] = frame /\ frames' \in Seq({"trade", "end"})
    BY <1>2, <1>5, <2>1
  <2>3. n \notin TradeFrames(frames) /\ IsFiniteSet(TradeFrames(frames))
    BY <1>2, <2>1, <2>2, TradeFramesCounted DEF TradeFrames
  <2>4. CASE frame = "trade"
    <3>1. TradeFrames(frames') = TradeFrames(frames) \cup {n}
      <4>1. TradeFrames(frames') = {i \in 1 .. n : frames'[i] = "trade"}
        BY <2>2 DEF TradeFrames
      <4>2. TradeFrames(frames) = {i \in 1 .. n - 1 : frames[i] = "trade"}
        BY <2>2 DEF TradeFrames
      <4>3. \A i : i \in 1 .. n <=> i \in 1 .. n - 1 \/ i = n
        BY <1>2, <2>1
      <4> QED BY <2>2, <2>4, <4>1, <4>2, <4>3
    <3>2. Cardinality(TradeFrames(frames) \cup {n}) = Cardinality(TradeFrames(frames)) + 1
      BY <2>3, FS_AddElement, Zenon
    <3>3. MaxTrades - accepted - Cardinality(TradeFrames(frames)) > 0
      BY <1>5, <2>4 DEF Awaited
    <3>4. Cardinality(TradeFrames(frames')) = Cardinality(TradeFrames(frames)) + 1
      BY <3>1, <3>2, Zenon
    <3> QED BY <1>2, <1>4, <2>2, <3>3, <3>4, SessionConstants
  <2>5. CASE frame = "end"
    <3>1. TradeFrames(frames') = TradeFrames(frames)
      BY <2>2, <2>5 DEF TradeFrames
    <3> QED BY <1>2, <2>2, <3>1, Zenon
  <2> QED BY <2>4, <2>5
<1>6. /\ frames' \in Seq({"trade", "end"})
      /\ accepted + Cardinality(TradeFrames(frames')) <= MaxTrades
  <2>1. CASE UNCHANGED frames
    BY <1>2, <2>1
  <2>2. CASE \E frame \in {"trade", "end"} :
                (frame = "trade" => Awaited > 0) /\ frames' = Append(frames, frame)
    BY <1>5, <2>2
  <2>3. UNCHANGED frames \/ \E frame \in {"trade", "end"} :
                (frame = "trade" => Awaited > 0) /\ frames' = Append(frames, frame)
    <3>1. CASE Receive
      BY <3>1 DEF Receive
    <3>2. CASE PeerFallsSilent
      BY <3>2 DEF PeerFallsSilent
    <3>3. CASE Heartbeat
      BY <3>3 DEF Heartbeat
    <3> QED BY <3>1, <3>2, <3>3
  <2> QED BY <2>1, <2>2, <2>3
<1>7. SessionShapes'
  BY <1>1, <1>3, <1>6 DEF SessionInv, SessionShapes
<1>8. Pipeline' = Pipeline
  BY <1>1 DEF Pipeline
<1>9. StatusOnTheWay' /\ TradesOnTheWay'
  BY <1>1, <1>8, OnTheWayStays DEF SessionInv
<1> QED BY <1>7, <1>9 DEF SessionInv

(* A sequence is its head and its tail. *)
LEMMA HeadAndTail ==
  ASSUME NEW S, NEW p \in Seq(S), p # <<>>
  PROVE  /\ Head(p) \in S /\ Tail(p) \in Seq(S)
         /\ p = <<Head(p)>> \o Tail(p) /\ Len(Tail(p)) = Len(p) - 1
OBVIOUS

(* An event that tells nothing of what is asked may be missing. *)
LEMMA LeadsWithout ==
  ASSUME NEW kind, NEW p \in Seq(Events), NEW e \in Events, NEW q \in Seq(Events),
         NEW from, NEW to, Leads(kind, p \o (<<e>> \o q), from, to),
         \/ kind = "up" /\ e.type # "status"
         \/ kind = "ids" /\ e.type # "trades"
  PROVE  Leads(kind, p \o q, from, to)
<1>1. <<e>> \in Seq(Events) /\ <<e>> \o q \in Seq(Events)
  OBVIOUS
<1>2. PICK a : Leads(kind, p, from, a) /\ Leads(kind, <<e>> \o q, a, to)
  BY <1>1, LeadsThrough
<1>3. PICK b : Leads(kind, <<e>>, a, b) /\ Leads(kind, q, b, to)
  BY <1>1, <1>2, LeadsThrough
<1>4. Tells(kind, a, e, b)
  BY <1>3, OnceTells
<1>5. a = b
  BY <1>4, Zenon DEF Tells
<1> QED BY <1>2, <1>3, <1>5, LeadsOn

(* SendNext: the event moves on, or is dropped and said to be lost. *)
LEMMA SendsAreRight ==
  ASSUME SessionInv, SendNext
  PROVE  SessionInv'
<1>1. link.outbox \in Seq(Events) /\ link.outbox # <<>> /\ events \in Seq(Events)
  BY DEF SessionInv, SessionShapes, SendNext
<1>2. PICK e, rest : e = Head(link.outbox) /\ rest = Tail(link.outbox)
  OBVIOUS
<1>3. e \in Events /\ rest \in Seq(Events) /\ link.outbox = <<e>> \o rest
  BY <1>1, <1>2, HeadAndTail
<1>4. /\ UNCHANGED <<adapter, io, frames, shown, accepted>>
      /\ link' = [link EXCEPT !.outbox = rest]
  BY <1>2 DEF SendNext
<1>5. /\ link'.outbox = rest /\ link'.phase = link.phase
      /\ link' \in [phase : {"connecting", "up", "sleeping"}, delay : 0 .. MaxDelay,
                    data : BOOLEAN, outbox : Seq(Events)]
  BY <1>3, <1>4 DEF SessionInv, SessionShapes
<1>6. CASE Len(events) < ChannelCap
  <2>1. events' = Append(events, e) /\ UNCHANGED lost
    BY <1>2, <1>6 DEF SendNext
  <2>2. /\ events' \in Seq(Events) /\ Len(events') = Len(events) + 1
        /\ events' \o rest = events \o (<<e>> \o rest)
    BY <1>1, <1>3, <2>1
  <2>3. Len(events') <= ChannelCap
    BY <1>1, <1>6, <2>2, SessionConstants
  <2>4. SessionShapes'
    BY <1>4, <1>5, <2>2, <2>3 DEF SessionInv, SessionShapes
  <2>5. Pipeline' = Pipeline
    BY <1>3, <1>5, <2>2, Zenon DEF Pipeline
  <2>6. StatusOnTheWay' /\ TradesOnTheWay'
    BY <1>4, <1>5, <2>1, <2>5, OnTheWayStays DEF SessionInv
  <2> QED BY <2>4, <2>6 DEF SessionInv
<1>7. CASE ~(Len(events) < ChannelCap)
  <2>1. events' = events /\ lost' = lost \cup ({e.type} \cap {"status", "trades"})
    BY <1>2, <1>7 DEF SendNext
  <2>2. SessionShapes'
    BY <1>4, <1>5, <2>1 DEF SessionInv, SessionShapes
  <2>3. Pipeline = events \o (<<e>> \o rest) /\ Pipeline' = events \o rest
    BY <1>3, <1>5, <2>1, Zenon DEF Pipeline
  <2>4. StatusOnTheWay'
    <3> SUFFICES ASSUME "status" \notin lost'
                 PROVE  \E up \in BOOLEAN : /\ up <=> link'.phase = "up"
                                            /\ Leads("up", Pipeline', shown'.up, up)
      BY DEF StatusOnTheWay
    <3>1. "status" \notin lost /\ e.type # "status"
      BY <2>1
    <3>2. PICK up \in BOOLEAN :
             (up <=> link.phase = "up") /\ Leads("up", Pipeline, shown.up, up)
      BY <3>1 DEF SessionInv, StatusOnTheWay
    <3>3. Leads("up", events \o rest, shown.up, up)
      BY <1>1, <1>3, <2>3, <3>1, <3>2, LeadsWithout
    <3>4. shown'.up = shown.up
      BY <1>4
    <3>5. Leads("up", Pipeline', shown'.up, up)
      BY <2>3, <3>3, <3>4, Zenon
    <3> QED BY <1>5, <3>2, <3>5
  <2>5. TradesOnTheWay'
    <3> SUFFICES ASSUME "trades" \notin lost'
                 PROVE  \E to \in Nat : /\ Leads("ids", Pipeline', shown'.last, to)
                                        /\ Follow(adapter'.buffer, to)
                                        /\ accepted' = to + Len(adapter'.buffer)
      BY DEF TradesOnTheWay
    <3>1. "trades" \notin lost /\ e.type # "trades"
      BY <2>1
    <3>2. PICK last \in Nat : /\ Leads("ids", Pipeline, shown.last, last)
                              /\ Follow(adapter.buffer, last)
                              /\ accepted = last + Len(adapter.buffer)
      BY <3>1 DEF SessionInv, TradesOnTheWay
    <3>3. Leads("ids", events \o rest, shown.last, last)
      BY <1>1, <1>3, <2>3, <3>1, <3>2, LeadsWithout
    <3>4. shown'.last = shown.last /\ adapter' = adapter /\ accepted' = accepted
      BY <1>4
    <3>5. Leads("ids", Pipeline', shown'.last, last)
      BY <2>3, <3>3, <3>4, Zenon
    <3> QED BY <3>2, <3>4, <3>5
  <2> QED BY <2>2, <2>4, <2>5 DEF SessionInv
<1> QED BY <1>6, <1>7

(* Consume: the application knows what the event told. *)
LEMMA ConsumesAreRight ==
  ASSUME SessionInv, Consume
  PROVE  SessionInv'
<1>1. events \in Seq(Events) /\ events # <<>> /\ link.outbox \in Seq(Events)
  BY DEF SessionInv, SessionShapes, Consume
<1>2. PICK e, rest : e = Head(events) /\ rest = Tail(events)
  OBVIOUS
<1>3. e \in Events /\ rest \in Seq(Events) /\ events = <<e>> \o rest
      /\ Len(rest) = Len(events) - 1
  BY <1>1, <1>2, HeadAndTail
<1>4. /\ UNCHANGED <<adapter, link, io, frames, lost, accepted>> /\ events' = rest
      /\ shown' = CASE e.type = "status" -> [shown EXCEPT !.up = e.up]
                    [] e.type = "trades" -> [shown EXCEPT !.last = Last(e.ids)]
                    [] OTHER -> shown
  BY <1>2 DEF Consume
<1>5. shown \in [up : BOOLEAN, last : 0 .. MaxTrades]
  BY DEF SessionInv, SessionShapes
<1>6. /\ shown' \in [up : BOOLEAN, last : 0 .. MaxTrades]
      /\ e.type = "status" => shown'.up = e.up
      /\ e.type # "status" => shown'.up = shown.up
      /\ e.type = "trades" => shown'.last = Last(e.ids)
      /\ e.type # "trades" => shown'.last = shown.last
  <2>1. CASE e.type = "status"
    <3>1. e.up \in BOOLEAN
      BY <1>3, <2>1 DEF Events
    <3>2. shown' = [shown EXCEPT !.up = e.up]
      BY <1>4, <2>1
    <3>3. shown' \in [up : BOOLEAN, last : 0 .. MaxTrades]
          /\ shown'.up = e.up /\ shown'.last = shown.last
      BY <1>5, <3>1, <3>2
    <3> QED BY <2>1, <3>3
  <2>2. CASE e.type = "trades"
    <3>1. e.ids \in Seq(Ids) /\ e.ids # <<>>
      BY <1>3, <2>2 DEF Events
    <3>2. Last(e.ids) \in Ids
      <4>1. Len(e.ids) \in 1 .. Len(e.ids)
        BY <3>1
      <4> QED BY <3>1, <4>1 DEF Last
    <3>3. Last(e.ids) \in 0 .. MaxTrades
      BY <3>2, SessionConstants DEF Ids
    <3>4. shown' = [shown EXCEPT !.last = Last(e.ids)]
      BY <1>4, <2>2
    <3>5. shown' \in [up : BOOLEAN, last : 0 .. MaxTrades]
          /\ shown'.last = Last(e.ids) /\ shown'.up = shown.up
      BY <1>5, <3>3, <3>4
    <3> QED BY <2>2, <3>5
  <2>3. CASE e.type \notin {"status", "trades"}
    <3>1. shown' = shown
      BY <1>4, <2>3
    <3> QED BY <1>5, <2>3, <3>1
  <2> QED BY <2>1, <2>2, <2>3
<1>7. SessionShapes'
  <2>1. Len(rest) <= ChannelCap
    BY <1>1, <1>3, SessionConstants DEF SessionInv, SessionShapes
  <2> QED BY <1>3, <1>4, <1>6, <2>1 DEF SessionInv, SessionShapes
<1>8. PICK tail : tail = rest \o link.outbox
  OBVIOUS
<1>10. <<e>> \in Seq(Events)
  BY <1>3
<1>9. tail \in Seq(Events) /\ Pipeline = <<e>> \o tail /\ Pipeline' = tail
  <2>1. <<e>> \o (rest \o link.outbox) = (<<e>> \o rest) \o link.outbox
    <3>1. PICK p, out : p = <<e>> /\ out = link.outbox
      OBVIOUS
    <3>2. p \in Seq(Events) /\ out \in Seq(Events)
      BY <1>1, <1>10, <3>1, Zenon
    <3>3. (p \o rest) \o out = p \o (rest \o out)
      BY <1>3, <3>2, ConcatAssociative
    <3> QED BY <3>1, <3>3, Zenon
  <2>2. Pipeline = (<<e>> \o rest) \o link.outbox
    BY <1>3, Zenon DEF Pipeline
  <2>3. Pipeline' = rest \o link.outbox
    BY <1>4 DEF Pipeline
  <2>4. Pipeline = <<e>> \o tail
    BY <1>8, <2>1, <2>2, Zenon
  <2> QED BY <1>1, <1>3, <1>8, <2>3, <2>4
<1>11. StatusOnTheWay'
  <2> SUFFICES ASSUME "status" \notin lost
               PROVE  \E up \in BOOLEAN : /\ up <=> link'.phase = "up"
                                          /\ Leads("up", Pipeline', shown'.up, up)
    BY <1>4 DEF StatusOnTheWay
  <2>1. PICK up \in BOOLEAN : (up <=> link.phase = "up") /\ Leads("up", Pipeline, shown.up, up)
    BY DEF SessionInv, StatusOnTheWay
  <2>2. Leads("up", <<e>> \o tail, shown.up, up)
    BY <1>9, <2>1
  <2>3. PICK b : Leads("up", <<e>>, shown.up, b) /\ Leads("up", tail, b, up)
    BY <1>9, <1>10, <2>2, LeadsThrough
  <2>4. Tells("up", shown.up, e, b)
    BY <1>3, <2>3, OnceTells
  <2>5. shown'.up = b
    <3>1. CASE e.type = "status"
      <4>1. b = e.up
        BY <2>4, <3>1, Zenon DEF Tells
      <4> QED BY <1>6, <3>1, <4>1, Zenon
    <3>2. CASE e.type # "status"
      <4>1. b = shown.up
        BY <2>4, <3>2, Zenon DEF Tells
      <4> QED BY <1>6, <3>2, <4>1, Zenon
    <3> QED BY <3>1, <3>2
  <2>6. Leads("up", Pipeline', shown'.up, up)
    BY <1>9, <2>3, <2>5, Zenon
  <2> QED BY <1>4, <2>1, <2>6
<1>12. TradesOnTheWay'
  <2> SUFFICES ASSUME "trades" \notin lost
               PROVE  \E to \in Nat : /\ Leads("ids", Pipeline', shown'.last, to)
                                      /\ Follow(adapter'.buffer, to)
                                      /\ accepted' = to + Len(adapter'.buffer)
    BY <1>4 DEF TradesOnTheWay
  <2>1. PICK last \in Nat : /\ Leads("ids", Pipeline, shown.last, last)
                            /\ Follow(adapter.buffer, last)
                            /\ accepted = last + Len(adapter.buffer)
    BY DEF SessionInv, TradesOnTheWay
  <2>2. Leads("ids", <<e>> \o tail, shown.last, last)
    BY <1>9, <2>1
  <2>3. PICK b : Leads("ids", <<e>>, shown.last, b) /\ Leads("ids", tail, b, last)
    BY <1>9, <1>10, <2>2, LeadsThrough
  <2>4. Tells("ids", shown.last, e, b)
    BY <1>3, <2>3, OnceTells
  <2>5. shown'.last = b
    <3>1. CASE e.type = "trades"
      <4>1. PICK ids : ids = e.ids
        OBVIOUS
      <4>2. ids \in Seq(Ids) /\ ids # <<>>
        BY <1>3, <3>1, <4>1 DEF Events
      <4>3. Follow(ids, shown.last) /\ b = shown.last + Len(ids)
        BY <2>4, <3>1, <4>1 DEF Tells
      <4>4. Len(ids) \in 1 .. Len(ids)
        BY <4>2
      <4>5. ids[Len(ids)] = shown.last + Len(ids)
        BY <4>3, <4>4 DEF Follow
      <4>6. Last(ids) = b
        BY <4>3, <4>5 DEF Last
      <4> QED BY <1>6, <3>1, <4>1, <4>6, Zenon
    <3>2. CASE e.type # "trades"
      <4>1. b = shown.last
        BY <2>4, <3>2, Zenon DEF Tells
      <4> QED BY <1>6, <3>2, <4>1, Zenon
    <3> QED BY <3>1, <3>2
  <2>6. Leads("ids", Pipeline', shown'.last, last)
    BY <1>9, <2>3, <2>5, Zenon
  <2> QED BY <1>4, <2>1, <2>6
<1> QED BY <1>7, <1>11, <1>12 DEF SessionInv

(* The smaller of two numbers. *)
LEMMA LeastOfTwo ==
  ASSUME NEW a \in Nat, NEW b \in Nat
  PROVE  Min({a, b}) \in {a, b} /\ Min({a, b}) <= a /\ Min({a, b}) <= b
<1>1. \E x \in {a, b} : \A y \in {a, b} : x <= y
  OBVIOUS
<1> QED BY <1>1 DEF Min

(* record_failure stays below the longest delay. *)
LEMMA DelayIsBounded ==
  ASSUME link.delay \in 0 .. MaxDelay
  PROVE  Delay(1) \in 0 .. MaxDelay
<1>1. PICK a : a = link.delay + 1
  OBVIOUS
<1>2. a \in Nat /\ MaxDelay \in Nat
  BY <1>1, SessionConstants
<1>3. Min({a, MaxDelay}) \in {a, MaxDelay} /\ Min({a, MaxDelay}) <= MaxDelay
  BY <1>2, LeastOfTwo
<1> QED BY <1>1, <1>2, <1>3 DEF Delay

(* The empty sequence. *)
LEMMA NothingIsTyped ==
  /\ \A S : <<>> \in Seq(S)
  /\ Len(<<>>) = 0 /\ \A last : Follow(<<>>, last)
  /\ TradeFrames(<<>>) = {} /\ Cardinality(TradeFrames(<<>>)) = 0
<1>1. DOMAIN <<>> = {}
  OBVIOUS
<1>2. TradeFrames(<<>>) = {}
  BY <1>1 DEF TradeFrames
<1>3. Cardinality(TradeFrames(<<>>)) = 0
  BY <1>2, FS_EmptySet, Zenon
<1>4. \A last : Follow(<<>>, last)
  BY DEF Follow
<1> QED BY <1>2, <1>3, <1>4

(* What empties the adapter leaves it typed. *)
LEMMA EmptyIsTyped ==
  ASSUME NEW a \in [kind : {"batch", "push"}, buffer : Seq(Ids), raw : Seq(Ids)],
         NEW b, b = [a EXCEPT !.buffer = <<>>, !.raw = <<>>]
  PROVE  /\ b \in [kind : {"batch", "push"}, buffer : Seq(Ids), raw : Seq(Ids)]
         /\ b.buffer = <<>> /\ b.raw = <<>> /\ Len(b.raw) <= RawCap
<1>1. PICK none : none = <<>>
  OBVIOUS
<1>2. none \in Seq(Ids) /\ Len(none) = 0
  BY <1>1
<1>3. b = [a EXCEPT !.buffer = none, !.raw = none]
  BY <1>1, Zenon
<1>4. b \in [kind : {"batch", "push"}, buffer : Seq(Ids), raw : Seq(Ids)]
      /\ b.buffer = none /\ b.raw = none
  BY <1>2, <1>3
<1> QED BY <1>1, <1>2, <1>4, SessionConstants

(* ConnectFails. *)
LEMMA FailuresAreRight ==
  ASSUME SessionInv, ConnectFails
  PROVE  SessionInv'
<1>1. /\ link.phase = "connecting" /\ link.outbox = <<>>
      /\ UNCHANGED <<adapter, io, frames, events, shown, lost, accepted>>
      /\ link' = [link EXCEPT !.phase = "sleeping", !.data = FALSE, !.delay = Delay(1),
                              !.outbox = <<Status(FALSE)>>]
  BY DEF ConnectFails, Free
<1>2. PICK up \in BOOLEAN : up = FALSE
  OBVIOUS
<1>3. PICK box : box = <<Status(up)>>
  OBVIOUS
<1>4. Status(up) \in Events /\ Leads("up", box, up, up)
      /\ \A last \in Nat : Leads("ids", box, last, last)
  BY <1>3, StatusTells, Zenon
<1>5. box \in Seq(Events)
  BY <1>3, <1>4
<1>6. link' = [link EXCEPT !.phase = "sleeping", !.data = up, !.delay = Delay(1),
                           !.outbox = box]
  BY <1>1, <1>2, <1>3, Zenon
<1>7. Delay(1) \in 0 .. MaxDelay
  BY DelayIsBounded DEF SessionInv, SessionShapes
<1>8. /\ link' \in [phase : {"connecting", "up", "sleeping"}, delay : 0 .. MaxDelay,
                    data : BOOLEAN, outbox : Seq(Events)]
      /\ link'.phase = "sleeping" /\ link'.outbox = box
  BY <1>5, <1>6, <1>7 DEF SessionInv, SessionShapes
<1>9. SessionShapes'
  BY <1>1, <1>8 DEF SessionInv, SessionShapes
<1>10. StatusOnTheWay'
  <2>1. (up <=> link.phase = "up") /\ (up <=> link'.phase = "up")
    BY <1>1, <1>2, <1>8
  <2> QED BY <1>1, <1>4, <1>5, <1>8, <2>1, StatusGoesOn
<1>11. TradesOnTheWay'
  <2>1. ASSUME NEW last \in Nat, Follow(adapter.buffer, last),
               accepted = last + Len(adapter.buffer)
        PROVE  \E to \in Nat : /\ Leads("ids", box, last, to)
                               /\ Follow(adapter'.buffer, to)
                               /\ accepted' = to + Len(adapter'.buffer)
    BY <1>1, <1>4, <2>1
  <2> QED BY <1>1, <1>5, <1>8, <2>1, TradesGoOn
<1> QED BY <1>9, <1>10, <1>11 DEF SessionInv

(* Connects: nothing was buffered while the connection was down. *)
LEMMA ConnectsAreRight ==
  ASSUME SessionInv, Connects
  PROVE  SessionInv'
<1>1. /\ link.phase = "connecting" /\ link.outbox = <<>>
      /\ UNCHANGED <<events, shown, lost, accepted>>
      /\ link' = [link EXCEPT !.phase = "up", !.data = FALSE,
                              !.outbox = Flushed \o <<Status(TRUE)>>]
      /\ adapter' = [adapter EXCEPT !.buffer = <<>>, !.raw = <<>>]
      /\ io' = [peer |-> "live", quiet |-> 0] /\ frames' = <<>>
  BY DEF Connects, Free, Emptied
<1>2. PICK down, up : down = FALSE /\ up = TRUE
  OBVIOUS
<1>3. down \in BOOLEAN /\ up \in BOOLEAN
  BY <1>2
<1>4. PICK box : box = <<Status(up)>>
  OBVIOUS
<1>5. Status(up) \in Events /\ Leads("up", box, down, up)
      /\ \A last \in Nat : Leads("ids", box, last, last)
  BY <1>3, <1>4, StatusTells, Zenon
<1>6. box \in Seq(Events)
  BY <1>4, <1>5
<1>7. adapter \in [kind : {"batch", "push"}, buffer : Seq(Ids), raw : Seq(Ids)]
      /\ adapter.buffer = <<>> /\ adapter.raw = <<>>
  BY <1>1 DEF SessionInv, SessionShapes
<1>8. Flushed = <<>>
  BY <1>2, <1>3, <1>7, FlushTells DEF Flushed
<1>9. Flushed \o <<Status(TRUE)>> = box
  <2>1. <<>> \o box = box
    BY <1>6
  <2> QED BY <1>2, <1>4, <1>8, <2>1, Zenon
<1>10. link' = [link EXCEPT !.phase = "up", !.data = down, !.outbox = box]
  BY <1>1, <1>2, <1>9, Zenon
<1>11. /\ link' \in [phase : {"connecting", "up", "sleeping"}, delay : 0 .. MaxDelay,
                     data : BOOLEAN, outbox : Seq(Events)]
       /\ link'.phase = "up" /\ link'.outbox = box
  BY <1>3, <1>6, <1>10 DEF SessionInv, SessionShapes
<1>12. adapter' \in [kind : {"batch", "push"}, buffer : Seq(Ids), raw : Seq(Ids)]
       /\ adapter'.buffer = <<>> /\ adapter'.raw = <<>> /\ Len(adapter'.raw) <= RawCap
  BY <1>1, <1>7, EmptyIsTyped
<1>13. SessionShapes'
  <2>1. io' \in [peer : {"none", "live", "silent"}, quiet : 0 .. IdleLimit]
    BY <1>1, SessionConstants
  <2>2. frames' \in Seq({"trade", "end"}) /\ Cardinality(TradeFrames(frames')) = 0
    BY <1>1, NothingIsTyped, Zenon
  <2>3. accepted \in Nat /\ accepted <= MaxTrades
    BY SessionTyped, SessionConstants DEF SessionTypeOK
  <2>4. accepted' \in Nat /\ accepted' + Cardinality(TradeFrames(frames')) <= MaxTrades
    BY <1>1, <2>2, <2>3
  <2> QED BY <1>1, <1>11, <1>12, <2>1, <2>2, <2>4 DEF SessionInv, SessionShapes
<1>14. StatusOnTheWay'
  <2>1. (down <=> link.phase = "up") /\ (up <=> link'.phase = "up")
    BY <1>1, <1>2, <1>11
  <2> QED BY <1>1, <1>3, <1>5, <1>6, <1>11, <2>1, StatusGoesOn
<1>15. TradesOnTheWay'
  <2>1. ASSUME NEW last \in Nat, Follow(adapter.buffer, last),
               accepted = last + Len(adapter.buffer)
        PROVE  \E to \in Nat : /\ Leads("ids", box, last, to)
                               /\ Follow(adapter'.buffer, to)
                               /\ accepted' = to + Len(adapter'.buffer)
    <3>1. adapter'.buffer = adapter.buffer
      BY <1>7, <1>12, Zenon
    <3> QED BY <1>1, <1>5, <2>1, <3>1
  <2> QED BY <1>1, <1>6, <1>11, <2>1, TradesGoOn
<1> QED BY <1>13, <1>14, <1>15 DEF SessionInv

(* FlushTick. *)
LEMMA FlushesAreRight ==
  ASSUME SessionInv, FlushTick
  PROVE  SessionInv'
<1>1. /\ link.phase = "up" /\ link.outbox = <<>>
      /\ UNCHANGED <<io, frames, events, shown, lost, accepted>>
      /\ link' = [link EXCEPT !.outbox = Flushed]
      /\ adapter' = [adapter EXCEPT !.buffer = <<>>, !.raw = <<>>]
  BY DEF FlushTick, Free, Emptied
<1>2. PICK up \in BOOLEAN : up = TRUE
  OBVIOUS
<1>3. adapter \in [kind : {"batch", "push"}, buffer : Seq(Ids), raw : Seq(Ids)]
  BY DEF SessionInv, SessionShapes
<1>4. PICK box : box = Flushed
  OBVIOUS
<1>5. /\ box \in Seq(Events) /\ Leads("up", box, up, up)
      /\ \A last \in Nat : Follow(adapter.buffer, last)
            => Leads("ids", box, last, last + Len(adapter.buffer))
  <2>1. adapter.buffer \in Seq(Ids) /\ adapter.raw \in Seq(Ids)
    BY <1>3
  <2>2. /\ FlushOf(adapter) \in Seq(Events) /\ Leads("up", FlushOf(adapter), up, up)
        /\ \A last \in Nat : Follow(adapter.buffer, last)
              => Leads("ids", FlushOf(adapter), last, last + Len(adapter.buffer))
    BY <1>2, <2>1, FlushTells
  <2> QED BY <1>4, <2>2, Zenon DEF Flushed
<1>6. /\ link' \in [phase : {"connecting", "up", "sleeping"}, delay : 0 .. MaxDelay,
                    data : BOOLEAN, outbox : Seq(Events)]
      /\ link'.phase = "up" /\ link'.outbox = box
  BY <1>1, <1>4, <1>5 DEF SessionInv, SessionShapes
<1>7. adapter' \in [kind : {"batch", "push"}, buffer : Seq(Ids), raw : Seq(Ids)]
      /\ adapter'.buffer = <<>> /\ adapter'.raw = <<>> /\ Len(adapter'.raw) <= RawCap
  BY <1>1, <1>3, EmptyIsTyped
<1>8. SessionShapes'
  BY <1>1, <1>6, <1>7 DEF SessionInv, SessionShapes
<1>9. StatusOnTheWay'
  <2>1. (up <=> link.phase = "up") /\ (up <=> link'.phase = "up")
    BY <1>1, <1>2, <1>6
  <2> QED BY <1>1, <1>5, <1>6, <2>1, StatusGoesOn
<1>10. TradesOnTheWay'
  <2>1. ASSUME NEW last \in Nat, Follow(adapter.buffer, last),
               accepted = last + Len(adapter.buffer)
        PROVE  \E to \in Nat : /\ Leads("ids", box, last, to)
                               /\ Follow(adapter'.buffer, to)
                               /\ accepted' = to + Len(adapter'.buffer)
    <3>1. accepted \in Nat
      BY DEF SessionInv, SessionShapes
    <3>2. Follow(adapter'.buffer, accepted) /\ Len(adapter'.buffer) = 0
      BY <1>7, NothingIsTyped
    <3>3. Leads("ids", box, last, accepted)
      BY <1>5, <2>1
    <3> QED BY <1>1, <3>1, <3>2, <3>3
  <2> QED BY <1>1, <1>5, <1>6, <2>1, TradesGoOn
<1> QED BY <1>8, <1>9, <1>10 DEF SessionInv

(* The trades read are among the frames, and those that stay waiting are the others.         *)
LEMMA RoundReads ==
  ASSUME frames \in Seq({"trade", "end"})
  PROVE  LET rest == SubSeq(frames, Len(Waiting) + 1, Len(frames))
         IN /\ TradesRead \in Nat /\ TradesRead <= Cardinality(TradeFrames(frames))
            /\ EndFrames = {} =>
                 /\ rest \in Seq({"trade", "end"})
                 /\ TradesRead + Cardinality(TradeFrames(rest))
                      = Cardinality(TradeFrames(frames))
<1>1. PICK w : w = Min({Len(frames), 1 + DrainMax})
  OBVIOUS
<1>2. w \in 0 .. Len(frames)
  <2>1. Len(frames) \in Nat /\ 1 + DrainMax \in Nat
    BY SessionConstants
  <2>2. w \in {Len(frames), 1 + DrainMax} /\ w <= Len(frames)
    BY <1>1, <2>1, LeastOfTwo
  <2> QED BY <2>1, <2>2
<1>3. /\ Len(Waiting) = w /\ DOMAIN Waiting = 1 .. w
      /\ \A i \in 1 .. w : Waiting[i] = frames[i]
  <2>1. Waiting = SubSeq(frames, 1, w)
    BY <1>1 DEF Waiting
  <2> QED BY <1>2, <2>1
<1>4. PICK ends : ends = EndFrames
  OBVIOUS
<1>5. ends \subseteq 1 .. w
  BY <1>3, <1>4 DEF EndFrames
<1>6. PICK k : k = IF ends = {} THEN w ELSE Min(ends) - 1
  OBVIOUS
<1>7. k \in 0 .. w /\ (ends = {} => k = w)
  <2>1. CASE ends = {}
    <3>1. k = w
      BY <1>6, <2>1
    <3> QED BY <1>2, <3>1
  <2>2. CASE ends # {}
    <3>1. ends \subseteq Nat
      BY <1>2, <1>5
    <3>2. \E x \in ends : \A y \in ends : x <= y
      BY <2>2, <3>1, LeastNat
    <3>3. Min(ends) \in ends
      BY <3>2 DEF Min
    <3>4. Min(ends) \in 1 .. w
      BY <1>5, <3>3
    <3>5. k = Min(ends) - 1
      BY <1>6, <2>2
    <3> QED BY <1>2, <2>2, <3>4, <3>5
  <2> QED BY <2>1, <2>2
<1>8. PICK read : read = {i \in 1 .. k : frames[i] = "trade"}
  OBVIOUS
<1>9. TradesRead = Cardinality(read)
  <2>1. {i \in 1 .. k : Waiting[i] = "trade"} = read
    <3>1. \A i \in 1 .. k : Waiting[i] = frames[i]
      BY <1>2, <1>3, <1>7
    <3> QED BY <1>8, <3>1
  <2>2. k = IF EndFrames = {} THEN Len(Waiting) ELSE Min(EndFrames) - 1
    BY <1>3, <1>4, <1>6
  <2> QED BY <2>1, <2>2, Zenon DEF TradesRead
<1>10. PICK n, f : n = Len(frames) /\ f = frames
  OBVIOUS
<1>11. PICK rest : rest = SubSeq(f, k + 1, n)
  OBVIOUS
<1>12. f \in Seq({"trade", "end"}) /\ k \in 0 .. Len(f)
  BY <1>2, <1>7, <1>10
<1>13. /\ Cardinality(read) \in Nat /\ rest \in Seq({"trade", "end"})
       /\ Cardinality(read) + Cardinality(TradeFrames(rest)) = Cardinality(TradeFrames(f))
  BY <1>8, <1>10, <1>11, <1>12, TradesReadSplit
<1>14. Cardinality(TradeFrames(rest)) \in Nat /\ Cardinality(TradeFrames(f)) \in Nat
  BY <1>12, <1>13, TradeFramesCounted
<1>15. Cardinality(read) <= Cardinality(TradeFrames(f))
  BY <1>13, <1>14
<1>16. EndFrames = {} => rest = SubSeq(frames, Len(Waiting) + 1, Len(frames))
  BY <1>3, <1>4, <1>7, <1>10, <1>11
<1> QED BY <1>9, <1>10, <1>13, <1>15, <1>16

(* What on_text keeps and returns goes on with n more trades.                                *)
LEMMA TextTells ==
  ASSUME SessionShapes, NEW n \in Nat, accepted + n <= MaxTrades, link.phase = "up",
         NEW text, text = OnText(n), NEW up \in BOOLEAN, up = TRUE
  PROVE  /\ text.adapter \in [kind : {"batch", "push"}, buffer : Seq(Ids), raw : Seq(Ids)]
         /\ Len(text.adapter.raw) <= RawCap
         /\ text.adapter.kind = "push"
              => text.adapter.buffer = <<>> /\ text.adapter.raw = <<>>
         /\ text.events \in Seq(Events) /\ Leads("up", text.events, up, up)
         /\ \A last \in Nat :
               Follow(adapter.buffer, last) /\ accepted = last + Len(adapter.buffer)
                 => \E to \in Nat : /\ Leads("ids", text.events, last, to)
                                    /\ Follow(text.adapter.buffer, to)
                                    /\ accepted + n = to + Len(text.adapter.buffer)
<1>1. /\ adapter \in [kind : {"batch", "push"}, buffer : Seq(Ids), raw : Seq(Ids)]
      /\ Len(adapter.raw) <= RawCap /\ accepted \in Nat
      /\ adapter.kind = "push" => adapter.buffer = <<>> /\ adapter.raw = <<>>
  BY DEF SessionShapes
<1>2. PICK ids : ids = [i \in 1 .. n |-> accepted + i]
  OBVIOUS
<1>3. ids \in Seq(Ids) /\ Len(ids) = n /\ \A i \in 1 .. n : ids[i] = accepted + i
  <2>1. \A i \in 1 .. n : accepted + i \in Ids
    BY <1>1, SessionConstants DEF Ids
  <2>2. ids \in [1 .. n -> Ids]
    BY <1>2, <2>1
  <2>3. ids \in Seq(Ids)
    BY <2>2, SeqDef
  <2>4. DOMAIN ids = 1 .. n
    BY <1>2
  <2>5. Len(ids) = n
    BY <2>3, <2>4
  <2> QED BY <1>2, <2>3, <2>5
<1>4. CASE adapter.kind = "batch"
  <2>1. PICK m : m = Min({n, RawCap - Len(adapter.raw)})
    OBVIOUS
  <2>2. m \in 0 .. n /\ Len(adapter.raw) + m <= RawCap /\ Len(adapter.raw) \in Nat
    <3>1. PICK room : room = RawCap - Len(adapter.raw)
      OBVIOUS
    <3>2. room \in Nat /\ Len(adapter.raw) \in Nat
      BY <1>1, <3>1, SessionConstants
    <3>3. m \in {n, room} /\ m <= n /\ m <= room
      BY <2>1, <3>1, <3>2, LeastOfTwo
    <3> QED BY <3>1, <3>2, <3>3, SessionConstants
  <2>3. PICK some : some = SubSeq(ids, 1, m)
    OBVIOUS
  <2>4. some \in Seq(Ids) /\ Len(some) = m
    BY <1>3, <2>2, <2>3
  <2>5. PICK buffer, raw : buffer = adapter.buffer \o ids /\ raw = adapter.raw \o some
    OBVIOUS
  <2>6. /\ buffer \in Seq(Ids) /\ Len(buffer) = Len(adapter.buffer) + n
        /\ raw \in Seq(Ids) /\ Len(raw) = Len(adapter.raw) + m
    <3>1. PICK b, r : b = adapter.buffer /\ r = adapter.raw
      OBVIOUS
    <3>2. b \in Seq(Ids) /\ r \in Seq(Ids)
      BY <1>1, <3>1
    <3>3. buffer = b \o ids /\ raw = r \o some
      BY <2>5, <3>1, Zenon
    <3>4. buffer \in Seq(Ids) /\ Len(buffer) = Len(b) + n
      BY <1>3, <3>2, <3>3, ConcatProperties
    <3>5. raw \in Seq(Ids) /\ Len(raw) = Len(r) + m
      BY <2>4, <3>2, <3>3, ConcatProperties
    <3> QED BY <3>1, <3>4, <3>5, Zenon
  <2>7. /\ text.adapter = [adapter EXCEPT !.buffer = buffer, !.raw = raw]
        /\ text.events = <<>>
    <3>1. text = [adapter |-> [adapter EXCEPT !.buffer = @ \o ids,
                                 !.raw = @ \o SubSeq(ids, 1,
                                                Min({n, RawCap - Len(adapter.raw)}))],
                  events |-> <<>>]
      BY <1>2, <1>4 DEF OnText
    <3>2. [adapter EXCEPT !.buffer = @ \o ids,
                  !.raw = @ \o SubSeq(ids, 1, Min({n, RawCap - Len(adapter.raw)}))]
          = [adapter EXCEPT !.buffer = buffer, !.raw = raw]
      BY <1>1, <2>1, <2>3, <2>5
    <3> QED BY <3>1, <3>2
  <2>8. /\ text.adapter \in [kind : {"batch", "push"}, buffer : Seq(Ids), raw : Seq(Ids)]
        /\ text.adapter.kind = "batch" /\ text.adapter.buffer = buffer /\ text.adapter.raw = raw
    BY <1>1, <1>4, <2>6, <2>7
  <2>9. Len(text.adapter.raw) <= RawCap
    BY <2>2, <2>6, <2>8
  <2>10. text.events \in Seq(Events) /\ Leads("up", text.events, up, up)
         /\ \A last \in Nat : Leads("ids", text.events, last, last)
    <3>1. up \in Values("up") /\ \A last \in Nat : last \in Values("ids")
      BY DEF Values
    <3>2. Leads("up", <<>>, up, up) /\ \A last \in Nat : Leads("ids", <<>>, last, last)
      BY <3>1, LeadsNowhere
    <3> QED BY <2>7, <3>2, NothingIsTyped, Zenon
  <2>11. ASSUME NEW last \in Nat, Follow(adapter.buffer, last),
                accepted = last + Len(adapter.buffer)
         PROVE  Follow(buffer, last) /\ accepted + n = last + Len(buffer)
    <3>1. PICK b, l : b = adapter.buffer /\ l = Len(b)
      OBVIOUS
    <3>2. b \in Seq(Ids) /\ l \in Nat /\ accepted = last + l /\ Len(buffer) = l + n
      BY <1>1, <2>6, <2>11, <3>1
    <3>3. \A i \in 1 .. l : b[i] = last + i
      BY <2>11, <3>1 DEF Follow
    <3>4. ASSUME NEW i \in 1 .. l + n PROVE buffer[i] = last + i
      <4>1. buffer[i] = IF i <= l THEN b[i] ELSE ids[i - l]
        BY <1>3, <2>5, <3>1, <3>2
      <4>2. CASE i <= l
        BY <3>2, <3>3, <4>1, <4>2
      <4>3. CASE ~(i <= l)
        <5>1. i - l \in 1 .. n
          BY <3>2, <4>3
        <5>2. ids[i - l] = accepted + (i - l)
          BY <1>3, <5>1
        <5> QED BY <3>2, <4>1, <4>3, <5>2
      <4> QED BY <4>2, <4>3
    <3>5. DOMAIN buffer = 1 .. l + n
      BY <2>6, <3>2
    <3>6. buffer = [i \in 1 .. l + n |-> last + i]
      <4>1. buffer = [i \in 1 .. l + n |-> buffer[i]]
        BY <2>6, <3>5, SeqDef
      <4> QED BY <3>4, <4>1
    <3>7. Follow(buffer, last)
      BY <3>2, <3>6, Zenon DEF Follow
    <3> QED BY <3>2, <3>7
  <2>12. text.adapter.kind = "push"
           => text.adapter.buffer = <<>> /\ text.adapter.raw = <<>>
    BY <2>8
  <2>13. ASSUME NEW last \in Nat, Follow(adapter.buffer, last),
                accepted = last + Len(adapter.buffer)
         PROVE  \E to \in Nat : /\ Leads("ids", text.events, last, to)
                                /\ Follow(text.adapter.buffer, to)
                                /\ accepted + n = to + Len(text.adapter.buffer)
    <3>1. Follow(buffer, last) /\ accepted + n = last + Len(buffer)
      BY <2>11, <2>13
    <3>2. Follow(text.adapter.buffer, last) /\ accepted + n = last + Len(text.adapter.buffer)
      BY <2>8, <3>1, Zenon
    <3> QED BY <2>10, <3>2
  <2> QED BY <2>8, <2>9, <2>10, <2>12, <2>13
<1>5. CASE adapter.kind = "push"
  <2>1. PICK box : box = [i \in 1 .. n |-> Batch(<<accepted + i>>)]
    OBVIOUS
  <2>2. text.adapter = adapter /\ text.events = box
    <3>1. text = [adapter |-> adapter, events |-> [i \in 1 .. n |-> Batch(<<ids[i]>>)]]
      BY <1>2, <1>5 DEF OnText
    <3>2. [i \in 1 .. n |-> Batch(<<ids[i]>>)] = box
      BY <1>3, <2>1
    <3> QED BY <3>1, <3>2
  <2>3. /\ box \in Seq(Events) /\ Len(box) = n
        /\ \A i \in 1 .. n : /\ box[i].type = "trades"
                             /\ box[i].ids = <<accepted + i>> /\ box[i].ids # <<>>
                             /\ Len(box[i].ids) = 1
    <3>1. ASSUME NEW i \in 1 .. n
          PROVE  /\ Batch(<<accepted + i>>) \in Events
                 /\ Batch(<<accepted + i>>).type = "trades"
                 /\ Batch(<<accepted + i>>).ids = <<accepted + i>>
                 /\ <<accepted + i>> # <<>> /\ Len(<<accepted + i>>) = 1
      <4>1. PICK one : one = <<accepted + i>>
        OBVIOUS
      <4>2. accepted + i \in Ids
        BY <1>1, SessionConstants DEF Ids
      <4>3. one \in Seq(Ids) /\ one # <<>> /\ Len(one) = 1
        BY <4>1, <4>2
      <4>4. PICK e : e = Batch(one)
        OBVIOUS
      <4>5. e.type = "trades" /\ e.ids = one
            /\ e \in [type : {"trades"}, ids : Seq(Ids) \ {<<>>}]
        BY <4>3, <4>4 DEF Batch
      <4>6. e \in Events
        BY <4>5 DEF Events
      <4> QED BY <4>1, <4>3, <4>4, <4>5, <4>6
    <3>2. box \in [1 .. n -> Events]
      BY <2>1, <3>1
    <3>3. box \in Seq(Events)
      BY <3>2, SeqDef
    <3>4. DOMAIN box = 1 .. n
      BY <2>1
    <3>5. Len(box) = n
      BY <3>3, <3>4
    <3>6. \A i \in 1 .. n : box[i] = Batch(<<accepted + i>>)
      BY <2>1
    <3> QED BY <3>1, <3>3, <3>5, <3>6
  <2>4. Leads("up", box, up, up)
    <3>1. PICK v : v = [i \in 0 .. n |-> up]
      OBVIOUS
    <3>2. \A i \in 0 .. n : v[i] = up
      BY <3>1
    <3>3. v \in [0 .. n -> BOOLEAN]
      BY <3>1
    <3>4. ASSUME NEW i \in 1 .. n PROVE Tells("up", v[i - 1], box[i], v[i])
      <4>1. i - 1 \in 0 .. n /\ i \in 0 .. n
        OBVIOUS
      <4>2. v[i - 1] = up /\ v[i] = up
        BY <3>2, <4>1
      <4>3. Tells("up", up, box[i], up)
        BY <2>3 DEF Tells
      <4> QED BY <4>2, <4>3
    <3>5. 0 \in 0 .. n /\ n \in 0 .. n
      OBVIOUS
    <3>6. Traces("up", box, v, up, up)
      BY <2>3, <3>2, <3>3, <3>4, <3>5 DEF Traces, Values
    <3> QED BY <3>6 DEF Leads
  <2>5. Leads("ids", box, accepted, accepted + n)
    <3>1. PICK v : v = [i \in 0 .. n |-> accepted + i]
      OBVIOUS
    <3>2. \A i \in 0 .. n : v[i] = accepted + i
      BY <3>1
    <3>3. v \in [0 .. n -> Nat]
      BY <1>1, <3>1
    <3>4. ASSUME NEW i \in 1 .. n PROVE Tells("ids", v[i - 1], box[i], v[i])
      <4>1. i - 1 \in 0 .. n /\ i \in 0 .. n
        OBVIOUS
      <4>2. v[i] = accepted + i /\ v[i] = v[i - 1] + 1 /\ v[i - 1] + 1 = accepted + i
        BY <1>1, <3>2, <4>1
      <4>3. Follow(box[i].ids, v[i - 1])
        <5>1. PICK one : one = box[i].ids
          OBVIOUS
        <5>2. one = <<accepted + i>> /\ Len(one) = 1
          BY <2>3, <5>1
        <5>3. one = [j \in 1 .. 1 |-> v[i - 1] + j]
          BY <4>2, <5>2
        <5> QED BY <5>1, <5>2, <5>3, Zenon DEF Follow
      <4> QED BY <2>3, <4>2, <4>3 DEF Tells
    <3>5. v[0] = accepted /\ v[n] = accepted + n
      <4>1. 0 \in 0 .. n /\ n \in 0 .. n
        OBVIOUS
      <4> QED BY <1>1, <3>2, <4>1
    <3>6. Traces("ids", box, v, accepted, accepted + n)
      BY <2>3, <3>3, <3>4, <3>5 DEF Traces, Values
    <3> QED BY <3>6 DEF Leads
  <2>6. adapter.buffer = <<>> /\ adapter.raw = <<>>
    BY <1>1, <1>5
  <2>7. ASSUME NEW last \in Nat, Follow(adapter.buffer, last),
               accepted = last + Len(adapter.buffer)
        PROVE  \E to \in Nat : /\ Leads("ids", text.events, last, to)
                               /\ Follow(text.adapter.buffer, to)
                               /\ accepted + n = to + Len(text.adapter.buffer)
    <3>1. Len(adapter.buffer) = 0 /\ Follow(adapter.buffer, accepted + n)
      BY <2>6, NothingIsTyped
    <3>2. last = accepted /\ accepted + n \in Nat
      BY <1>1, <2>7, <3>1
    <3>3. Leads("ids", text.events, last, accepted + n)
      BY <2>2, <2>5, <3>2, Zenon
    <3>4. Follow(text.adapter.buffer, accepted + n) /\ Len(text.adapter.buffer) = 0
      BY <2>2, <3>1, Zenon
    <3> QED BY <3>2, <3>3, <3>4
  <2>8. /\ text.adapter \in [kind : {"batch", "push"}, buffer : Seq(Ids), raw : Seq(Ids)]
        /\ Len(text.adapter.raw) <= RawCap
        /\ text.adapter.buffer = <<>> /\ text.adapter.raw = <<>>
    BY <1>1, <2>2, <2>6
  <2>9. text.events \in Seq(Events) /\ Leads("up", text.events, up, up)
    BY <2>2, <2>3, <2>4, Zenon
  <2> QED BY <2>7, <2>8, <2>9
<1> QED BY <1>1, <1>4, <1>5

(* What ends a connection flushes what is buffered, and then the link is down.               *)
LEMMA ClosingTells ==
  ASSUME NEW a \in [kind : {"batch", "push"}, buffer : Seq(Ids), raw : Seq(Ids)],
         a.kind = "push" => a.buffer = <<>> /\ a.raw = <<>>,
         NEW up \in BOOLEAN, up = TRUE
  PROVE  /\ Closing(a) \in Seq(Events) /\ Leads("up", Closing(a), up, up)
         /\ \A last \in Nat :
               Follow(a.buffer, last) => Leads("ids", Closing(a), last, last + Len(a.buffer))
<1>1. CASE a.kind = "push"
  <2>1. Closing(a) = <<>> /\ a.buffer = <<>>
    BY <1>1 DEF Closing
  <2>2. up \in Values("up") /\ \A last \in Nat : last \in Values("ids")
    BY DEF Values
  <2>3. Leads("up", <<>>, up, up) /\ \A last \in Nat : Leads("ids", <<>>, last, last)
    BY <2>2, LeadsNowhere
  <2>4. ASSUME NEW last \in Nat
        PROVE  Leads("ids", Closing(a), last, last + Len(a.buffer))
    <3>1. Len(a.buffer) = 0
      BY <2>1
    <3>2. last + Len(a.buffer) = last
      BY <3>1
    <3> QED BY <2>1, <2>3, <3>2, Zenon
  <2>5. Closing(a) \in Seq(Events) /\ Leads("up", Closing(a), up, up)
    BY <2>1, <2>3, NothingIsTyped, Zenon
  <2> QED BY <2>4, <2>5
<1>2. CASE a.kind # "push"
  <2>1. PICK p, e : p = FlushOf(a) /\ e = [type |-> "reconnect"]
    OBVIOUS
  <2>2. Closing(a) = p \o <<e>>
    BY <1>2, <2>1 DEF Closing
  <2>3. a.buffer \in Seq(Ids) /\ a.raw \in Seq(Ids)
    OBVIOUS
  <2>4. /\ p \in Seq(Events) /\ Leads("up", p, up, up)
        /\ \A last \in Nat :
              Follow(a.buffer, last) => Leads("ids", p, last, last + Len(a.buffer))
    <3>1. /\ FlushOf(a) \in Seq(Events) /\ Leads("up", FlushOf(a), up, up)
          /\ \A last \in Nat : Follow(a.buffer, last)
                => Leads("ids", FlushOf(a), last, last + Len(a.buffer))
      BY <2>3, FlushTells
    <3> QED BY <2>1, <3>1, Zenon
  <2>5. e \in Events /\ Leads("up", <<e>>, up, up)
        /\ \A last \in Nat : Leads("ids", <<e>>, last, last)
    BY <2>1, DetectorTells
  <2>6. PICK q : q = <<e>>
    OBVIOUS
  <2>7. q \in Seq(Events) /\ Leads("up", q, up, up)
        /\ \A last \in Nat : Leads("ids", q, last, last)
    <3>1. <<e>> \in Seq(Events)
      BY <2>5
    <3> QED BY <2>5, <2>6, <3>1, Zenon
  <2>8. p \o q \in Seq(Events)
    BY <2>4, <2>7
  <2>9. Leads("up", p \o q, up, up)
    BY <2>4, <2>7, LeadsOn
  <2>10. ASSUME NEW last \in Nat, Follow(a.buffer, last)
         PROVE  Leads("ids", p \o q, last, last + Len(a.buffer))
    <3>1. last + Len(a.buffer) \in Nat
      BY <2>3
    <3> QED BY <2>4, <2>7, <2>10, <3>1, LeadsOn
  <2>11. Closing(a) = p \o q
    BY <2>2, <2>6, Zenon
  <2> QED BY <2>8, <2>9, <2>10, <2>11, Zenon
<1> QED BY <1>1, <1>2

(* Round: the frames read are accounted for, up to the one that ends the connection. *)
LEMMA RoundsAreRight ==
  ASSUME SessionInv, Round
  PROVE  SessionInv'
<1>1. /\ SessionShapes /\ link.phase = "up" /\ link.outbox = <<>>
      /\ UNCHANGED <<events, shown, lost>> /\ accepted' = accepted + TradesRead
      /\ frames \in Seq({"trade", "end"}) /\ accepted \in Nat
      /\ accepted + Cardinality(TradeFrames(frames)) <= MaxTrades
  BY DEF SessionInv, SessionShapes, Round, Free
<1>2. PICK n : n = TradesRead
  OBVIOUS
<1>3. PICK text : text = OnText(n)
  OBVIOUS
<1>4. PICK up, down : up = TRUE /\ down = FALSE
  OBVIOUS
<1>5. up \in BOOLEAN /\ down \in BOOLEAN
  BY <1>4
<1>6. PICK rest : rest = SubSeq(frames, Len(Waiting) + 1, Len(frames))
  OBVIOUS
<1>7. /\ n \in Nat /\ n <= Cardinality(TradeFrames(frames))
      /\ EndFrames = {} => /\ rest \in Seq({"trade", "end"})
                           /\ n + Cardinality(TradeFrames(rest))
                                = Cardinality(TradeFrames(frames))
  BY <1>1, <1>2, <1>6, RoundReads
<1>8. Cardinality(TradeFrames(frames)) \in Nat
  BY <1>1, TradeFramesCounted
<1>9. accepted + n <= MaxTrades /\ accepted + n \in Nat
  BY <1>1, <1>7, <1>8, SessionConstants
<1>10. PICK a, got : a = text.adapter /\ got = text.events
  OBVIOUS
<1>11. /\ a \in [kind : {"batch", "push"}, buffer : Seq(Ids), raw : Seq(Ids)]
       /\ Len(a.raw) <= RawCap
       /\ a.kind = "push" => a.buffer = <<>> /\ a.raw = <<>>
       /\ got \in Seq(Events) /\ Leads("up", got, up, up)
       /\ \A last \in Nat :
             Follow(adapter.buffer, last) /\ accepted = last + Len(adapter.buffer)
               => \E to \in Nat : /\ Leads("ids", got, last, to)
                                  /\ Follow(a.buffer, to)
                                  /\ accepted + n = to + Len(a.buffer)
  <2>1. /\ text.adapter \in [kind : {"batch", "push"}, buffer : Seq(Ids), raw : Seq(Ids)]
        /\ Len(text.adapter.raw) <= RawCap
        /\ text.adapter.kind = "push"
             => text.adapter.buffer = <<>> /\ text.adapter.raw = <<>>
        /\ text.events \in Seq(Events) /\ Leads("up", text.events, up, up)
        /\ \A last \in Nat :
              Follow(adapter.buffer, last) /\ accepted = last + Len(adapter.buffer)
                => \E to \in Nat : /\ Leads("ids", text.events, last, to)
                                   /\ Follow(text.adapter.buffer, to)
                                   /\ accepted + n = to + Len(text.adapter.buffer)
    <3>1. SessionShapes /\ n \in Nat /\ accepted + n <= MaxTrades /\ link.phase = "up"
      BY <1>1, <1>7, <1>9
    <3> QED BY <1>3, <1>4, <1>5, <3>1, TextTells, ZenonT(30)
  <2> QED BY <1>10, <2>1, Zenon
<1>12. PICK data \in BOOLEAN : data = DataSeen(text)
  BY DEF DataSeen, SessionInv, SessionShapes
<1>13. PICK delay : delay = DelayAfter(text)
  OBVIOUS
<1>14. delay \in 0 .. MaxDelay /\ Delay(1) \in 0 .. MaxDelay
  <2>1. link.delay \in 0 .. MaxDelay
    BY <1>1 DEF SessionShapes
  <2>2. delay = 0 \/ delay = link.delay
    BY <1>13 DEF DelayAfter
  <2> QED BY <2>1, <2>2, DelayIsBounded, SessionConstants
<1>15. CASE EndFrames = {}
  <2>1. GoesOn(text)
    BY <1>2, <1>3, <1>15 DEF Round
  <2>2. /\ link' = [link EXCEPT !.data = data, !.delay = delay, !.outbox = got]
        /\ adapter' = a /\ frames' = rest /\ io' = io
    BY <1>6, <1>10, <1>12, <1>13, <2>1, Zenon DEF GoesOn
  <2>3. /\ link' \in [phase : {"connecting", "up", "sleeping"}, delay : 0 .. MaxDelay,
                      data : BOOLEAN, outbox : Seq(Events)]
        /\ link'.phase = "up" /\ link'.outbox = got
    BY <1>1, <1>11, <1>14, <2>2 DEF SessionShapes
  <2>4. SessionShapes'
    <3>1. /\ frames' \in Seq({"trade", "end"}) /\ accepted' \in Nat
          /\ accepted' + Cardinality(TradeFrames(frames')) <= MaxTrades
      <4>1. Cardinality(TradeFrames(frames')) = Cardinality(TradeFrames(rest))
            /\ frames' \in Seq({"trade", "end"}) /\ accepted' = accepted + n
        BY <1>1, <1>2, <1>7, <1>15, <2>2, Zenon
      <4>2. Cardinality(TradeFrames(rest)) \in Nat
        BY <1>7, <1>15, TradeFramesCounted
      <4>3. PICK all, left : /\ all = Cardinality(TradeFrames(frames))
                             /\ left = Cardinality(TradeFrames(rest))
        OBVIOUS
      <4>4. all \in Nat /\ left \in Nat /\ n + left = all /\ accepted + all <= MaxTrades
        BY <1>1, <1>7, <1>8, <1>15, <4>2, <4>3
      <4>5. (accepted + n) + left <= MaxTrades
        BY <1>1, <1>7, <4>4, SessionConstants
      <4>6. accepted' + Cardinality(TradeFrames(frames')) = (accepted + n) + left
        BY <4>1, <4>3, Zenon
      <4> QED BY <1>9, <4>1, <4>5, <4>6
    <3>2. /\ adapter' \in [kind : {"batch", "push"}, buffer : Seq(Ids), raw : Seq(Ids)]
          /\ Len(adapter'.raw) <= RawCap
          /\ adapter'.kind = "push" \/ link'.phase # "up"
               => adapter'.buffer = <<>> /\ adapter'.raw = <<>>
      BY <1>11, <2>2, <2>3
    <3> QED BY <1>1, <2>2, <2>3, <3>1, <3>2 DEF SessionShapes
  <2>5. StatusOnTheWay'
    <3>1. (up <=> link.phase = "up") /\ (up <=> link'.phase = "up")
      BY <1>1, <1>4, <2>3
    <3> QED BY <1>1, <1>5, <1>11, <2>3, <3>1, StatusGoesOn
  <2>6. TradesOnTheWay'
    <3>1. ASSUME NEW last \in Nat, Follow(adapter.buffer, last),
                 accepted = last + Len(adapter.buffer)
          PROVE  \E to \in Nat : /\ Leads("ids", got, last, to)
                                 /\ Follow(adapter'.buffer, to)
                                 /\ accepted' = to + Len(adapter'.buffer)
      BY <1>1, <1>2, <1>11, <2>2, <3>1
    <3> QED BY <1>1, <1>11, <2>3, <3>1, TradesGoOn
  <2> QED BY <2>4, <2>5, <2>6 DEF SessionInv
<1>16. CASE EndFrames # {}
  <2>1. Breaks(text)
    BY <1>2, <1>3, <1>16 DEF Round
  <2>2. PICK end, close : end = <<Status(down)>> /\ close = Closing(a)
    OBVIOUS
  <2>3. Status(down) \in Events /\ Leads("up", end, up, down)
        /\ \A last \in Nat : Leads("ids", end, last, last)
    BY <1>5, <2>2, StatusTells, Zenon
  <2>4. end \in Seq(Events)
    BY <2>2, <2>3
  <2>5. /\ close \in Seq(Events) /\ Leads("up", close, up, up)
        /\ \A last \in Nat :
              Follow(a.buffer, last) => Leads("ids", close, last, last + Len(a.buffer))
    <3>1. /\ Closing(a) \in Seq(Events) /\ Leads("up", Closing(a), up, up)
          /\ \A last \in Nat : Follow(a.buffer, last)
                => Leads("ids", Closing(a), last, last + Len(a.buffer))
      BY <1>4, <1>5, <1>11, ClosingTells
    <3> QED BY <2>2, <3>1, Zenon
  <2>6. PICK box : box = got \o close \o end
    OBVIOUS
  <2>7. got \o close \in Seq(Events) /\ box \in Seq(Events)
    BY <1>11, <2>4, <2>5, <2>6
  <2>8. Leads("up", box, up, down)
    <3>1. Leads("up", got \o close, up, up)
      BY <1>11, <2>5, LeadsOn
    <3>2. Leads("up", (got \o close) \o end, up, down)
      BY <2>3, <2>4, <2>7, <3>1, LeadsOn
    <3> QED BY <2>6, <3>2, Zenon
  <2>9. PICK wait : wait = IF data THEN delay ELSE Delay(1)
    OBVIOUS
  <2>10. wait \in 0 .. MaxDelay
    BY <1>14, <2>9
  <2>11. link' = [link EXCEPT !.phase = "sleeping", !.data = down, !.delay = wait,
                              !.outbox = box]
         /\ adapter' = [a EXCEPT !.buffer = <<>>, !.raw = <<>>]
         /\ frames' = <<>> /\ io' = Silence
    <3>1. wait = IF DataSeen(text) THEN DelayAfter(text) ELSE Delay(1)
      BY <1>12, <1>13, <2>9, Zenon
    <3>2. box = text.events \o Closing(text.adapter) \o <<Status(FALSE)>>
      BY <1>4, <1>10, <2>2, <2>6, Zenon
    <3> QED BY <1>4, <1>10, <2>1, <3>1, <3>2, Zenon DEF Breaks
  <2>12. /\ link' \in [phase : {"connecting", "up", "sleeping"}, delay : 0 .. MaxDelay,
                       data : BOOLEAN, outbox : Seq(Events)]
         /\ link'.phase = "sleeping" /\ link'.outbox = box
    BY <1>1, <1>5, <2>7, <2>10, <2>11 DEF SessionShapes
  <2>13. adapter' \in [kind : {"batch", "push"}, buffer : Seq(Ids), raw : Seq(Ids)]
         /\ adapter'.buffer = <<>> /\ adapter'.raw = <<>> /\ Len(adapter'.raw) <= RawCap
    BY <1>11, <2>11, EmptyIsTyped
  <2>14. SessionShapes'
    <3>1. /\ frames' \in Seq({"trade", "end"}) /\ Cardinality(TradeFrames(frames')) = 0
      BY <2>11, NothingIsTyped, Zenon
    <3>2. accepted' \in Nat /\ accepted' + Cardinality(TradeFrames(frames')) <= MaxTrades
      BY <1>1, <1>2, <1>9, <3>1
    <3>3. io' \in [peer : {"none", "live", "silent"}, quiet : 0 .. IdleLimit]
      BY <2>11, SessionConstants DEF Silence
    <3> QED BY <1>1, <2>12, <2>13, <3>1, <3>2, <3>3 DEF SessionShapes
  <2>15. StatusOnTheWay'
    <3>1. (up <=> link.phase = "up") /\ (down <=> link'.phase = "up")
      BY <1>1, <1>4, <2>12
    <3> QED BY <1>1, <1>5, <2>7, <2>8, <2>12, <3>1, StatusGoesOn
  <2>16. TradesOnTheWay'
    <3>1. ASSUME NEW last \in Nat, Follow(adapter.buffer, last),
                 accepted = last + Len(adapter.buffer)
          PROVE  \E to \in Nat : /\ Leads("ids", box, last, to)
                                 /\ Follow(adapter'.buffer, to)
                                 /\ accepted' = to + Len(adapter'.buffer)
      <4>1. PICK mid \in Nat : /\ Leads("ids", got, last, mid) /\ Follow(a.buffer, mid)
                               /\ accepted + n = mid + Len(a.buffer)
        BY <1>11, <3>1
      <4>2. PICK to : to = accepted + n
        OBVIOUS
      <4>3. to \in Nat /\ Leads("ids", close, mid, to)
        BY <1>9, <2>5, <4>1, <4>2
      <4>4. Leads("ids", got \o close, last, to)
        BY <1>11, <2>5, <4>1, <4>3, LeadsOn
      <4>5. Leads("ids", (got \o close) \o end, last, to)
        BY <2>3, <2>4, <2>7, <4>3, <4>4, LeadsOn
      <4>6. Leads("ids", box, last, to)
        BY <2>6, <4>5, Zenon
      <4>7. Follow(adapter'.buffer, to) /\ Len(adapter'.buffer) = 0
        BY <2>13, NothingIsTyped, Zenon
      <4>8. accepted' = to + Len(adapter'.buffer)
        BY <1>1, <1>2, <4>2, <4>3, <4>7
      <4> QED BY <4>3, <4>6, <4>7, <4>8
    <3> QED BY <1>1, <2>7, <2>12, <3>1, TradesGoOn
  <2> QED BY <2>14, <2>15, <2>16 DEF SessionInv
<1> QED BY <1>15, <1>16

(* Every step keeps the invariant. *)
LEMMA SessionSteps == SessionInv /\ [SessionNext]_sessionVars => SessionInv'
<1> SUFFICES ASSUME SessionInv, [SessionNext]_sessionVars PROVE SessionInv'
  OBVIOUS
<1>1. CASE SendNext
  BY <1>1, SendsAreRight
<1>2. CASE Consume
  BY <1>2, ConsumesAreRight
<1>3. CASE ConnectFails
  BY <1>3, FailuresAreRight
<1>4. CASE Connects
  BY <1>4, ConnectsAreRight
<1>5. CASE Wake \/ BecomesStable \/ UNCHANGED sessionVars
  BY <1>5, IdlesAreRight
<1>6. CASE FlushTick
  BY <1>6, FlushesAreRight
<1>7. CASE Round
  BY <1>7, RoundsAreRight
<1>8. CASE Receive \/ PeerFallsSilent \/ Heartbeat
  BY <1>8, ArrivalsAreRight
<1> QED BY <1>1, <1>2, <1>3, <1>4, <1>5, <1>6, <1>7, <1>8 DEF SessionNext

(* What is on the way are events. *)
LEMMA EventsAreTyped == SessionInv => Pipeline \in Seq(Events)
<1> SUFFICES ASSUME SessionInv PROVE Pipeline \in Seq(Events)
  OBVIOUS
<1>1. PICK p, q : p = events /\ q = link.outbox
  OBVIOUS
<1>2. p \in Seq(Events) /\ q \in Seq(Events)
  BY <1>1 DEF SessionInv, SessionShapes
<1>3. p \o q \in Seq(Events)
  BY <1>2
<1> QED BY <1>1, <1>3, Zenon DEF Pipeline

(* Every value of the session task, of the I/O task and of the channels has its type. *)
THEOREM SessionTypeCorrect == SessionSpec => []SessionTypeOK
<1> QED BY SessionStarts, SessionSteps, SessionTyped, PTL DEF SessionSpec

(* Every trade that on_text accepts reaches the charts once and in order, across flushes,    *)
(* lost connections and reconnections, as long as no batch meets a full channel.             *)
THEOREM TradesStayAccounted == SessionSpec => []TradesAreAccounted
<1>1. SessionInv => TradesAreAccounted
  BY EventsAreTyped, TradesAreRight DEF SessionInv
<1> QED BY <1>1, SessionStarts, SessionSteps, PTL DEF SessionSpec

(* The application never gets data of a connection it was told is down, and, unless a status *)
(* met a full channel, what is on the way ends at what the connection is.                    *)
THEOREM DataComeWhileUp == SessionSpec => []DataOnlyWhileUp
<1>1. SessionInv => DataOnlyWhileUp
  BY EventsAreTyped, StatusIsRight DEF SessionInv
<1> QED BY <1>1, SessionStarts, SessionSteps, PTL DEF SessionSpec

--------------------------------------------------------------------------------
(* ChartTrades. *)

(* A trade of an execution, live or from the history. *)
IsPrint(t) == t.at \in printed /\ t \in {LiveTrade(t.at), PastTrade(t.at)}

(* What a chart with these candles holds, in memory and in footprints. *)
Holds(raw, candles, t) == t \in raw \/ \E b \in DOMAIN candles : t \in DOMAIN candles[b]

(* A footprint has trades of its candle, each once. *)
Footprint(basis, b, footprint) ==
    /\ footprint = [t \in DOMAIN footprint |-> 1]
    /\ \A t \in DOMAIN footprint : IsPrint(t) /\ FloorTo(t.at, basis) = b

GoodPlot(p) ==
    /\ p = [basis |-> p.basis, raw |-> p.raw, candles |-> p.candles, live |-> p.live]
    /\ p.basis \in Steps \cup {OfTicks}
    /\ \A t \in p.raw : IsPrint(t)
    /\ \A b \in DOMAIN p.candles : Footprint(p.basis, b, p.candles[b])
    /\ p.basis = OfTicks => DOMAIN p.candles = {}

(* On the linear market, what came live under this basis has touched its candle, and the     *)
(* same execution is not held twice, under its two ids.                                      *)
Apart(p) ==
    linear => \A at \in printed \ past :
       /\ ~(Holds(p.raw, p.candles, LiveTrade(at)) /\ Holds(p.raw, p.candles, PastTrade(at)))
       /\ p.basis # OfTicks /\ Holds(p.raw, p.candles, LiveTrade(at))
             => FloorTo(at, p.basis) \in p.live

(* What is in memory is in the footprint of its candle. *)
Shows(p) ==
    p.basis # OfTicks =>
       \A t \in p.raw : FloorTo(t.at, p.basis) \in DOMAIN p.candles
                           => t \in DOMAIN p.candles[FloorTo(t.at, p.basis)]

PlotBase ==
    /\ tick \in 0 .. LastTick /\ printed \subseteq 0 .. (tick - 1) /\ past \subseteq printed
    /\ linear \in BOOLEAN /\ turns \in 0 .. MaxTurns

PlotInv == PlotBase /\ GoodPlot(plot) /\ Apart(plot) /\ Shows(plot)

(* A trade has its time, and the two of an execution differ only on the linear market. *)
LEMMA TwoTrades ==
  ASSUME linear \in BOOLEAN
  PROVE  \A at : /\ LiveTrade(at).at = at /\ PastTrade(at).at = at
                 /\ linear => LiveTrade(at) # PastTrade(at)
                 /\ ~linear => LiveTrade(at) = PastTrade(at)
<1>1. \A at : LiveTrade(at).at = at /\ PastTrade(at).at = at
  BY DEF LiveTrade, PastTrade
<1>2. linear => \A at : LiveTrade(at).id = "raw" /\ PastTrade(at).id = "aggregate"
  BY DEF LiveTrade, PastTrade
<1>3. ~linear => \A at : LiveTrade(at) = PastTrade(at)
  BY DEF LiveTrade, PastTrade
<1> QED BY <1>1, <1>2, <1>3

(* Trades added to a footprint are in it once. *)
LEMMA AddTradesIs ==
  ASSUME NEW footprint, NEW trades, footprint = [t \in DOMAIN footprint |-> 1]
  PROVE  /\ DOMAIN AddTrades(footprint, trades) = DOMAIN footprint \cup trades
         /\ AddTrades(footprint, trades) = [t \in DOMAIN AddTrades(footprint, trades) |-> 1]
<1> DEFINE fresh == {t \in trades : ~BagIn(t, footprint)}
<1>1. \A t : t \in fresh <=> t \in trades /\ t \notin DOMAIN footprint
  BY DEF BagIn, BagToSet
<1> HIDE DEF fresh
<1>2. PICK bag : bag = SetToBag(fresh)
  OBVIOUS
<1>3. bag = [t \in fresh |-> 1]
  BY <1>2 DEF SetToBag
<1>4. AddTrades(footprint, trades)
        = [t \in DOMAIN footprint \cup DOMAIN bag |->
              (IF t \in DOMAIN footprint THEN footprint[t] ELSE 0)
                + (IF t \in DOMAIN bag THEN bag[t] ELSE 0)]
  BY <1>2, Zenon DEF AddTrades, fresh, (+)
<1>5. \A t \in DOMAIN footprint : footprint[t] = 1
  BY Zenon
<1>6. DOMAIN footprint \cup DOMAIN bag = DOMAIN footprint \cup trades
  BY <1>1, <1>3
<1>7. \A t \in DOMAIN footprint \cup DOMAIN bag :
         (IF t \in DOMAIN footprint THEN footprint[t] ELSE 0)
            + (IF t \in DOMAIN bag THEN bag[t] ELSE 0) = 1
  BY <1>1, <1>3, <1>5
<1>8. PICK sum : sum = AddTrades(footprint, trades)
  OBVIOUS
<1>9. DOMAIN sum = DOMAIN footprint \cup DOMAIN bag
  BY <1>4, <1>8
<1>10. sum = [t \in DOMAIN sum |-> 1]
  BY <1>4, <1>7, <1>8, <1>9
<1> QED BY <1>6, <1>8, <1>9, <1>10

(* The empty footprint. *)
LEMMA EmptyIs == EmptyBag = [t \in {} |-> 1] /\ DOMAIN EmptyBag = {}
BY DEF EmptyBag, SetToBag

(* What remains in memory was there. *)
LEMMA RetainedIs ==
  ASSUME NEW raw, NEW rest \in Retained(raw)
  PROVE  rest \subseteq raw
BY DEF Retained, kSubset

(* The chart starts empty. *)
LEMMA PlotStarts == PlotInit => PlotInv
<1> SUFFICES ASSUME PlotInit
             PROVE  PlotInv
  OBVIOUS
<1>1. PICK basis \in Steps : plot = NewPlot(basis)
  BY DEF PlotInit
<1>2. /\ plot.basis = basis /\ plot.raw = {} /\ plot.candles = <<>> /\ plot.live = {}
      /\ plot = [basis |-> plot.basis, raw |-> plot.raw, candles |-> plot.candles,
                 live |-> plot.live]
  BY <1>1 DEF NewPlot
<1>3. DOMAIN plot.candles = {}
  BY <1>2
<1>4. GoodPlot(plot) /\ Shows(plot)
  BY <1>2, <1>3 DEF GoodPlot, Shows
<1>5. \A t : ~Holds(plot.raw, plot.candles, t)
  BY <1>2, <1>3 DEF Holds
<1>6. Apart(plot)
  BY <1>5 DEF Apart
<1>7. PlotBase
  BY PlotAssumption DEF PlotInit, PlotBase
<1> QED BY <1>4, <1>6, <1>7 DEF PlotInv

(* Nothing is in a chart that was not. *)
NoMore(p, q) == \A t : Holds(q.raw, q.candles, t) => Holds(p.raw, p.candles, t)

(* A trade that the chart takes in is in memory or not, and in its candle, if there is one. *)
LEMMA InsertIs ==
  ASSUME NEW trades, NEW live, Insert(trades, live), GoodPlot(plot), Shows(plot),
         printed \subseteq printed', linear' = linear, linear \in BOOLEAN,
         \A t \in trades : IsPrint(t)'
  PROVE  /\ GoodPlot(plot)' /\ Shows(plot)'
         /\ plot'.basis = plot.basis /\ plot'.live = live
         /\ \A t : Holds(plot'.raw, plot'.candles, t)
                      => Holds(plot.raw, plot.candles, t) \/ t \in trades
<1>1. PICK raw \in Retained(plot.raw \cup trades) :
         plot' = [plot EXCEPT !.raw = raw, !.live = live,
                              !.candles = InCandles(plot.candles, plot.basis, trades)]
  BY DEF Insert
<1>2. PICK candles : candles = InCandles(plot.candles, plot.basis, trades)
  OBVIOUS
<1>3. PICK basis : basis = plot.basis
  OBVIOUS
<1>4. plot' = [basis |-> basis, raw |-> raw, candles |-> candles, live |-> live]
  BY <1>1, <1>2, <1>3 DEF GoodPlot
<1>5. /\ plot'.basis = basis /\ plot'.raw = raw /\ plot'.candles = candles /\ plot'.live = live
      /\ plot' = [basis |-> plot'.basis, raw |-> plot'.raw, candles |-> plot'.candles,
                  live |-> plot'.live]
  BY <1>4
<1>6. raw \subseteq plot.raw \cup trades
  BY RetainedIs
<1>7. \A t : IsPrint(t) => IsPrint(t)'
  BY DEF IsPrint, LiveTrade, PastTrade
<1>8. \A t \in plot'.raw : IsPrint(t)'
  BY <1>5, <1>6, <1>7 DEF GoodPlot
<1>9. DOMAIN candles = DOMAIN plot.candles
      /\ \A b \in DOMAIN candles :
           candles[b] = AddTrades(plot.candles[b], {t \in trades : FloorTo(t.at, basis) = b})
  BY <1>2, <1>3 DEF InCandles
<1>10. \A b \in DOMAIN candles :
          /\ candles[b] = [t \in DOMAIN candles[b] |-> 1]
          /\ DOMAIN candles[b]
                = DOMAIN plot.candles[b] \cup {t \in trades : FloorTo(t.at, basis) = b}
  <2> SUFFICES ASSUME NEW b \in DOMAIN candles
               PROVE  /\ candles[b] = [t \in DOMAIN candles[b] |-> 1]
                      /\ DOMAIN candles[b] = DOMAIN plot.candles[b]
                                               \cup {t \in trades : FloorTo(t.at, basis) = b}
    OBVIOUS
  <2>1. PICK footprint : footprint = plot.candles[b]
    OBVIOUS
  <2>2. footprint = [t \in DOMAIN footprint |-> 1]
    BY <1>9, <2>1, Zenon DEF GoodPlot, Footprint
  <2>3. PICK here : here = {t \in trades : FloorTo(t.at, basis) = b}
    OBVIOUS
  <2>4. candles[b] = AddTrades(footprint, here)
    BY <1>9, <2>1, <2>3, Zenon
  <2>5. /\ DOMAIN AddTrades(footprint, here) = DOMAIN footprint \cup here
        /\ AddTrades(footprint, here) = [t \in DOMAIN AddTrades(footprint, here) |-> 1]
    BY <2>2, AddTradesIs
  <2> QED BY <2>1, <2>3, <2>4, <2>5, Zenon
<1>11. \A b \in DOMAIN candles : \A t \in DOMAIN candles[b] :
          IsPrint(t)' /\ FloorTo(t.at, basis) = b
  BY <1>3, <1>7, <1>9, <1>10 DEF GoodPlot, Footprint
<1>12. \A b \in DOMAIN candles : Footprint(basis, b, candles[b])'
  BY <1>10, <1>11, Zenon DEF Footprint
<1>13. GoodPlot(plot)'
  <2>1. \A b \in DOMAIN plot'.candles : Footprint(plot.basis, b, plot.candles[b])'
    BY <1>5, <1>12, Zenon
  <2>2. plot'.basis \in Steps \cup {OfTicks}
    BY <1>3, <1>5 DEF GoodPlot
  <2>3. plot'.basis = OfTicks => DOMAIN plot'.candles = {}
    BY <1>3, <1>5, <1>9 DEF GoodPlot
  <2> QED BY <1>5, <1>8, <2>1, <2>2, <2>3, Zenon DEF GoodPlot
<1>14. Shows(plot)'
  BY <1>3, <1>5, <1>6, <1>9, <1>10 DEF Shows
<1>15. \A t : Holds(plot'.raw, plot'.candles, t)
                 => Holds(plot.raw, plot.candles, t) \/ t \in trades
  BY <1>5, <1>6, <1>9, <1>10 DEF Holds
<1> QED BY <1>3, <1>5, <1>13, <1>14, <1>15

(* What is held is an execution's. *)
LEMMA HeldIsPrint ==
  ASSUME GoodPlot(plot), NEW t, Holds(plot.raw, plot.candles, t)
  PROVE  IsPrint(t)
BY DEF Holds, GoodPlot, Footprint

(* Whole multiples of a timeframe. *)
LEMMA FloorIs ==
  ASSUME NEW at \in Nat, NEW basis \in Steps
  PROVE  FloorTo(at, basis) \in Int /\ LiveCap * basis \in Nat
<1>1. basis \in Nat /\ basis > 0 /\ LiveCap \in Nat
  BY PlotAssumption
<1>2. at % basis \in Int
  BY <1>1
<1> QED BY <1>1, <1>2 DEF FloorTo

(* What leaves the live candles is old: those that are not outlived stay.                     *)
LEMMA LiveKeptIs ==
  ASSUME NEW at \in printed, plot.basis \in Steps, tick \in Nat, printed \subseteq Nat, NEW grown,
         NEW latest, latest = FloorTo(tick, plot.basis), NEW live, live = LiveKept(grown, latest)
  PROVE  /\ FloorTo(at, plot.basis) \in grown
         /\ live # grown => at \notin Outlived(latest)
         => FloorTo(at, plot.basis) \in live
<1>1. PICK bucket, window : bucket = FloorTo(at, plot.basis) /\ window = LiveCap * plot.basis
  OBVIOUS
<1>2. bucket \in Int /\ window \in Nat /\ latest \in Int
  BY <1>1, FloorIs
<1>3. CASE live = grown
  BY <1>3
<1>4. CASE live # grown
  <2>1. live = {b \in grown : b + window >= latest}
    BY <1>1, <1>4 DEF LiveKept
  <2>2. at \notin Outlived(latest) => ~(bucket + window < latest)
    BY <1>1 DEF Outlived
  <2> QED BY <1>1, <1>2, <1>4, <2>1, <2>2
<1> QED BY <1>3, <1>4

(* An execution, which may come live. *)
LEMMA TickPassesKeeps ==
  ASSUME PlotInv, TickPasses
  PROVE  PlotInv'
<1>1. /\ tick' = tick + 1 /\ tick < LastTick /\ tick \in Nat /\ LastTick \in Nat
      /\ linear' = linear /\ turns' = turns /\ linear \in BOOLEAN
      /\ past \subseteq past' /\ past' \subseteq past \cup printed
  BY PlotAssumption DEF TickPasses, LiveArrives, Outlived, PlotInv, PlotBase
<1>2. printed' \in {printed, printed \cup {tick}}
  BY DEF TickPasses
<1>3. PlotBase'
  BY <1>1, <1>2 DEF PlotInv, PlotBase
<1>4. tick \notin printed /\ tick \notin past
  BY <1>1 DEF PlotInv, PlotBase
<1>5. \A t : IsPrint(t) => IsPrint(t)'
  BY <1>1, <1>2 DEF IsPrint, LiveTrade, PastTrade
<1>6. \A at : LiveTrade(at)' = LiveTrade(at) /\ PastTrade(at)' = PastTrade(at)
  BY <1>1 DEF LiveTrade, PastTrade
<1>7. ~Holds(plot.raw, plot.candles, LiveTrade(tick))
      /\ ~Holds(plot.raw, plot.candles, PastTrade(tick))
  BY <1>1, <1>4, HeldIsPrint, TwoTrades DEF PlotInv, IsPrint
<1>8. CASE plot' = plot
  <2>1. GoodPlot(plot)'
    BY <1>5, <1>8 DEF GoodPlot, Footprint, PlotInv
  <2>2. Shows(plot)'
    BY <1>8 DEF Shows, PlotInv
  <2>3. Apart(plot)'
    BY <1>1, <1>2, <1>6, <1>7, <1>8 DEF Apart, PlotInv
  <2> QED BY <1>3, <2>1, <2>2, <2>3 DEF PlotInv
<1>9. CASE plot' # plot
  <2>1. PICK trades, live, latest, grown :
           /\ trades = Unheld({LiveTrade(tick)}) /\ printed' = printed \cup {tick}
           /\ latest = FloorTo(tick, plot.basis) /\ grown = plot.live \cup {latest}
           /\ live = (IF linear /\ plot.basis # OfTicks THEN LiveKept(grown, latest)
                      ELSE plot.live)
           /\ linear /\ plot.basis # OfTicks /\ live # grown =>
                 past' = past \cup Outlived(latest)
           /\ Insert(trades, live)
    <3>1. LiveArrives /\ printed' = printed \cup {tick}
      BY <1>9 DEF TickPasses
    <3> QED BY <3>1, Zenon DEF LiveArrives
  <2>2. trades = {LiveTrade(tick)}
    BY <1>7, <2>1 DEF Unheld, Holds
  <2>3. \A t \in trades : IsPrint(t)'
    BY <1>1, <1>6, <2>1, <2>2, TwoTrades DEF IsPrint
  <2>4. /\ GoodPlot(plot)' /\ Shows(plot)'
        /\ plot'.basis = plot.basis /\ plot'.live = live
        /\ \A t : Holds(plot'.raw, plot'.candles, t)
                     => Holds(plot.raw, plot.candles, t) \/ t \in trades
    BY <1>1, <2>1, <2>3, InsertIs DEF PlotInv
  <2>6. linear /\ plot.basis # OfTicks => latest \in live
    <3> SUFFICES ASSUME linear, plot.basis # OfTicks PROVE latest \in live
      OBVIOUS
    <3>1. live = LiveKept(grown, latest) /\ latest \in grown /\ plot.basis \in Steps
      BY <2>1 DEF PlotInv, GoodPlot
    <3>2. latest \in Int /\ LiveCap * plot.basis \in Nat
      BY <1>1, <2>1, <3>1, FloorIs
    <3> QED BY <3>1, <3>2 DEF LiveKept
  <2>7. ASSUME NEW at \in printed, at \notin past', linear, plot.basis # OfTicks,
               FloorTo(at, plot.basis) \in plot.live
        PROVE  FloorTo(at, plot.basis) \in live
    <3>1. live = LiveKept(grown, latest) /\ FloorTo(at, plot.basis) \in grown
            /\ plot.basis \in Steps /\ printed \subseteq Nat
      BY <2>1, <2>7 DEF PlotInv, GoodPlot, PlotBase
    <3>2. live # grown => at \notin Outlived(latest)
      BY <2>1, <2>7
    <3> QED BY <1>1, <2>1, <3>1, <3>2, LiveKeptIs
  <2>5. Apart(plot)'
    <3> SUFFICES ASSUME linear', NEW at \in printed' \ past'
                 PROVE  /\ ~(Holds(plot'.raw, plot'.candles, LiveTrade(at)')
                               /\ Holds(plot'.raw, plot'.candles, PastTrade(at)'))
                        /\ plot'.basis # OfTicks /\ Holds(plot'.raw, plot'.candles, LiveTrade(at)')
                              => FloorTo(at, plot'.basis) \in plot'.live
      BY DEF Apart
    <3>1. linear
      BY <1>1, Zenon
    <3>2. CASE at = tick
      <4>1. ~Holds(plot'.raw, plot'.candles, PastTrade(at))
        BY <1>1, <1>7, <2>2, <2>4, <3>1, <3>2, TwoTrades
      <4>2. plot.basis # OfTicks => FloorTo(at, plot.basis) \in live
        BY <1>1, <2>1, <2>6, <3>1, <3>2
      <4> QED BY <1>6, <2>4, <4>1, <4>2
    <3>3. CASE at # tick
      <4>1. at \in printed \ past
        BY <1>1, <1>2, <3>3
      <4>2. /\ ~(Holds(plot.raw, plot.candles, LiveTrade(at))
                   /\ Holds(plot.raw, plot.candles, PastTrade(at)))
            /\ plot.basis # OfTicks /\ Holds(plot.raw, plot.candles, LiveTrade(at))
                  => FloorTo(at, plot.basis) \in plot.live
        BY <3>1, <4>1 DEF PlotInv, Apart
      <4>3. LiveTrade(at) \notin trades /\ PastTrade(at) \notin trades
        BY <1>1, <2>2, <3>3, TwoTrades
      <4>4. plot.basis # OfTicks /\ FloorTo(at, plot.basis) \in plot.live
              => FloorTo(at, plot.basis) \in live
        BY <2>1, <2>7, <3>1, <4>1
      <4> QED BY <1>6, <2>4, <4>2, <4>3, <4>4
    <3> QED BY <3>2, <3>3
  <2> QED BY <1>3, <2>4, <2>5 DEF PlotInv
<1> QED BY <1>8, <1>9

(* History comes, without what came live. *)
LEMMA HistoryArrivesKeeps ==
  ASSUME PlotInv, HistoryArrives
  PROVE  PlotInv'
<1>1. /\ tick' = tick /\ printed' = printed /\ linear' = linear /\ past' = past /\ turns' = turns
      /\ linear \in BOOLEAN
  BY DEF HistoryArrives, PlotInv, PlotBase
<1>2. PICK from, to : /\ plot.basis # OfTicks
                      /\ Insert(HistoryKept(Unheld({PastTrade(at) : at \in printed \cap from .. to})),
                                plot.live)
  BY DEF HistoryArrives
<1>3. PICK trades :
         trades = HistoryKept(Unheld({PastTrade(at) : at \in printed \cap from .. to}))
  OBVIOUS
<1>4. \A t \in trades : /\ t.at \in printed /\ t = PastTrade(t.at)
                        /\ FloorTo(t.at, plot.basis) \notin plot.live
  BY <1>1, <1>3, TwoTrades DEF HistoryKept, Unheld
<1>5. \A at : LiveTrade(at)' = LiveTrade(at) /\ PastTrade(at)' = PastTrade(at)
  BY <1>1 DEF LiveTrade, PastTrade
<1>6. \A t \in trades : IsPrint(t)'
  BY <1>1, <1>4, <1>5 DEF IsPrint
<1>7. /\ GoodPlot(plot)' /\ Shows(plot)'
      /\ plot'.basis = plot.basis /\ plot'.live = plot.live
      /\ \A t : Holds(plot'.raw, plot'.candles, t)
                   => Holds(plot.raw, plot.candles, t) \/ t \in trades
  BY <1>1, <1>2, <1>3, <1>6, InsertIs DEF PlotInv
<1>8. PlotBase'
  BY <1>1 DEF PlotInv, PlotBase
<1>9. Apart(plot)'
  <2> SUFFICES ASSUME linear', NEW at \in printed' \ past'
               PROVE  /\ ~(Holds(plot'.raw, plot'.candles, LiveTrade(at)')
                             /\ Holds(plot'.raw, plot'.candles, PastTrade(at)'))
                      /\ plot'.basis # OfTicks /\ Holds(plot'.raw, plot'.candles, LiveTrade(at)')
                            => FloorTo(at, plot'.basis) \in plot'.live
    BY DEF Apart
  <2>1. linear /\ at \in printed \ past
    BY <1>1, Zenon
  <2>2. /\ ~(Holds(plot.raw, plot.candles, LiveTrade(at))
               /\ Holds(plot.raw, plot.candles, PastTrade(at)))
        /\ Holds(plot.raw, plot.candles, LiveTrade(at)) => FloorTo(at, plot.basis) \in plot.live
    BY <1>2, <2>1 DEF PlotInv, Apart
  <2>3. LiveTrade(at) \notin trades
    BY <1>1, <1>4, <2>1, TwoTrades
  <2>4. PastTrade(at) \in trades => FloorTo(at, plot.basis) \notin plot.live
    BY <1>1, <1>4, TwoTrades
  <2> QED BY <1>5, <1>7, <2>2, <2>3, <2>4
<1> QED BY <1>7, <1>8, <1>9 DEF PlotInv

(* A chart that holds no more keeps apart what it held. *)
LEMMA ApartWithNoMore ==
  ASSUME Apart(plot), linear \in BOOLEAN, linear' = linear, printed' = printed, past' = past,
         NoMore(plot, plot'), plot'.live = plot.live, plot'.basis = plot.basis
  PROVE  Apart(plot)'
<1>1. \A at : LiveTrade(at)' = LiveTrade(at) /\ PastTrade(at)' = PastTrade(at)
  BY DEF LiveTrade, PastTrade
<1> QED BY <1>1 DEF Apart, NoMore

(* A new candle shows what is in memory. *)
LEMMA CandleArrivesKeeps ==
  ASSUME PlotInv, CandleArrives
  PROVE  PlotInv'
<1>1. /\ tick' = tick /\ printed' = printed /\ linear' = linear /\ past' = past /\ turns' = turns
      /\ linear \in BOOLEAN /\ plot.basis # OfTicks
  BY DEF CandleArrives, PlotInv, PlotBase
<1>2. PICK b, here :
         /\ here = {t \in plot.raw : FloorTo(t.at, plot.basis) = b}
         /\ b \notin DOMAIN plot.candles
         /\ plot' = [plot EXCEPT !.candles =
                        [c \in DOMAIN plot.candles \cup {b} |->
                            IF c = b THEN AddTrades(EmptyBag, here) ELSE plot.candles[c]]]
  <2>1. PICK at \in 0 .. tick :
           /\ FloorTo(at, plot.basis) \notin DOMAIN plot.candles
           /\ plot' = [plot EXCEPT !.candles =
                [c \in DOMAIN plot.candles \cup {FloorTo(at, plot.basis)} |->
                    IF c = FloorTo(at, plot.basis)
                    THEN AddTrades(EmptyBag,
                            {t \in plot.raw : FloorTo(t.at, plot.basis) = FloorTo(at, plot.basis)})
                    ELSE plot.candles[c]]]
    BY DEF CandleArrives
  <2>2. PICK b : b = FloorTo(at, plot.basis)
    OBVIOUS
  <2> QED BY <2>1, <2>2, Zenon
<1>3. PICK new : new = AddTrades(EmptyBag, here)
  OBVIOUS
<1>4. new = [t \in DOMAIN new |-> 1] /\ DOMAIN new = here
  <2>1. PICK none : none = EmptyBag
    OBVIOUS
  <2>2. none = [t \in DOMAIN none |-> 1] /\ DOMAIN none = {}
    BY <2>1, EmptyIs
  <2>3. new = AddTrades(none, here)
    BY <1>3, <2>1
  <2>4. /\ DOMAIN AddTrades(none, here) = DOMAIN none \cup here
        /\ AddTrades(none, here) = [t \in DOMAIN AddTrades(none, here) |-> 1]
    BY <2>2, AddTradesIs
  <2>5. DOMAIN none \cup here = here
    BY <2>2
  <2> QED BY <2>3, <2>4, <2>5, Zenon
<1>5. PICK candles : candles = [c \in DOMAIN plot.candles \cup {b} |->
                                   IF c = b THEN new ELSE plot.candles[c]]
  OBVIOUS
<1>6. /\ DOMAIN candles = DOMAIN plot.candles \cup {b} /\ candles[b] = new
      /\ \A c \in DOMAIN plot.candles : candles[c] = plot.candles[c]
  BY <1>2, <1>5
<1>7. /\ plot'.basis = plot.basis /\ plot'.raw = plot.raw /\ plot'.candles = candles
      /\ plot'.live = plot.live
      /\ plot' = [basis |-> plot'.basis, raw |-> plot'.raw, candles |-> plot'.candles,
                  live |-> plot'.live]
  BY <1>2, <1>3, <1>5 DEF PlotInv, GoodPlot
<1>8. \A t : IsPrint(t) <=> IsPrint(t)'
  BY <1>1 DEF IsPrint, LiveTrade, PastTrade
<1>9. Footprint(plot.basis, b, new)
  BY <1>2, <1>4 DEF Footprint, PlotInv, GoodPlot
<1>10. \A c \in DOMAIN candles : Footprint(plot.basis, c, candles[c])
  BY <1>6, <1>9 DEF PlotInv, GoodPlot
<1>11. \A c \in DOMAIN plot'.candles : Footprint(plot.basis, c, plot.candles[c])'
  BY <1>7, <1>8, <1>10 DEF Footprint
<1>12. GoodPlot(plot)'
  BY <1>1, <1>7, <1>8, <1>11 DEF GoodPlot, PlotInv
<1>13. Shows(plot)'
  BY <1>1, <1>2, <1>4, <1>6, <1>7 DEF Shows, PlotInv
<1>14. NoMore(plot, plot')
  BY <1>2, <1>4, <1>6, <1>7 DEF NoMore, Holds
<1>15. Apart(plot)'
  BY <1>1, <1>7, <1>14, ApartWithNoMore DEF PlotInv
<1>16. PlotBase'
  BY <1>1 DEF PlotInv, PlotBase
<1> QED BY <1>12, <1>13, <1>15, <1>16 DEF PlotInv

(* Another basis: the candles go, and what came live under this one is remembered as past. *)
LEMMA BasisChangesKeeps ==
  ASSUME PlotInv, BasisChanges
  PROVE  PlotInv'
<1>1. /\ tick' = tick /\ printed' = printed /\ linear' = linear /\ linear \in BOOLEAN
      /\ turns' \in 0 .. MaxTurns
  BY PlotAssumption DEF BasisChanges, Turn, PlotInv, PlotBase
<1>2. PICK basis \in (Steps \cup {OfTicks}) \ {plot.basis} :
         plot' = [plot EXCEPT !.basis = basis, !.candles = <<>>,
                              !.raw = IF OfTicks \in {basis, plot.basis} THEN {} ELSE plot.raw]
  BY DEF BasisChanges
<1>3. PICK raw : raw = IF OfTicks \in {basis, plot.basis} THEN {} ELSE plot.raw
  OBVIOUS
<1>4. /\ plot'.basis = basis /\ plot'.raw = raw /\ plot'.candles = <<>>
      /\ plot'.live = plot.live
      /\ plot' = [basis |-> plot'.basis, raw |-> plot'.raw, candles |-> plot'.candles,
                  live |-> plot'.live]
  BY <1>2, <1>3 DEF PlotInv, GoodPlot
<1>5. raw \subseteq plot.raw /\ DOMAIN plot'.candles = {}
  BY <1>3, <1>4
<1>6. \A t : IsPrint(t) <=> IsPrint(t)'
  BY <1>1 DEF IsPrint, LiveTrade, PastTrade
<1>7. GoodPlot(plot)'
  BY <1>2, <1>4, <1>5, <1>6 DEF GoodPlot, PlotInv
<1>8. Shows(plot)'
  BY <1>5 DEF Shows
<1>9. past' = past \cup {t.at : t \in {u \in plot.raw : u = LiveTrade(u.at)}}
  BY DEF BasisChanges
<1>10. past' \subseteq printed'
  BY <1>1, <1>9 DEF PlotInv, PlotBase, GoodPlot, IsPrint
<1>11. \A t : Holds(plot'.raw, plot'.candles, t) => t \in plot.raw
  BY <1>4, <1>5 DEF Holds
<1>12. \A at \in printed' \ past' : LiveTrade(at) \notin plot.raw
  BY <1>1, <1>9, TwoTrades
<1>13. \A at : LiveTrade(at)' = LiveTrade(at)
  BY <1>1 DEF LiveTrade
<1>14. Apart(plot)'
  BY <1>11, <1>12, <1>13 DEF Apart
<1>15. PlotBase'
  BY <1>1, <1>10 DEF PlotInv, PlotBase
<1> QED BY <1>7, <1>8, <1>14, <1>15 DEF PlotInv

(* All trades go. *)
LEMMA PlotClearedKeeps ==
  ASSUME PlotInv, PlotCleared
  PROVE  PlotInv'
<1>1. /\ tick' = tick /\ printed' = printed /\ linear' = linear /\ past' = past
      /\ linear \in BOOLEAN /\ turns' \in 0 .. MaxTurns
  BY PlotAssumption DEF PlotCleared, Turn, PlotInv, PlotBase
<1>2. PICK candles : candles = [b \in DOMAIN plot.candles |-> EmptyBag]
  OBVIOUS
<1>3. plot' = [plot EXCEPT !.raw = {}, !.candles = candles]
  BY <1>2 DEF PlotCleared
<1>4. /\ plot'.basis = plot.basis /\ plot'.raw = {} /\ plot'.candles = candles
      /\ plot'.live = plot.live
      /\ plot' = [basis |-> plot'.basis, raw |-> plot'.raw, candles |-> plot'.candles,
                  live |-> plot'.live]
  BY <1>3 DEF PlotInv, GoodPlot
<1>5. PICK none : none = EmptyBag
  OBVIOUS
<1>6. none = [t \in DOMAIN none |-> 1] /\ DOMAIN none = {}
  BY <1>5, EmptyIs
<1>7. DOMAIN candles = DOMAIN plot.candles /\ \A b \in DOMAIN candles : candles[b] = none
  BY <1>2, <1>5
<1>8. \A b \in DOMAIN candles : Footprint(plot.basis, b, candles[b])'
  BY <1>6, <1>7 DEF Footprint
<1>9. GoodPlot(plot)'
  BY <1>4, <1>7, <1>8 DEF GoodPlot, PlotInv, Footprint
<1>10. Shows(plot)'
  BY <1>4 DEF Shows
<1>11. NoMore(plot, plot')
  BY <1>4, <1>6, <1>7 DEF NoMore, Holds
<1>12. Apart(plot)'
  BY <1>1, <1>4, <1>11, ApartWithNoMore DEF PlotInv
<1>13. PlotBase'
  BY <1>1 DEF PlotInv, PlotBase
<1> QED BY <1>9, <1>10, <1>12, <1>13 DEF PlotInv

(* PlotInv is inductive. *)
LEMMA PlotSteps == PlotInv /\ [PlotNext]_plotVars => PlotInv'
<1> SUFFICES ASSUME PlotInv, [PlotNext]_plotVars
             PROVE  PlotInv'
  OBVIOUS
<1>1. CASE TickPasses
  BY <1>1, TickPassesKeeps
<1>2. CASE HistoryArrives
  BY <1>2, HistoryArrivesKeeps
<1>3. CASE CandleArrives
  BY <1>3, CandleArrivesKeeps
<1>4. CASE BasisChanges
  BY <1>4, BasisChangesKeeps
<1>5. CASE PlotCleared
  BY <1>5, PlotClearedKeeps
<1>6. CASE UNCHANGED plotVars
  <2>1. \A t : IsPrint(t) <=> IsPrint(t)'
    BY <1>6 DEF plotVars, IsPrint, LiveTrade, PastTrade
  <2>2. GoodPlot(plot)'
    BY <1>6, <2>1 DEF plotVars, PlotInv, GoodPlot, Footprint
  <2>3. Apart(plot)'
    BY <1>6, ApartWithNoMore DEF plotVars, PlotInv, PlotBase, NoMore
  <2>4. Shows(plot)' /\ PlotBase'
    BY <1>6 DEF plotVars, PlotInv, Shows, PlotBase
  <2> QED BY <2>2, <2>3, <2>4 DEF PlotInv
<1> QED BY <1>1, <1>2, <1>3, <1>4, <1>5, <1>6 DEF PlotNext

(* No execution counts twice in the footprints of a chart, whatever came live, from the      *)
(* history, or both; excepted are those whose candle is not among the live ones any more.    *)
THEOREM NothingEverCountsTwice == PlotSpec => []NothingCountsTwice
<1>1. ASSUME PlotInv PROVE NothingCountsTwice
  <2> SUFFICES ASSUME NEW b \in DOMAIN plot.candles, NEW at \in printed
               PROVE  LET live == Copies(LiveTrade(at), plot.candles[b])
                          older == Copies(PastTrade(at), plot.candles[b])
                      IN /\ live <= 1 /\ older <= 1
                         /\ linear /\ at \notin past => live + older <= 1
    BY DEF NothingCountsTwice
  <2>1. PICK footprint : footprint = plot.candles[b]
    OBVIOUS
  <2>2. \A t \in DOMAIN footprint : footprint[t] = 1
    BY <1>1, <2>1, ZenonT(30) DEF PlotInv, GoodPlot, Footprint
  <2>3. \A t : Copies(t, footprint) \in {0, 1}
               /\ (Copies(t, footprint) = 1 => t \in DOMAIN footprint)
    BY <2>2 DEF Copies, BagIn, BagToSet
  <2>4. linear /\ at \notin past =>
           ~(LiveTrade(at) \in DOMAIN footprint /\ PastTrade(at) \in DOMAIN footprint)
    BY <1>1, <2>1 DEF PlotInv, Apart, Holds
  <2>5. linear /\ at \notin past => \/ Copies(LiveTrade(at), footprint) = 0
                                    \/ Copies(PastTrade(at), footprint) = 0
    BY <2>3, <2>4
  <2> QED BY <2>1, <2>3, <2>5
<1> QED BY <1>1, PlotStarts, PlotSteps, PTL DEF PlotSpec

(* The trades in memory are in the footprint of their candle. *)
THEOREM HeldTradesStayShown == PlotSpec => []HeldTradesAreShown
<1>1. PlotInv => HeldTradesAreShown
  BY DEF PlotInv, Shows, HeldTradesAreShown, BagIn, BagToSet
<1> QED BY <1>1, PlotStarts, PlotSteps, PTL DEF PlotSpec

(* The types of a chart's trades. *)
THEOREM PlotTypeCorrect == PlotSpec => []PlotTypeOK
<1>1. ASSUME PlotInv PROVE PlotTypeOK
  <2>1. \A b \in DOMAIN plot.candles : IsABag(plot.candles[b])
    BY <1>1 DEF PlotInv, GoodPlot, Footprint, IsABag
  <2> QED BY <1>1, <2>1 DEF PlotInv, PlotBase, GoodPlot, IsPrint, PlotTypeOK
<1> QED BY <1>1, PlotStarts, PlotSteps, PTL DEF PlotSpec

--------------------------------------------------------------------------------
(* BubbleSummaries. *)

Larger(S, e) == {f \in S : f.size > e.size}

(* The constants as numbers. *)
LEMMA BubbleConstants ==
    /\ CandleSpan \in Nat \ {0} /\ AskSpan \in Nat \ {0}
    /\ LastCandle \in Nat /\ MaxJobs \in Nat /\ MaxUpsets \in Nat /\ CandleSpan <= LastCandle
    /\ IsFiniteSet(Executions)
    /\ \A e \in Executions : e.at \in 0 .. LastCandle /\ e.size \in Nat
BY BubbleAssumption

(* The larger ones can be counted. *)
LEMMA LargerCounted ==
  ASSUME NEW S, S \subseteq Executions, NEW e
  PROVE  /\ Larger(S, e) \subseteq S /\ IsFiniteSet(Larger(S, e))
         /\ Cardinality(Larger(S, e)) \in Nat
<1>1. Larger(S, e) \subseteq S
  BY DEF Larger
<1>2. IsFiniteSet(Larger(S, e))
  BY <1>1, BubbleConstants, FS_Subset
<1> QED BY <1>1, <1>2, FS_CardinalityType

(* Of more executions, there are no fewer larger ones. *)
LEMMA LargerGrows ==
  ASSUME NEW S, NEW T, S \subseteq T, T \subseteq Executions, NEW e
  PROVE  Cardinality(Larger(S, e)) <= Cardinality(Larger(T, e))
<1>1. Larger(S, e) \subseteq Larger(T, e)
  BY DEF Larger
<1> QED BY <1>1, LargerCounted, FS_Subset

(* What a summary accounts for, a larger one does. *)
LEMMA AccountsGrows ==
  ASSUME NEW S, NEW T, S \subseteq T, T \subseteq Executions, NEW n \in Nat, NEW e, Accounts(S, n, e)
  PROVE  Accounts(T, n, e)
<1>1. CASE e \in S
  BY <1>1 DEF Accounts
<1>2. CASE Cardinality(Larger(S, e)) >= n
  <2>1. Cardinality(Larger(S, e)) \in Nat /\ Cardinality(Larger(T, e)) \in Nat
    BY LargerCounted
  <2>2. Cardinality(Larger(T, e)) >= n
    BY <1>2, <2>1, LargerGrows
  <2> QED BY <2>2 DEF Accounts, Larger
<1> QED BY <1>1, <1>2 DEF Accounts, Larger

(* A summary that accounts for something has something. *)
LEMMA AccountsForSome ==
  ASSUME NEW S, NEW n \in Nat \ {0}, NEW e, Accounts(S, n, e)
  PROVE  S # {}
<1> SUFFICES ASSUME S = {}
             PROVE  FALSE
  OBVIOUS
<1>1. Larger(S, e) = {}
  BY DEF Larger
<1>2. Cardinality(Larger(S, e)) = 0
  BY <1>1, FS_EmptySet
<1> QED BY <1>2 DEF Accounts, Larger

(* The largest of what accounts for an execution account for it. *)
LEMMA LargestAccounts ==
  ASSUME NEW U, U \subseteq Executions, NEW n \in Nat \ {0}, NEW e \in Executions, Accounts(U, n, e)
  PROVE  Accounts(Largest(n, U), n, e)
<1> DEFINE L == Largest(n, U)
<1>1. /\ L \subseteq U
      /\ \A g \in U : g \in L <=> Cardinality(Larger(U, g)) < n
  BY DEF Largest, Larger
<1> HIDE DEF L
<1>2. CASE Cardinality(Larger(U, e)) < n
  <2>1. Cardinality(Larger(U, e)) \in Nat
    BY LargerCounted
  <2>2. e \in U
    BY <1>2, <2>1 DEF Accounts, Larger
  <2> QED BY <1>1, <1>2, <2>2 DEF Accounts, L
<1>3. CASE ~(Cardinality(Larger(U, e)) < n)
  <2>1. /\ IsFiniteSet(Larger(U, e)) /\ Cardinality(Larger(U, e)) \in Nat
        /\ IsFiniteSet(Larger(L, e)) /\ Cardinality(Larger(L, e)) \in Nat
    BY <1>1, LargerCounted
  <2>2. SUFFICES ASSUME Cardinality(Larger(L, e)) < n
                 PROVE  FALSE
    BY <2>1 DEF Accounts, Larger, L
  <2> DEFINE B == Larger(U, e) \ L
  <2>3. B # {}
    <3> SUFFICES ASSUME B = {}
                 PROVE  FALSE
      OBVIOUS
    <3>1. Larger(U, e) \subseteq Larger(L, e)
      BY DEF Larger
    <3>2. Cardinality(Larger(U, e)) <= Cardinality(Larger(L, e))
      BY <2>1, <3>1, FS_Subset
    <3> QED BY <1>3, <2>1, <2>2, <3>2
  <2> DEFINE T == {Cardinality(Larger(U, g)) : g \in B}
  <2>4. T \subseteq Nat /\ T # {}
    BY <2>3, LargerCounted
  <2>5. PICK x \in T : \A y \in T : x <= y
    <3> HIDE DEF T
    <3> QED BY <2>4, LeastNat
  <2>6. PICK g \in B : /\ g \in U /\ g.size > e.size /\ g \notin L
                       /\ \A h \in B : Cardinality(Larger(U, g)) <= Cardinality(Larger(U, h))
    <3>1. PICK g \in B : x = Cardinality(Larger(U, g))
      OBVIOUS
    <3>2. \A h \in B : Cardinality(Larger(U, g)) <= Cardinality(Larger(U, h))
      BY <2>5, <3>1
    <3>3. g \in Larger(U, e) /\ g \notin L
      OBVIOUS
    <3>4. g \in U /\ g.size > e.size
      BY <3>3 DEF Larger
    <3> HIDE DEF B
    <3> QED BY <3>2, <3>3, <3>4
  <2>7. \A h \in U : h.size \in Nat
    BY BubbleConstants
  <2>8. \A h \in Larger(U, g) : h \in Larger(L, e)
    <3> SUFFICES ASSUME NEW h \in Larger(U, g), h \notin L
                 PROVE  FALSE
      BY <2>6, <2>7, BubbleConstants DEF Larger
    <3>1. h \in B
      BY <2>6, <2>7, BubbleConstants DEF Larger
    <3>2. Larger(U, h) \subseteq Larger(U, g) /\ h \notin Larger(U, h)
      BY <2>6, <2>7 DEF Larger
    <3>3. IsFiniteSet(Larger(U, g)) /\ Cardinality(Larger(U, g)) \in Nat
          /\ Cardinality(Larger(U, h)) \in Nat
      BY LargerCounted
    <3>4. Larger(U, h) # Larger(U, g)
      BY <3>2
    <3>5. Cardinality(Larger(U, h)) < Cardinality(Larger(U, g))
      BY <3>2, <3>3, <3>4, FS_Subset
    <3>6. Cardinality(Larger(U, g)) <= Cardinality(Larger(U, h))
      BY <2>6, <3>1
    <3> QED BY <3>3, <3>5, <3>6
  <2>9. Cardinality(Larger(U, g)) <= Cardinality(Larger(L, e))
    BY <2>1, <2>8, FS_Subset
  <2>10. ~(Cardinality(Larger(U, g)) < n) /\ Cardinality(Larger(U, g)) \in Nat
    BY <1>1, <2>6, LargerCounted
  <2> QED BY <2>1, <2>2, <2>9, <2>10
<1> QED BY <1>2, <1>3

(* A multiple leaves no remainder. *)
LEMMA MultipleLeavesNothing ==
  ASSUME NEW s \in Nat \ {0}, NEW k \in Nat
  PROVE  (s * k) % s = 0
<1>1. PICK x \in Nat : x = s * k
  OBVIOUS
<1>2. PICK q \in Int, r \in 0 .. s - 1 : x = s * q + r /\ r = x % s
  OBVIOUS
<1>3. s * (k - q) = r
  <2>1. s * (k - q) = s * k - s * q
    OBVIOUS
  <2>2. s * k \in Int /\ s * q \in Int
    OBVIOUS
  <2>3. s * k = s * q + r
    BY <1>1, <1>2
  <2> QED BY <2>1, <2>2, <2>3
<1>4. PICK d \in Int : d = k - q
  OBVIOUS
<1>5. s * d = r
  BY <1>3, <1>4
<1>6. CASE d >= 1
  <2>1. s * d >= s
    BY <1>6
  <2> QED BY <1>5, <2>1
<1>7. CASE d <= -1
  <2>1. s * d <= -s
    BY <1>7
  <2> QED BY <1>5, <2>1
<1>8. CASE d = 0
  <2>1. s * d = 0
    BY <1>8
  <2>2. x % s = 0
    BY <1>2, <1>5, <2>1
  <2> QED BY <1>1, <2>2, Zenon
<1> QED BY <1>6, <1>7, <1>8

(* A candle begins no later than a point in it, and ends after it. *)
LEMMA CandleBegins ==
  ASSUME NEW at \in Nat
  PROVE  /\ Candle(at) \in Nat /\ Candle(at) <= at /\ at <= Candle(at) + (CandleSpan - 1)
         /\ \E k \in Nat : Candle(at) = CandleSpan * k
<1>1. PICK s \in Nat \ {0} : s = CandleSpan
  BY BubbleConstants
<1>2. PICK q \in Nat, r \in 0 .. s - 1 : at = s * q + r /\ r = at % s
  OBVIOUS
<1>3. Candle(at) = s * q
  BY <1>1, <1>2 DEF Candle
<1>4. PICK c \in Nat : c = s * q
  OBVIOUS
<1>5. Candle(at) = c /\ at = c + r
  BY <1>2, <1>3, <1>4
<1>6. Candle(at) = CandleSpan * q
  BY <1>1, <1>3, Zenon
<1>7. Candle(at) \in Nat /\ Candle(at) <= at /\ at <= Candle(at) + (CandleSpan - 1)
  BY <1>1, <1>2, <1>5
<1> QED BY <1>6, <1>7

(* The candle after a candle. *)
LEMMA NextCandle ==
  /\ CandleSpan \in Candles
  /\ \A c \in Candles : c \in 0 .. LastCandle
  /\ \A c \in Candles : c + CandleSpan <= LastCandle => c + CandleSpan \in Candles
<1>1. PICK s \in Nat \ {0} : s = CandleSpan /\ s <= LastCandle
  BY BubbleConstants
<1>2. \A k \in Nat : s * k <= LastCandle => s * k \in Candles
  <2> SUFFICES ASSUME NEW k \in Nat, s * k <= LastCandle
               PROVE  s * k \in Candles
    OBVIOUS
  <2>1. (s * k) % s = 0 /\ s * k \in Nat
    BY MultipleLeavesNothing
  <2>2. PICK x \in Nat : x = s * k
    BY <2>1
  <2>3. Candle(x) = x /\ x \in 0 .. LastCandle
    BY <1>1, <2>1, <2>2, BubbleConstants DEF Candle
  <2>4. x \in Candles
    BY <2>3 DEF Candles
  <2> QED BY <2>2, <2>4
<1>3. CandleSpan \in Candles
  <2>1. s * 1 = s
    OBVIOUS
  <2> QED BY <1>1, <1>2, <2>1
<1>4. \A c \in Candles : c \in 0 .. LastCandle /\ \E k \in Nat : c = s * k
  <2> SUFFICES ASSUME NEW c \in Candles
               PROVE  c \in 0 .. LastCandle /\ \E k \in Nat : c = s * k
    OBVIOUS
  <2>1. PICK at \in 0 .. LastCandle : c = Candle(at)
    BY DEF Candles
  <2>2. at \in Nat /\ at <= LastCandle /\ LastCandle \in Nat
    BY BubbleConstants
  <2>3. c \in Nat /\ c <= at
    BY <2>1, <2>2, CandleBegins
  <2>4. PICK k \in Nat : Candle(at) = CandleSpan * k
    BY <2>2, CandleBegins
  <2>5. c = s * k
    BY <1>1, <2>1, <2>4, Zenon
  <2> QED BY <2>2, <2>3, <2>5
<1>5. ASSUME NEW c \in Candles, c + CandleSpan <= LastCandle
      PROVE  c + CandleSpan \in Candles
  <2>1. PICK k \in Nat : c = s * k
    BY <1>4
  <2>2. s * (k + 1) = s * k + s
    OBVIOUS
  <2>3. c + CandleSpan = s * (k + 1)
    BY <1>1, <2>1, <2>2, Zenon
  <2>4. s * (k + 1) <= LastCandle /\ k + 1 \in Nat
    BY <1>5, <2>3
  <2> QED BY <1>2, <2>3, <2>4, Zenon
<1> QED BY <1>3, <1>4, <1>5

(* An execution has a candle. *)
LEMMA CandleOfExecution ==
  ASSUME NEW e \in Executions
  PROVE  Candle(e.at) \in Candles
BY BubbleConstants DEF Candles

(* A range that has an execution reads its candle. *)
LEMMA RangeReadsCandle ==
  ASSUME NEW from \in Nat, NEW to \in Nat, NEW at \in from .. to
  PROVE  Candle(at) \in ReadFrom(from) .. to
<1>1. /\ Candle(at) \in Nat /\ Candle(at) <= at /\ at <= Candle(at) + (CandleSpan - 1)
      /\ CandleSpan \in Nat \ {0}
  BY CandleBegins, BubbleConstants
<1>2. PICK c \in Nat : c = Candle(at)
  BY <1>1
<1> QED BY <1>1, <1>2 DEF ReadFrom

(* What summaries are. *)
Summaries == [Candles -> SUBSET Executions]

(* What is summarised, merged and inserted are summaries. *)
LEMMA SummariesAreSets ==
  ASSUME NEW n, NEW s \in Summaries, NEW executions \in SUBSET Executions
  PROVE  /\ Summarised(n, executions) \in Summaries
         /\ \A t \in Summaries : Merged(n, s, t) \in Summaries /\ InsertedSummaries(s, t) \in Summaries
         /\ NoBubbles \in Summaries
BY DEF Summaries, Summarised, Merged, InsertedSummaries, NoBubbles, Largest

(* A worker's answer accounts for what it fetched and for what the cached part accounts for. *)
LEMMA AnswerAccounts ==
  ASSUME NEW job, job.keep \in Keeps, job.cached \in Summaries,
         NEW fetched \in SUBSET Executions, NEW e \in Executions,
         e \in fetched \/ Accounts(job.cached[Candle(e.at)], job.keep, e)
  PROVE  /\ AnswerOf(job, fetched) \in Summaries
         /\ Accounts(AnswerOf(job, fetched)[Candle(e.at)], job.keep, e)
         /\ AnswerOf(job, fetched)[Candle(e.at)] # {}
<1>1. PICK n \in Nat \ {0} : n = job.keep
  BY DEF Keeps
<1>2. PICK c \in Candles : c = Candle(e.at)
  BY CandleOfExecution
<1>3. PICK s \in Summaries : s = Summarised(n, fetched)
  BY SummariesAreSets
<1>4. PICK here \in SUBSET Executions : here = {f \in fetched : Candle(f.at) = c}
  OBVIOUS
<1>5. s[c] = Largest(n, here)
  BY <1>2, <1>3, <1>4 DEF Summarised
<1>6. PICK old \in SUBSET Executions : old = job.cached[c]
  BY <1>2 DEF Summaries
<1>7. PICK all \in SUBSET Executions : all = old \cup s[c]
  BY DEF Summaries
<1>8. Accounts(all, n, e)
  <2>1. CASE e \in fetched
    <3>1. Accounts(here, n, e)
      BY <1>2, <1>4, <2>1 DEF Accounts
    <3>2. Accounts(s[c], n, e)
      BY <1>5, <3>1, LargestAccounts
    <3> QED BY <1>7, <3>2, AccountsGrows
  <2>2. CASE Accounts(job.cached[Candle(e.at)], job.keep, e)
    <3>1. Accounts(old, n, e)
      BY <1>1, <1>2, <1>6, <2>2
    <3> QED BY <1>7, <3>1, AccountsGrows
  <2> QED BY <2>1, <2>2
<1>9. PICK answer \in Summaries : answer = AnswerOf(job, fetched)
  BY SummariesAreSets, <1>1, <1>3 DEF AnswerOf
<1>10. answer[c] = Largest(n, all)
  BY <1>1, <1>3, <1>6, <1>7, <1>9 DEF AnswerOf, Merged
<1>11. Accounts(answer[c], n, e)
  BY <1>8, <1>10, LargestAccounts
<1>12. answer[c] # {}
  BY <1>11, AccountsForSome
<1> QED BY <1>1, <1>2, <1>9, <1>11, <1>12

(* What the state is made of. *)
Stops == 0 .. LastCandle

BubbleJobs == [from : Stops, to : Stops, keep : Keeps, superseded : BOOLEAN, dated : BOOLEAN,
               cached : Summaries, gaps : SUBSET Stops]

Caches == [coverage : SUBSET Stops, summaries : Summaries, torn : SUBSET Executions]

Panels == [keep : Keeps, covered : SUBSET Stops, shown : Summaries]

BubbleBase ==
    /\ until \in Candles
    /\ panel \in Panels /\ panel.covered \subseteq 0 .. (until - 1)
    /\ jobs \subseteq BubbleJobs /\ IsFiniteSet(jobs) /\ Cardinality(jobs) <= MaxJobs
    /\ \A j \in jobs : j.from < j.to /\ j.to <= until /\ j.gaps \subseteq j.from .. j.to
    /\ store \in [Keeps -> Caches]
    /\ doubt \subseteq Executions /\ upsets \in 0 .. MaxUpsets

(* What a cache of n bubbles covers, and has not lost, it accounts for. *)
CacheHolds(s, n) ==
    \A e \in Executions :
       e.at \in s.coverage /\ e \notin s.torn => Accounts(s.summaries[Candle(e.at)], n, e)

(* What of its chunk a worker read from the cache. *)
Read(j) == (j.from .. j.to) \ j.gaps

(* What a worker read, the cache still covers, and the worker has it, if its answer counts. *)
JobIsRight(j, p, st, d) ==
    ~j.superseded =>
       /\ Read(j) \subseteq st[j.keep].coverage
       /\ ~j.dated => /\ j.keep = p.keep
                      /\ \A e \in Executions : e.at \in Read(j) /\ e \notin d
                            => Accounts(j.cached[Candle(e.at)], j.keep, e)

(* What the chart covers, and has not lost, it shows, and the cache covers it, too. *)
PanelIsRight(p, s, d) ==
    \A e \in Executions :
       e.at \in p.covered /\ e \notin d =>
          /\ Accounts(p.shown[Candle(e.at)], p.keep, e)
          /\ e.at \in s.coverage

BubbleInv ==
    /\ BubbleBase
    /\ \A n \in Keeps : CacheHolds(store[n], n)
    /\ \A j \in jobs : JobIsRight(j, panel, store, doubt)
    /\ PanelIsRight(panel, store[panel.keep], doubt)

(* The least and the greatest of two numbers. *)
LEMMA LeastAndGreatest ==
  ASSUME NEW a \in Nat, NEW b \in Nat
  PROVE  Min({a, b}) = (IF a <= b THEN a ELSE b) /\ Max({a, b}) = IF a <= b THEN b ELSE a
BY DEF Min, Max

(* What a worker brings for its gaps lies in them, and it verifies what it brings. *)
AnswerFits(job, fetched, verified) ==
    /\ fetched \subseteq Executions /\ \A e \in fetched : e.at \in job.gaps
    /\ UNION verified \subseteq Stops
    /\ \A e \in Executions : e.at \in UNION verified => e \in fetched

(* The answers of the model fit. *)
LEMMA AnswersFit ==
  ASSUME NEW job \in BubbleJobs, NEW end \in [GapRanges(job.gaps) -> 0 .. LastCandle],
         \A r \in GapRanges(job.gaps) : end[r] \in Ends(r)
  PROVE  AnswerFits(job, FetchedOf(job.gaps, end), VerifiedOf(job.gaps, end))
<1>1. PICK gaps \in SUBSET Stops : gaps = job.gaps
  BY DEF BubbleJobs
<1>2. \A r \in GapRanges(gaps) :
         /\ r[1] \in Nat /\ r[2] \in Nat /\ r[1] <= r[2] /\ r[1] .. r[2] \subseteq gaps
         /\ end[r] \in Nat /\ end[r] \in Ends(r)
  BY <1>1, BubbleConstants DEF GapRanges, Stops
<1>3. ASSUME NEW r \in GapRanges(gaps)
      PROVE  /\ \A e \in GapFetched(r, end[r]) : e \in Executions /\ e.at \in gaps
             /\ Verified(r, end[r]) \subseteq gaps
             /\ \A e \in Executions : e.at \in Verified(r, end[r]) => e \in GapFetched(r, end[r])
  <2>1. PICK a \in Nat, b \in Nat, m \in Nat : a = r[1] /\ b = r[2] /\ m = end[r]
    BY <1>2, <1>3
  <2>2. a <= b /\ a .. b \subseteq gaps
    BY <1>2, <1>3, <2>1
  <2>3. m > a => a # b
    BY <1>2, <1>3, <2>1 DEF Ends
  <2>4. PICK last \in Nat : last = Min({b, m}) /\ last = IF b <= m THEN b ELSE m
    BY LeastAndGreatest
  <2>5. GapFetched(r, m) = IF a = b THEN {} ELSE {e \in Executions : e.at \in a .. last}
    BY <2>1, <2>4 DEF GapFetched, Between
  <2>6. Verified(r, m) = IF m > a THEN a .. last ELSE {}
    BY <2>1, <2>4 DEF Verified
  <2>7. a .. last \subseteq gaps
    BY <2>2, <2>4
  <2> QED BY <2>1, <2>3, <2>5, <2>6, <2>7
<1>4. /\ FetchedOf(gaps, end) = UNION {GapFetched(r, end[r]) : r \in GapRanges(gaps)}
      /\ VerifiedOf(gaps, end) = {Verified(r, end[r]) : r \in GapRanges(gaps)}
  BY DEF FetchedOf, VerifiedOf
<1>5. /\ FetchedOf(gaps, end) \subseteq Executions
      /\ \A e \in FetchedOf(gaps, end) : e.at \in gaps
  BY <1>3, <1>4
<1>6. UNION VerifiedOf(gaps, end) \subseteq Stops
  BY <1>3, <1>4
<1>7. \A e \in Executions : e.at \in UNION VerifiedOf(gaps, end) => e \in FetchedOf(gaps, end)
  BY <1>3, <1>4
<1> QED BY <1>1, <1>5, <1>6, <1>7, Zenon DEF AnswerFits

(* What a store keeps of the cache, and what it adds to it. *)
LEMMA StoreKeeps ==
  ASSUME BubbleBase, NEW job \in jobs, NEW fetched, NEW verified,
         AnswerFits(job, fetched, verified),
         NEW summaries, summaries = AnswerOf(job, fetched),
         NEW old, old = store[job.keep],
         NEW new, new = StoredSummaries(old, verified, summaries, Replaced(job, summaries, fetched))
  PROVE  /\ new \in Caches
         /\ old.coverage \subseteq new.coverage /\ old.torn \subseteq new.torn
         /\ new.coverage \subseteq old.coverage \cup UNION verified
         /\ \A e \in fetched : e.at \in UNION verified =>
               e.at \in new.coverage /\ Accounts(new.summaries[Candle(e.at)], job.keep, e)
         /\ \A e \in Executions :
               /\ e.at \in old.coverage /\ e \notin new.torn
               /\ Accounts(old.summaries[Candle(e.at)], job.keep, e)
               => Accounts(new.summaries[Candle(e.at)], job.keep, e)
<1>1. /\ job.keep \in Keeps /\ job.cached \in Summaries /\ job.gaps \subseteq Stops
      /\ old \in Caches /\ fetched \in SUBSET Executions /\ summaries \in Summaries
  <2>1. job.keep \in Keeps /\ job.cached \in Summaries /\ job.gaps \subseteq Stops
    BY DEF BubbleBase, BubbleJobs
  <2>2. old \in Caches
    BY <2>1 DEF BubbleBase
  <2>3. fetched \in SUBSET Executions
    BY DEF AnswerFits
  <2>4. AnswerOf(job, fetched) \in Summaries
    BY <2>1, <2>3, SummariesAreSets DEF AnswerOf
  <2> QED BY <2>1, <2>2, <2>3, <2>4
<1>2. PICK filled, written, replaced :
         /\ filled = FilledRanges(verified, summaries) /\ written = Written(verified, summaries)
         /\ replaced = Replaced(job, summaries, fetched)
  OBVIOUS
<1>3. /\ new = [coverage |-> old.coverage \cup UNION filled,
                summaries |-> [c \in Candles |-> IF c \in written THEN summaries[c]
                                                 ELSE old.summaries[c]],
                torn |-> old.torn \cup {e \in replaced : Candle(e.at) \in written}]
  BY <1>2 DEF StoredSummaries
<1>4. /\ new.coverage = old.coverage \cup UNION filled
      /\ new.torn = old.torn \cup {e \in replaced : Candle(e.at) \in written}
      /\ \A c \in Candles : new.summaries[c] = IF c \in written THEN summaries[c]
                                               ELSE old.summaries[c]
  BY <1>3
<1>5. UNION filled \subseteq UNION verified /\ UNION verified \subseteq Stops
  BY <1>2 DEF FilledRanges, AnswerFits
<1>6. replaced \subseteq Executions
  BY <1>2 DEF Replaced
<1>7. new.coverage \subseteq Stops /\ new.torn \subseteq Executions
  BY <1>1, <1>4, <1>5, <1>6 DEF Caches
<1>8. new.summaries \in Summaries
  BY <1>1, <1>3 DEF Caches, Summaries
<1>9. new \in Caches
  BY <1>3, <1>7, <1>8 DEF Caches
<1>10. ASSUME NEW e \in Executions, Accounts(summaries[Candle(e.at)], job.keep, e)
       PROVE  summaries[Candle(e.at)] # {}
  <2>1. job.keep \in Nat \ {0}
    BY <1>1 DEF Keeps
  <2> QED BY <1>10, <2>1, AccountsForSome
<1>11. ASSUME NEW e \in fetched, e.at \in UNION verified
       PROVE  e.at \in new.coverage /\ Accounts(new.summaries[Candle(e.at)], job.keep, e)
  <2>1. /\ Accounts(summaries[Candle(e.at)], job.keep, e) /\ summaries[Candle(e.at)] # {}
        /\ e \in Executions
    BY <1>1, <1>11, AnswerAccounts
  <2>2. PICK r \in verified : e.at \in r
    BY <1>11
  <2>3. Candle(e.at) \in Touched(r)
    BY <2>2 DEF Touched
  <2>4. r \in filled /\ Candle(e.at) \in written
    BY <1>2, <2>1, <2>3 DEF FilledRanges, Written
  <2>5. Candle(e.at) \in Candles
    BY <2>1, CandleOfExecution
  <2>6. new.summaries[Candle(e.at)] = summaries[Candle(e.at)]
    BY <1>4, <2>4, <2>5
  <2> QED BY <1>4, <2>1, <2>2, <2>4, <2>6
<1>12. ASSUME NEW e \in Executions, e.at \in old.coverage, e \notin new.torn,
              Accounts(old.summaries[Candle(e.at)], job.keep, e)
       PROVE  Accounts(new.summaries[Candle(e.at)], job.keep, e)
  <2>1. PICK c \in Candles : c = Candle(e.at)
    BY CandleOfExecution
  <2>2. CASE c \notin written
    <3>1. new.summaries[c] = old.summaries[c]
      BY <1>4, <2>2
    <3> QED BY <1>12, <2>1, <3>1
  <2>3. CASE c \in written
    <3>1. new.summaries[c] = summaries[c]
      BY <1>4, <2>3
    <3>2. summaries[c] # {}
      BY <1>2, <2>3 DEF Written
    <3>3. e \notin replaced
      BY <1>4, <1>12, <2>1, <2>3
    <3>4. e \in fetched \/ old.summaries[c] = job.cached[c]
      BY <1>2, <1>12, <2>1, <3>2, <3>3 DEF Replaced
    <3>5. e \in fetched \/ Accounts(job.cached[Candle(e.at)], job.keep, e)
      BY <1>12, <2>1, <3>4
    <3>6. Accounts(summaries[Candle(e.at)], job.keep, e)
      BY <1>1, <3>5, AnswerAccounts
    <3> QED BY <2>1, <3>1, <3>6
  <2> QED BY <2>2, <2>3
<1> QED BY <1>4, <1>5, <1>9, <1>11, <1>12

(* The chart asks for a chunk of what has closed. *)
LEMMA ChunkIsPast ==
  ASSUME BubbleBase, Uncovered # {}
  PROVE  /\ AskFrom \in Stops /\ GapTop \in Stops /\ AskFrom < GapTop /\ GapTop <= until
         /\ AskFrom .. (GapTop - 1) \subseteq 0 .. (until - 1)
<1>1. PICK u \in Nat : u = until /\ u <= LastCandle
  BY NextCandle DEF BubbleBase
<1>2. PICK open : open = Uncovered /\ open \subseteq 0 .. u /\ open \subseteq 0 .. (u - 1) /\ open # {}
  <2>1. Uncovered \subseteq 0 .. (u - 1)
    BY <1>1 DEF Uncovered
  <2>2. 0 .. (u - 1) \subseteq 0 .. u
    OBVIOUS
  <2> QED BY <2>1, <2>2
<1>3. PICK top \in open : top = Max(open)
  <2>1. \E x \in open : \A y \in open : x >= y
    BY <1>2, GreatestNat
  <2> QED BY <2>1 DEF Max
<1>4. PICK low \in open : low = GapStart /\ low <= top
  <2> DEFINE starts == {p \in open : p .. (GapTop - 1) \subseteq open}
  <2>1. GapTop - 1 = top
    BY <1>2, <1>3 DEF GapTop
  <2>2. top \in starts /\ starts \subseteq Nat
    <3>1. top \in Nat /\ open \subseteq Nat
      BY <1>2
    <3>2. \A x \in top .. top : x = top
      BY <3>1
    <3>3. top .. top \subseteq open
      BY <3>2, Zenon
    <3> QED BY <2>1, <3>1, <3>3, Zenon
  <2>3. \E x \in starts : \A y \in starts : x <= y
    <3> HIDE DEF starts
    <3> QED BY <2>2, LeastNat
  <2>4. PICK least \in starts : least = Min(starts) /\ least <= top
    <3> HIDE DEF starts
    <3> QED BY <2>2, <2>3 DEF Min
  <2>5. GapStart = least
    BY <1>2, <2>4, Zenon DEF GapStart
  <2> QED BY <2>4, <2>5
<1>5. GapTop = top + 1
  BY <1>2, <1>3 DEF GapTop
<1>6. PICK back \in Nat : back = (IF GapTop < AskSpan THEN 0 ELSE GapTop - AskSpan) /\ back <= top
  BY <1>2, <1>3, <1>5, BubbleConstants
<1>7. AskFrom = IF low <= back THEN back ELSE low
  BY <1>2, <1>4, <1>6, LeastAndGreatest DEF AskFrom
<1> QED BY <1>1, <1>2, <1>3, <1>4, <1>5, <1>6, <1>7, BubbleConstants DEF Stops

(* Setting a field of every worker leaves no more of them. *)
LEMMA ImageOfJobs ==
  ASSUME NEW f \in [jobs -> BubbleJobs], BubbleBase, NEW image, image = {f[j] : j \in jobs}
  PROVE  /\ image \subseteq BubbleJobs /\ IsFiniteSet(image) /\ Cardinality(image) <= MaxJobs
<1>1. f \in Surjection(jobs, image) /\ image \subseteq BubbleJobs
  BY DEF Surjection
<1>2. IsFiniteSet(image) /\ Cardinality(image) <= Cardinality(jobs)
  BY <1>1, FS_Surjection DEF BubbleBase
<1>3. Cardinality(image) \in Nat /\ Cardinality(jobs) \in Nat
  BY <1>2, FS_CardinalityType DEF BubbleBase
<1> QED BY <1>1, <1>2, <1>3, BubbleConstants DEF BubbleBase

(* A worker that goes. *)
LEMMA JobGoes ==
  ASSUME BubbleBase, NEW job \in jobs
  PROVE  /\ jobs \ {job} \subseteq BubbleJobs /\ IsFiniteSet(jobs \ {job})
         /\ Cardinality(jobs \ {job}) <= MaxJobs
<1>1. IsFiniteSet(jobs \ {job}) /\ Cardinality(jobs \ {job}) = Cardinality(jobs) - 1
  BY FS_RemoveElement DEF BubbleBase
<1>2. Cardinality(jobs) \in Nat
  BY FS_CardinalityType DEF BubbleBase
<1> QED BY <1>1, <1>2, BubbleConstants DEF BubbleBase

(* The first state. *)
LEMMA BubblesStart == BubbleInit => BubbleInv
<1> SUFFICES ASSUME BubbleInit
             PROVE  BubbleInv
  OBVIOUS
<1>1. NoBubbles \in Summaries
  BY DEF NoBubbles, Summaries
<1>2. IsFiniteSet(jobs) /\ Cardinality(jobs) = 0
  BY FS_EmptySet DEF BubbleInit
<1>3. store \in [Keeps -> Caches]
  BY <1>1 DEF BubbleInit, Caches
<1>4. panel \in Panels /\ panel.covered = {}
  BY <1>1 DEF BubbleInit, Panels, Keeps
<1>5. BubbleBase
  <2>1. /\ until \in Candles /\ Cardinality(jobs) <= MaxJobs
        /\ jobs = {} /\ doubt = {} /\ upsets \in 0 .. MaxUpsets
    BY <1>2, NextCandle, BubbleConstants DEF BubbleInit
  <2> QED BY <1>2, <1>3, <1>4, <2>1 DEF BubbleBase
<1>6. \A n \in Keeps : CacheHolds(store[n], n)
  BY DEF BubbleInit, CacheHolds
<1>7. PanelIsRight(panel, store[panel.keep], doubt)
  BY <1>4 DEF PanelIsRight
<1> QED BY <1>5, <1>6, <1>7 DEF BubbleInv, BubbleInit

(* A candle closes. *)
LEMMA CandleClosesKeeps ==
  ASSUME BubbleInv, CandleCloses
  PROVE  BubbleInv'
<1>1. until \in Candles /\ until \in Nat /\ CandleSpan \in Nat
  <2>1. until \in Candles
    BY DEF BubbleInv, BubbleBase
  <2>2. until \in 0 .. LastCandle
    BY <2>1, NextCandle
  <2> QED BY <2>1, <2>2, BubbleConstants
<1>2. until' \in Candles /\ until' = until + CandleSpan
  BY <1>1, NextCandle DEF CandleCloses
<1>3. panel.covered \subseteq 0 .. (until' - 1)
  BY <1>1, <1>2 DEF BubbleInv, BubbleBase
<1>4. UNCHANGED <<panel, jobs, store, doubt, upsets>>
  BY DEF CandleCloses
<1>5. \A j \in jobs : j.to <= until'
  <2>1. \A j \in jobs : j.to \in Nat /\ j.to <= until
    BY BubbleConstants DEF BubbleInv, BubbleBase, BubbleJobs, Stops
  <2> QED BY <1>1, <1>2, <2>1
<1>6. BubbleBase'
  BY <1>2, <1>3, <1>4, <1>5 DEF BubbleInv, BubbleBase
<1> QED BY <1>4, <1>6 DEF BubbleInv, CacheHolds, JobIsRight, PanelIsRight, Read

(* A worker fails. *)
LEMMA JobFailsKeeps ==
  ASSUME BubbleInv, NEW job \in jobs, JobFails(job)
  PROVE  BubbleInv'
<1>1. UNCHANGED <<until, panel, store, doubt, upsets>> /\ jobs' = jobs \ {job}
  BY DEF JobFails
<1>2. /\ jobs' \subseteq BubbleJobs /\ IsFiniteSet(jobs') /\ Cardinality(jobs') <= MaxJobs
  BY <1>1, JobGoes DEF BubbleInv
<1>3. BubbleBase'
  BY <1>1, <1>2 DEF BubbleInv, BubbleBase
<1> QED BY <1>1, <1>3 DEF BubbleInv, CacheHolds, JobIsRight, PanelIsRight, Read

(* The settings change. *)
LEMMA KeepChangesKeeps ==
  ASSUME BubbleInv, KeepChanges
  PROVE  BubbleInv'
<1>1. /\ upsets' \in 0 .. MaxUpsets /\ UNCHANGED <<until, store, doubt>>
      /\ panel' = [keep |-> 3 - panel.keep, covered |-> {}, shown |-> NoBubbles]
      /\ jobs' = {[j EXCEPT !.dated = TRUE] : j \in jobs}
  BY BubbleConstants DEF KeepChanges, Upset, BubbleInv, BubbleBase
<1>2. PICK f : f = [j \in jobs |-> [j EXCEPT !.dated = TRUE]]
  OBVIOUS
<1>3. f \in [jobs -> BubbleJobs]
  <2>1. \A j \in BubbleJobs : [j EXCEPT !.dated = TRUE] \in BubbleJobs
    BY DEF BubbleJobs
  <2>2. \A j \in jobs : [j EXCEPT !.dated = TRUE] \in BubbleJobs
    BY <2>1 DEF BubbleInv, BubbleBase
  <2> QED BY <1>2, <2>2
<1>4. jobs' = {f[j] : j \in jobs}
  BY <1>1, <1>2
<1>5. jobs' \subseteq BubbleJobs /\ IsFiniteSet(jobs') /\ Cardinality(jobs') <= MaxJobs
  BY <1>3, <1>4, ImageOfJobs DEF BubbleInv
<1>6. \A j \in jobs : /\ f[j].dated /\ f[j].from = j.from /\ f[j].to = j.to /\ f[j].gaps = j.gaps
                      /\ f[j].keep = j.keep /\ f[j].superseded = j.superseded
  BY <1>2 DEF BubbleInv, BubbleBase, BubbleJobs
<1>7. panel' \in Panels /\ panel'.covered = {}
  <2>1. NoBubbles \in Summaries
    BY DEF NoBubbles, Summaries
  <2>2. 3 - panel.keep \in Keeps
    BY DEF BubbleInv, BubbleBase, Panels, Keeps
  <2> QED BY <1>1, <2>1, <2>2 DEF Panels
<1>8. BubbleBase'
  <2>1. \A j \in jobs' : j.from < j.to /\ j.to <= until /\ j.gaps \subseteq j.from .. j.to
    BY <1>4, <1>6 DEF BubbleInv, BubbleBase
  <2> QED BY <1>1, <1>5, <1>7, <2>1 DEF BubbleInv, BubbleBase
<1>9. \A j \in jobs' : JobIsRight(j, panel', store', doubt')
  BY <1>1, <1>4, <1>6 DEF BubbleInv, JobIsRight, Read
<1>10. PanelIsRight(panel', store'[panel'.keep], doubt')
  BY <1>7 DEF PanelIsRight
<1>11. \A n \in Keeps : CacheHolds(store'[n], n)
  BY <1>1 DEF BubbleInv
<1> QED BY <1>8, <1>9, <1>10, <1>11 DEF BubbleInv, CacheHolds, JobIsRight, PanelIsRight, Read

(* Workers that are superseded. *)
LEMMA SupersededJobs ==
  ASSUME BubbleInv, SupersedeAll
  PROVE  /\ jobs' \subseteq BubbleJobs /\ IsFiniteSet(jobs') /\ Cardinality(jobs') <= MaxJobs
         /\ \A j \in jobs' : /\ j.superseded
                             /\ j.from < j.to /\ j.to <= until /\ j.gaps \subseteq j.from .. j.to
<1>1. PICK f : f = [j \in jobs |-> [j EXCEPT !.superseded = TRUE]]
  OBVIOUS
<1>2. f \in [jobs -> BubbleJobs]
  <2>1. \A j \in BubbleJobs : [j EXCEPT !.superseded = TRUE] \in BubbleJobs
    BY DEF BubbleJobs
  <2>2. \A j \in jobs : [j EXCEPT !.superseded = TRUE] \in BubbleJobs
    BY <2>1 DEF BubbleInv, BubbleBase
  <2> QED BY <1>1, <2>2
<1>3. jobs' = {f[j] : j \in jobs}
  BY <1>1 DEF SupersedeAll
<1>4. jobs' \subseteq BubbleJobs /\ IsFiniteSet(jobs') /\ Cardinality(jobs') <= MaxJobs
  BY <1>2, <1>3, ImageOfJobs DEF BubbleInv
<1>5. \A j \in jobs : /\ f[j].superseded /\ f[j].from = j.from /\ f[j].to = j.to
                      /\ f[j].gaps = j.gaps
  BY <1>1 DEF BubbleInv, BubbleBase, BubbleJobs
<1> QED BY <1>3, <1>4, <1>5 DEF BubbleInv, BubbleBase

(* A panel is reset. *)
LEMMA PanelResetKeeps ==
  ASSUME BubbleInv, PanelReset
  PROVE  BubbleInv'
<1>1. /\ upsets' \in 0 .. MaxUpsets /\ UNCHANGED <<until, store, doubt>>
      /\ panel' = [panel EXCEPT !.covered = {}]
  BY BubbleConstants DEF PanelReset, Upset, BubbleInv, BubbleBase
<1>2. panel' \in Panels /\ panel'.covered = {}
  BY <1>1 DEF BubbleInv, BubbleBase, Panels
<1>3. /\ jobs' \subseteq BubbleJobs /\ IsFiniteSet(jobs') /\ Cardinality(jobs') <= MaxJobs
      /\ \A j \in jobs' : j.superseded /\ j.from < j.to /\ j.to <= until /\ j.gaps \subseteq j.from .. j.to
  BY SupersededJobs DEF PanelReset
<1>4. BubbleBase'
  BY <1>1, <1>2, <1>3 DEF BubbleInv, BubbleBase
<1>5. \A j \in jobs' : JobIsRight(j, panel', store', doubt')
  BY <1>3 DEF JobIsRight
<1>6. PanelIsRight(panel', store'[panel'.keep], doubt')
  BY <1>2 DEF PanelIsRight
<1>7. \A n \in Keeps : CacheHolds(store'[n], n)
  BY <1>1 DEF BubbleInv
<1> QED BY <1>4, <1>5, <1>6, <1>7 DEF BubbleInv, CacheHolds, JobIsRight, PanelIsRight, Read

(* The caches are cleared. *)
LEMMA BubblesClearedKeeps ==
  ASSUME BubbleInv, BubblesCleared
  PROVE  BubbleInv'
<1>1. /\ upsets' \in 0 .. MaxUpsets /\ UNCHANGED until
      /\ panel' = [panel EXCEPT !.shown = NoBubbles]
      /\ store' = [n \in Keeps |-> [coverage |-> {}, summaries |-> NoBubbles, torn |-> {}]]
      /\ doubt' = doubt \cup {e \in Executions : e.at \in panel.covered}
  BY BubbleConstants DEF BubblesCleared, Upset, BubbleInv, BubbleBase
<1>2. NoBubbles \in Summaries
  BY DEF NoBubbles, Summaries
<1>3. panel' \in Panels /\ panel'.covered = panel.covered
  BY <1>1, <1>2 DEF BubbleInv, BubbleBase, Panels
<1>4. store' \in [Keeps -> Caches] /\ \A n \in Keeps : store'[n].coverage = {}
  BY <1>1, <1>2 DEF Caches
<1>5. /\ jobs' \subseteq BubbleJobs /\ IsFiniteSet(jobs') /\ Cardinality(jobs') <= MaxJobs
      /\ \A j \in jobs' : j.superseded /\ j.from < j.to /\ j.to <= until /\ j.gaps \subseteq j.from .. j.to
  BY SupersededJobs DEF BubblesCleared
<1>6. BubbleBase'
  BY <1>1, <1>3, <1>4, <1>5 DEF BubbleInv, BubbleBase
<1>7. \A j \in jobs' : JobIsRight(j, panel', store', doubt')
  BY <1>5 DEF JobIsRight
<1>8. PanelIsRight(panel', store'[panel'.keep], doubt')
  BY <1>1, <1>3 DEF PanelIsRight
<1>9. \A n \in Keeps : CacheHolds(store'[n], n)
  BY <1>4 DEF CacheHolds
<1> QED BY <1>6, <1>7, <1>8, <1>9 DEF BubbleInv, CacheHolds, JobIsRight, PanelIsRight, Read

(* What a reading of the cache is made of. *)
LEMMA ReadingIsSummaries ==
  ASSUME BubbleBase, NEW n \in Keeps, NEW from, NEW to
  PROVE  CachedSummaries(n, from, to) \in Summaries
<1>1. PICK s \in Summaries : s = store[n].summaries
  BY DEF BubbleBase, Caches
<1> QED BY <1>1 DEF CachedSummaries, Summaries

(* The chart asks: the worker has of the cache what it accounts for in the chunk. *)
LEMMA AskKeeps ==
  ASSUME BubbleInv, Ask
  PROVE  BubbleInv'
<1> USE DEF BubbleInv
<1>1. PICK from \in Stops, to \in Stops, n \in Keeps, s \in Caches :
         /\ from = AskFrom /\ to = GapTop /\ from < to /\ to <= until
         /\ n = panel.keep /\ s = store[n]
  BY ChunkIsPast DEF Ask, BubbleBase, Panels
<1>2. PICK cached \in Summaries : cached = CachedSummaries(n, from, to)
  BY ReadingIsSummaries
<1>3. PICK job : job = [from |-> from, to |-> to, keep |-> n, superseded |-> FALSE,
                        dated |-> FALSE, cached |-> cached, gaps |-> from .. to \ s.coverage]
  OBVIOUS
<1>4. /\ jobs' = jobs \cup {job} /\ doubt' = doubt \cup s.torn
      /\ UNCHANGED <<until, panel, store, upsets>> /\ Cardinality(jobs) < MaxJobs
  BY <1>1, <1>2, <1>3, Zenon DEF Ask
<1>5. from .. to \subseteq Stops
  BY <1>1, BubbleConstants DEF Stops
<1>6. job \in BubbleJobs
  BY <1>1, <1>2, <1>3, <1>5 DEF BubbleJobs
<1>7. IsFiniteSet(jobs') /\ Cardinality(jobs') <= MaxJobs
  <2>1. /\ IsFiniteSet(jobs \cup {job})
        /\ Cardinality(jobs \cup {job}) \in {Cardinality(jobs), Cardinality(jobs) + 1}
    BY FS_AddElement DEF BubbleBase
  <2>2. Cardinality(jobs) \in Nat
    BY FS_CardinalityType DEF BubbleBase
  <2> QED BY <1>4, <2>1, <2>2, BubbleConstants
<1>8. BubbleBase'
  <2>1. jobs' \subseteq BubbleJobs
    BY <1>4, <1>6 DEF BubbleBase
  <2>2. job.from < job.to /\ job.to <= until /\ job.gaps \subseteq job.from .. job.to
    BY <1>1, <1>3
  <2>3. \A j \in jobs' : j.from < j.to /\ j.to <= until /\ j.gaps \subseteq j.from .. j.to
    BY <1>4, <2>2 DEF BubbleBase
  <2>4. doubt' \subseteq Executions
    BY <1>1, <1>4 DEF BubbleBase, Caches
  <2> QED BY <1>4, <1>7, <2>1, <2>3, <2>4 DEF BubbleBase
<1>9. JobIsRight(job, panel, store, doubt')
  <2>1. Read(job) = from .. to \cap s.coverage
    BY <1>3 DEF Read
  <2>2. ASSUME NEW e \in Executions, e.at \in Read(job), e \notin doubt'
        PROVE  Accounts(cached[Candle(e.at)], n, e)
    <3>1. e.at \in from .. to /\ e.at \in s.coverage /\ e \notin s.torn
      BY <1>4, <2>1, <2>2
    <3>2. Candle(e.at) \in ReadFrom(from) .. to
      BY <1>1, <3>1, RangeReadsCandle DEF Stops
    <3>3. cached[Candle(e.at)] = s.summaries[Candle(e.at)]
      BY <1>1, <1>2, <3>1, <3>2, CandleOfExecution DEF CachedSummaries
    <3>4. Accounts(s.summaries[Candle(e.at)], n, e)
      BY <1>1, <3>1 DEF CacheHolds
    <3> QED BY <3>3, <3>4
  <2> QED BY <1>1, <1>3, <2>1, <2>2 DEF JobIsRight
<1>10. \A j \in jobs : JobIsRight(j, panel, store, doubt')
  BY <1>4 DEF JobIsRight
<1>11. PanelIsRight(panel, store[panel.keep], doubt')
  BY <1>4 DEF PanelIsRight
<1> QED BY <1>4, <1>8, <1>9, <1>10, <1>11 DEF CacheHolds, JobIsRight, PanelIsRight, Read

(* A chunk from the raw trades in memory. *)
LEMMA AskRawKeeps ==
  ASSUME BubbleInv, AskRaw
  PROVE  BubbleInv'
<1> USE DEF BubbleInv
<1>1. PICK here : /\ here = Summarised(panel.keep, Between(AskFrom, GapTop))
                  /\ panel' = [panel EXCEPT !.covered = @ \cup AskFrom .. (GapTop - 1),
                                            !.shown = InsertedSummaries(@, here)]
                  /\ doubt' = doubt \cup Reached(AskFrom, GapTop, here)
  BY DEF AskRaw
<1>2. UNCHANGED <<until, jobs, store>> /\ upsets' \in 0 .. MaxUpsets
  BY BubbleConstants DEF AskRaw, BubbleBase
<1>3. PICK from \in Stops, to \in Stops :
         /\ from = AskFrom /\ to = GapTop /\ from < to
         /\ from .. (to - 1) \subseteq 0 .. (until - 1) /\ from .. (to - 1) \subseteq Stops
  <2>1. /\ AskFrom \in Stops /\ GapTop \in Stops /\ AskFrom < GapTop
        /\ AskFrom .. (GapTop - 1) \subseteq 0 .. (until - 1)
    BY ChunkIsPast DEF AskRaw
  <2>2. AskFrom .. (GapTop - 1) \subseteq Stops
    BY <2>1, BubbleConstants DEF Stops
  <2> QED BY <2>1, <2>2
<1>4. here \in Summaries
  <2>1. Between(AskFrom, GapTop) \in SUBSET Executions /\ NoBubbles \in Summaries
    BY DEF Between, NoBubbles, Summaries
  <2> QED BY <1>1, <2>1, SummariesAreSets
<1>5. /\ panel' \in Panels /\ panel'.keep = panel.keep
      /\ panel'.covered = panel.covered \cup from .. (to - 1)
      /\ panel'.shown = InsertedSummaries(panel.shown, here)
  BY <1>1, <1>3, <1>4, SummariesAreSets DEF BubbleBase, Panels
<1>6. doubt' \subseteq Executions /\ doubt \subseteq doubt'
  BY <1>1 DEF Reached, BubbleBase
<1>7. BubbleBase'
  BY <1>2, <1>3, <1>5, <1>6 DEF BubbleBase
<1>8. ASSUME NEW e \in Executions, e.at \in panel'.covered, e \notin doubt'
      PROVE  /\ Accounts(panel'.shown[Candle(e.at)], panel.keep, e)
             /\ e.at \in store[panel.keep].coverage
  <2>1. ~(e.at \in from .. to) /\ here[Candle(e.at)] = {}
    BY <1>1, <1>3, <1>8 DEF Reached
  <2>2. e.at \in panel.covered /\ e \notin doubt
    BY <1>3, <1>5, <1>6, <1>8, <2>1 DEF Stops
  <2>3. panel'.shown[Candle(e.at)] = panel.shown[Candle(e.at)]
    BY <1>5, <2>1, CandleOfExecution DEF InsertedSummaries
  <2> QED BY <2>2, <2>3 DEF PanelIsRight
<1>9. PanelIsRight(panel', store[panel.keep], doubt')
  BY <1>5, <1>8 DEF PanelIsRight
<1>10. \A j \in jobs : JobIsRight(j, panel', store, doubt')
  BY <1>5, <1>6 DEF JobIsRight
<1> QED BY <1>2, <1>5, <1>7, <1>9, <1>10 DEF CacheHolds, JobIsRight, PanelIsRight, Read

(* A worker answers: the cache keeps what it holds and takes what the worker verified, and the *)
(* chart shows what it covered, and the chunk, but for what is in doubt.                       *)
LEMMA AnswerKeeps ==
  ASSUME BubbleInv, NEW job \in jobs, NEW fetched, NEW verified,
         AnswerFits(job, fetched, verified),
         NEW summaries, summaries = AnswerOf(job, fetched),
         BubblesAnswered(job, fetched, verified, summaries)
  PROVE  BubbleInv'
<1> USE DEF BubbleInv
<1>1. /\ job \in BubbleJobs /\ job.keep \in Keeps /\ job.from < job.to
      /\ job.from \in Stops /\ job.to \in Stops
      /\ job.cached \in Summaries /\ fetched \in SUBSET Executions
  BY DEF BubbleBase, BubbleJobs, AnswerFits
<1>2. summaries \in Summaries
  BY <1>1, SummariesAreSets DEF AnswerOf
<1>3. PICK old \in Caches : old = store[job.keep]
  BY <1>1 DEF BubbleBase
<1>4. PICK replaced : replaced = Replaced(job, summaries, fetched)
  OBVIOUS
<1>5. PICK new : new = StoredSummaries(old, verified, summaries, replaced)
  OBVIOUS
<1>6. store' = [store EXCEPT ![job.keep] = new]
  BY <1>3, <1>4, <1>5 DEF BubblesAnswered
<1>7. /\ new \in Caches
      /\ old.coverage \subseteq new.coverage /\ old.torn \subseteq new.torn
      /\ new.coverage \subseteq old.coverage \cup UNION verified
      /\ \A e \in fetched : e.at \in UNION verified =>
            e.at \in new.coverage /\ Accounts(new.summaries[Candle(e.at)], job.keep, e)
      /\ \A e \in Executions :
            /\ e.at \in old.coverage /\ e \notin new.torn
            /\ Accounts(old.summaries[Candle(e.at)], job.keep, e)
            => Accounts(new.summaries[Candle(e.at)], job.keep, e)
  BY <1>3, <1>4, <1>5, StoreKeeps
<1>8. /\ store' \in [Keeps -> Caches] /\ store'[job.keep] = new
      /\ \A n \in Keeps : n # job.keep => store'[n] = store[n]
      /\ \A n \in Keeps : store[n].coverage \subseteq store'[n].coverage
  BY <1>1, <1>3, <1>6, <1>7 DEF BubbleBase
<1>9. ASSUME NEW n \in Keeps
      PROVE  CacheHolds(store'[n], n)
  <2>1. CASE n # job.keep
    BY <1>8, <2>1
  <2>2. CASE n = job.keep
    <3>1. ASSUME NEW e \in Executions, e.at \in new.coverage, e \notin new.torn
          PROVE  Accounts(new.summaries[Candle(e.at)], job.keep, e)
      <4>1. CASE e.at \in old.coverage
        <5>1. Accounts(old.summaries[Candle(e.at)], job.keep, e)
          BY <1>1, <1>3, <1>7, <3>1, <4>1 DEF CacheHolds
        <5> QED BY <1>7, <3>1, <4>1, <5>1
      <4>2. CASE e.at \in UNION verified
        BY <1>7, <4>2 DEF AnswerFits
      <4> QED BY <1>7, <3>1, <4>1, <4>2
    <3> QED BY <1>8, <2>2, <3>1 DEF CacheHolds
  <2> QED BY <2>1, <2>2
<1>10. /\ jobs' = jobs \ {job} /\ jobs' \subseteq BubbleJobs
       /\ IsFiniteSet(jobs') /\ Cardinality(jobs') <= MaxJobs
       /\ \A j \in jobs' : j.from < j.to /\ j.to <= until /\ j.gaps \subseteq j.from .. j.to
  BY JobGoes DEF BubblesAnswered, BubbleBase
<1>11. UNCHANGED until /\ upsets' \in 0 .. MaxUpsets
  BY BubbleConstants DEF BubblesAnswered, BubbleBase
<1>12. CASE job.superseded
  <2>1. UNCHANGED <<panel, doubt>>
    BY <1>12 DEF BubblesAnswered
  <2>2. BubbleBase'
    BY <1>8, <1>10, <1>11, <2>1 DEF BubbleBase
  <2>3. \A j \in jobs' : JobIsRight(j, panel, store', doubt)
    BY <1>8, <1>10 DEF JobIsRight, BubbleJobs
  <2>4. PanelIsRight(panel, store'[panel.keep], doubt)
    BY <1>8 DEF PanelIsRight, BubbleBase, Panels
  <2> QED BY <1>9, <2>1, <2>2, <2>3, <2>4 DEF CacheHolds, JobIsRight, PanelIsRight, Read
<1>13. CASE ~job.superseded
  <2>1. /\ panel' = Delivered(job, summaries)
        /\ doubt' = doubt \cup Doubtful(job, fetched, verified, summaries)
    BY <1>13 DEF BubblesAnswered
  <2>2. /\ doubt' \subseteq Executions /\ doubt \subseteq doubt'
        /\ Missed(job, fetched) \subseteq doubt' /\ old.torn \subseteq doubt'
        /\ \A e \in fetched : e \notin doubt' => e.at \in UNION verified
        /\ replaced \subseteq doubt'
        /\ job.dated => Reached(job.from, job.to, summaries) \subseteq doubt'
    <3>1. Doubtful(job, fetched, verified, summaries) =
            Missed(job, fetched) \cup {e \in fetched : e.at \notin UNION verified}
              \cup old.torn \cup replaced
              \cup (IF job.dated THEN Reached(job.from, job.to, summaries) ELSE {})
      BY <1>3, <1>4 DEF Doubtful
    <3>2. /\ Missed(job, fetched) \subseteq Executions /\ replaced \subseteq Executions
          /\ old.torn \subseteq Executions /\ Reached(job.from, job.to, summaries) \subseteq Executions
      BY <1>3, <1>4 DEF Missed, Replaced, Caches, Reached
    <3> QED BY <1>1, <2>1, <3>1, <3>2 DEF BubbleBase
  <2>3. /\ panel' \in Panels /\ panel'.keep = panel.keep
        /\ panel'.covered = panel.covered \cup job.from .. (job.to - 1)
        /\ panel'.shown = InsertedSummaries(panel.shown, summaries)
        /\ panel'.covered \subseteq 0 .. (until - 1)
    <3>1. job.from .. (job.to - 1) \subseteq Stops
      BY <1>1, BubbleConstants DEF Stops
    <3>2. job.from .. (job.to - 1) \subseteq 0 .. (until - 1)
      <4>1. job.to <= until /\ until \in Nat
        BY NextCandle DEF BubbleBase
      <4> QED BY <1>1, <4>1, BubbleConstants DEF Stops
    <3>3. InsertedSummaries(panel.shown, summaries) \in Summaries
      BY <1>2, SummariesAreSets DEF BubbleBase, Panels
    <3> QED BY <2>1, <3>1, <3>2, <3>3 DEF Delivered, BubbleBase, Panels
  <2>4. BubbleBase'
    BY <1>8, <1>10, <1>11, <2>2, <2>3 DEF BubbleBase
  <2>5. \A j \in jobs' : JobIsRight(j, panel', store', doubt')
    BY <1>8, <1>10, <2>2, <2>3 DEF JobIsRight, BubbleJobs
  <2>6. ASSUME NEW e \in Executions, e.at \in panel'.covered, e \notin doubt'
        PROVE  /\ Accounts(panel'.shown[Candle(e.at)], panel.keep, e)
               /\ e.at \in store'[panel.keep].coverage
    <3>1. PICK c \in Candles : c = Candle(e.at)
      BY CandleOfExecution
    <3>2. panel'.shown[c] = IF summaries[c] # {} THEN summaries[c] ELSE panel.shown[c]
      BY <2>3 DEF InsertedSummaries
    <3>3. e \notin doubt
      BY <2>2, <2>6
    <3>4. panel.keep \in Keeps
      BY DEF BubbleBase, Panels
    <3>5. e.at \in panel.covered =>
             /\ Accounts(panel.shown[c], panel.keep, e)
             /\ e.at \in store[panel.keep].coverage
             /\ e.at \in store'[panel.keep].coverage
      BY <1>8, <3>1, <3>3, <3>4 DEF PanelIsRight
    <3>6. CASE job.dated
      <4>1. ~(e.at \in job.from .. job.to) /\ summaries[c] = {}
        BY <2>2, <2>6, <3>1, <3>6 DEF Reached
      <4>2. e.at \in panel.covered
        <5>1. job.from .. (job.to - 1) \subseteq job.from .. job.to
          BY <1>1, BubbleConstants DEF Stops
        <5> QED BY <2>3, <2>6, <4>1, <5>1
      <4> QED BY <3>1, <3>2, <3>5, <4>1, <4>2
    <3>7. CASE ~job.dated
      <4>1. /\ job.keep = panel.keep /\ Read(job) \subseteq old.coverage
            /\ e.at \in Read(job) => Accounts(job.cached[c], job.keep, e)
        BY <1>3, <1>13, <3>1, <3>3, <3>7 DEF JobIsRight
      <4>2. e \in fetched \/ Accounts(job.cached[c], job.keep, e) =>
               Accounts(summaries[c], panel.keep, e) /\ summaries[c] # {}
        BY <1>1, <3>1, <4>1, AnswerAccounts
      <4>3. CASE e.at \in job.from .. (job.to - 1)
        <5>1. e.at \in job.gaps \/ e.at \in Read(job)
          <6>1. job.from .. (job.to - 1) \subseteq job.from .. job.to
            BY <1>1, BubbleConstants DEF Stops
          <6> QED BY <4>3, <6>1 DEF Read
        <5>2. CASE e.at \in job.gaps
          <6>1. e \in fetched
            BY <2>2, <2>6, <5>2 DEF Missed
          <6>2. e.at \in new.coverage
            BY <1>7, <2>2, <2>6, <6>1
          <6> QED BY <1>8, <3>1, <3>2, <4>1, <4>2, <6>1, <6>2
        <5>3. CASE e.at \in Read(job)
          <6>1. e.at \in new.coverage
            BY <1>7, <4>1, <5>3
          <6> QED BY <1>8, <3>1, <3>2, <4>1, <4>2, <5>3, <6>1
        <5> QED BY <5>1, <5>2, <5>3
      <4>4. CASE ~(e.at \in job.from .. (job.to - 1))
        <5>1. e.at \in panel.covered
          BY <2>3, <2>6, <4>4
        <5>2. CASE summaries[c] = {}
          BY <3>1, <3>2, <3>5, <5>1, <5>2
        <5>3. CASE summaries[c] # {}
          <6>1. e.at \in old.coverage /\ e \notin old.torn /\ e \notin replaced
            BY <1>3, <2>2, <2>6, <3>5, <4>1, <5>1
          <6>2. Accounts(old.summaries[c], job.keep, e)
            BY <1>1, <1>3, <3>1, <6>1 DEF CacheHolds
          <6>3. e \in fetched \/ old.summaries[c] = job.cached[c]
            BY <1>3, <1>4, <3>1, <5>3, <6>1 DEF Replaced
          <6>4. e \in fetched \/ Accounts(job.cached[c], job.keep, e)
            BY <6>2, <6>3
          <6> QED BY <3>1, <3>2, <3>5, <4>2, <5>1, <5>3, <6>4
        <5> QED BY <5>2, <5>3
      <4> QED BY <4>3, <4>4
    <3> QED BY <3>6, <3>7
  <2>7. PanelIsRight(panel', store'[panel'.keep], doubt')
    BY <2>3, <2>6 DEF PanelIsRight
  <2> QED BY <1>9, <2>4, <2>5, <2>7 DEF CacheHolds, JobIsRight, PanelIsRight, Read
<1> QED BY <1>12, <1>13

(* Every step of the bubbles keeps the invariant. *)
LEMMA BubblesStep == BubbleInv /\ [BubbleNext]_bubbleVars => BubbleInv'
<1> SUFFICES ASSUME BubbleInv, [BubbleNext]_bubbleVars
             PROVE  BubbleInv'
  OBVIOUS
<1>1. CASE Ask
  BY <1>1, AskKeeps
<1>2. CASE AskRaw
  BY <1>2, AskRawKeeps
<1>3. CASE CandleCloses
  BY <1>3, CandleClosesKeeps
<1>4. CASE KeepChanges
  BY <1>4, KeepChangesKeeps
<1>5. CASE PanelReset
  BY <1>5, PanelResetKeeps
<1>6. CASE BubblesCleared
  BY <1>6, BubblesClearedKeeps
<1>7. ASSUME NEW job \in jobs, AnswerArrives(job)
      PROVE  BubbleInv'
  <2>1. PICK end \in [GapRanges(job.gaps) -> 0 .. LastCandle] :
           /\ \A r \in GapRanges(job.gaps) : end[r] \in Ends(r)
           /\ BubblesAnswered(job, FetchedOf(job.gaps, end), VerifiedOf(job.gaps, end),
                              AnswerOf(job, FetchedOf(job.gaps, end)))
    BY <1>7 DEF AnswerArrives
  <2>2. PICK fetched, verified :
           fetched = FetchedOf(job.gaps, end) /\ verified = VerifiedOf(job.gaps, end)
    OBVIOUS
  <2>3. AnswerFits(job, fetched, verified)
    <3>1. job \in BubbleJobs
      BY DEF BubbleInv, BubbleBase
    <3> QED BY <2>1, <2>2, <3>1, AnswersFit
  <2>4. BubblesAnswered(job, fetched, verified, AnswerOf(job, fetched))
    BY <2>1, <2>2
  <2> QED BY <2>3, <2>4, AnswerKeeps
<1>8. ASSUME NEW job \in jobs, JobFails(job)
      PROVE  BubbleInv'
  BY <1>8, JobFailsKeeps
<1>9. CASE UNCHANGED bubbleVars
  <2>1. BubbleBase'
    BY <1>9 DEF bubbleVars, BubbleInv, BubbleBase
  <2> QED BY <1>9, <2>1 DEF bubbleVars, BubbleInv, CacheHolds, JobIsRight, PanelIsRight, Read
<1> QED BY <1>1, <1>2, <1>3, <1>4, <1>5, <1>6, <1>7, <1>8, <1>9 DEF BubbleNext

(* The chart shows the largest bubbles of what it takes for loaded, but for what is in doubt. *)
THEOREM CoveredBubblesStayShown == BubbleSpec => []CoveredBubblesAreShown
<1>1. BubbleInv => CoveredBubblesAreShown
  BY DEF BubbleInv, PanelIsRight, CoveredBubblesAreShown
<1> QED BY <1>1, BubblesStart, BubblesStep, PTL DEF BubbleSpec

(* The cache has what it takes for covered, but for what a worker replaced unread. *)
THEOREM SummariesStayHeld == BubbleSpec => []SummariesAreHeld
<1>1. BubbleInv => SummariesAreHeld
  BY DEF BubbleInv, CacheHolds, SummariesAreHeld
<1> QED BY <1>1, BubblesStart, BubblesStep, PTL DEF BubbleSpec

(* The types of the bubbles of a chart. *)
THEOREM BubbleTypeCorrect == BubbleSpec => []BubbleTypeOK
<1>1. BubbleInv => BubbleTypeOK
  BY DEF BubbleInv, BubbleBase, Panels, BubbleTypeOK
<1> QED BY <1>1, BubblesStart, BubblesStep, PTL DEF BubbleSpec
================================================================================
