-------------------------- MODULE HttpPollingProofs --------------------------
(***************************************************************************)
(* Theorems about HttpPolling, for every window, store, log and texts.     *)
(*                                                                         *)
(* The tool "history" returns every line again until it is Window lines    *)
(* old, so no line may be forgotten by the dedup store before that.  The   *)
(* invariant bounds, for each line that can still come back, the age of    *)
(* its text and the texts that were put in the store after it.             *)
(***************************************************************************)
EXTENDS HttpPolling, SequenceTheorems, FunctionTheorems, FiniteSetTheorems, TLAPS

(* A line that was handled, or an older one. *)
Reached(n) == \E h \in handled : n <= h

InWindow(n) == n > Len(log) - Window
InBatch(n) == \E k \in 1..Len(batch) : batch[k] = n

(* A batch is a piece of the log without gaps. *)
BatchInv == \A k \in 1..Len(batch) : batch[k] = batch[1] + k - 1

HandledInv ==
    /\ \A h \in handled : h <= Len(log)
    /\ clients = 0 => phase = "idle" /\ handled = {}
    /\ phase = "idle" => batch = <<>>
    /\ ~wanted => phase = "idle"

(* What the store has to be for the tool "history": entries outlive two      *)
(* outages, and one window of lines.                                         *)
Remembered == Ttl > 2 * MaxQuiet /\ CacheSize >= Window

(* The texts of the lines lo to hi. *)
TextsOf(lo, hi) == {log[k] : k \in {j \in 1..Len(log) : lo <= j /\ j <= hi}}

EntriesInv ==
    \A t \in Texts : t \notin store[t].newer /\ Cardinality(store[t].newer) < CacheSize

(* A handled line that can come back was asked for in the last completed     *)
(* poll or since, and what was asked for after it lies within a window.      *)
ReturnInv ==
    \A n \in 1..Len(log) :
       Reached(n) /\ (InWindow(n) \/ InBatch(n)) =>
          /\ store[log[n]].age <= quiet + MaxQuiet
          /\ \E h \in handled : n <= h /\ store[log[n]].newer \subseteq TextsOf(h - Window + 1, h)

(* A line that this turn has passed was asked for since the last poll, and   *)
(* after it only the lines between it and the next one.                      *)
TurnInv ==
    batch # <<>> =>
       /\ \A n \in 1..Len(log) : InWindow(n) /\ n < batch[1] =>
             /\ store[log[n]].age <= quiet
             /\ store[log[n]].newer \subseteq TextsOf(n + 1, batch[1] - 1)
       /\ \A h \in handled : h <= batch[Len(batch)]

StoreInv == tool = "history" /\ restored /\ Remembered => EntriesInv /\ ReturnInv /\ TurnInv

CursorInv ==
    tool = "recent" /\ clients <= 1 =>
        /\ \A h \in handled : h <= cursor
        /\ \A k \in 1..Len(batch) : batch[k] > cursor

IndInv == TypeOK /\ BatchInv /\ HandledInv /\ StoreInv /\ CursorInv

-----------------------------------------------------------------------------
(* The answer of the server: consecutive lines up to the newest. *)
LEMMA AnswerFacts ==
    ASSUME TypeOK
    PROVE  /\ Answer \in Seq(1..Len(log)) /\ Len(Answer) <= Window
           /\ \A k \in 1..Len(Answer) : Answer[k] = Answer[1] + k - 1
           /\ Answer # <<>> => Answer[Len(Answer)] = Len(log)
           /\ Answer = <<>> => (tool = "history" => Len(log) = 0)
           /\ tool = "history" =>
                 /\ \A n \in 1..Len(log) : InWindow(n) => Answer # <<>> /\ n >= Answer[1]
                 /\ \A k \in 1..Len(Answer) : InWindow(Answer[k])
           /\ tool = "recent" => \A k \in 1..Len(Answer) : Answer[k] > cursor
<1> USE PollingAssumption
<1> DEFINE floor == IF tool = "recent" THEN cursor ELSE 0
           oldest == Larger(floor, Len(log) - Window)
<1>1. /\ Len(log) \in Nat /\ cursor \in 0..Len(log) /\ tool \in {"history", "recent"}
      /\ Window \in Nat /\ Window > 0
  BY DEF TypeOK
<1>2. /\ oldest \in 0..Len(log) /\ oldest >= Len(log) - Window /\ oldest >= floor
      /\ tool = "history" => oldest = 0 \/ oldest = Len(log) - Window
  BY <1>1 DEF Larger
<1> DEFINE count == Len(log) - oldest
<1>3. count \in Nat /\ count <= Window
  BY <1>1, <1>2
<1>4. Answer = [k \in 1..count |-> oldest + k]
  BY DEF Answer
<1> HIDE DEF oldest
<1>5. \A k \in 1..count : oldest + k \in 1..Len(log)
  BY <1>1, <1>2
<1>6. Answer \in Seq(1..Len(log)) /\ Len(Answer) = count
  BY <1>3, <1>4, <1>5
<1>7. \A k \in 1..count : Answer[k] = oldest + k
  BY <1>4
<1>8. Answer = <<>> <=> count = 0
  BY <1>3, <1>6, <1>4
<1>9. count > 0 => Answer[1] = oldest + 1
  BY <1>3, <1>7
<1>10. \A k \in 1..count : count > 0
  BY <1>3
<1>11. \A k \in 1..Len(Answer) : Answer[k] = Answer[1] + k - 1
  BY <1>2, <1>6, <1>7, <1>9, <1>10
<1>12. Answer # <<>> => Answer[Len(Answer)] = Len(log)
  <2> SUFFICES ASSUME count # 0 PROVE Answer[count] = Len(log)
    BY <1>6, <1>8
  <2>1. count \in 1..count
    BY <1>3
  <2>2. Answer[count] = oldest + count
    BY <1>7, <2>1
  <2> QED
    BY <1>1, <1>2, <2>2
<1>13. Answer = <<>> => (tool = "history" => Len(log) = 0)
  BY <1>1, <1>2, <1>8
<1>14. tool = "history" =>
          /\ \A n \in 1..Len(log) : InWindow(n) => Answer # <<>> /\ n >= Answer[1]
          /\ \A k \in 1..Len(Answer) : InWindow(Answer[k])
  <2>1. \A n \in 1..Len(log) : InWindow(n) /\ tool = "history" => Answer # <<>> /\ n >= Answer[1]
    BY <1>1, <1>2, <1>3, <1>8, <1>9 DEF InWindow
  <2>2. \A k \in 1..Len(Answer) : InWindow(Answer[k])
    BY <1>1, <1>2, <1>3, <1>6, <1>7 DEF InWindow
  <2> QED
    BY <2>1, <2>2
<1>15. tool = "recent" => \A k \in 1..Len(Answer) : Answer[k] > cursor
  BY <1>1, <1>2, <1>6, <1>7
<1> QED
  BY <1>3, <1>6, <1>11, <1>12, <1>13, <1>14, <1>15

LEMMA TypeFacts ==
    ASSUME TypeOK
    PROVE  /\ Len(log) \in Nat /\ \A k \in 1..Len(log) : log[k] \in Texts
           /\ Len(batch) \in Nat /\ \A k \in 1..Len(batch) : batch[k] \in 1..Len(log)
           /\ batch # <<>> => Len(batch) > 0 /\ Head(batch) = batch[1]
           /\ \A t \in Texts :
                 store[t].age \in 0..Ttl /\ store[t].age \in Nat /\ store[t].newer \subseteq Texts
           /\ store \in Stores /\ file \in Stores
           /\ \A h \in handled : h \in Nat
           /\ forwarded \in Seq(handled) /\ quiet \in 0..MaxQuiet /\ MaxQuiet \in Nat
<1>1. log \in Seq(Texts) /\ batch \in Seq(1..Len(log)) /\ store \in Stores /\ file \in Stores
  BY DEF TypeOK
<1>1a. \A t \in Texts :
          store[t].age \in 0..Ttl /\ store[t].age \in Nat /\ store[t].newer \subseteq Texts
  BY <1>1, PollingAssumption DEF Stores
<1>2. /\ \A h \in handled : h \in Nat
      /\ forwarded \in Seq(handled) /\ quiet \in 0..MaxQuiet /\ MaxQuiet \in Nat
  BY PollingAssumption DEF TypeOK, Lines
<1>3. Len(batch) \in Nat /\ \A k \in 1..Len(batch) : batch[k] \in 1..Len(log)
  BY <1>1
<1>4. batch # <<>> => Len(batch) > 0 /\ Head(batch) = batch[1]
  BY <1>1
<1> QED
  BY <1>1, <1>1a, <1>2, <1>3, <1>4

-----------------------------------------------------------------------------
(* The store. *)

LEMMA EntryFacts ==
    ASSUME NEW age \in Nat, NEW newer \in SUBSET Texts
    PROVE  /\ Entry(age, newer) \in [age : 0..Ttl, newer : SUBSET Texts]
           /\ Entry(age, newer).newer \subseteq newer
           /\ CacheSize > 0 => Cardinality(Entry(age, newer).newer) < CacheSize
           /\ age < Ttl /\ Cardinality(newer) < CacheSize => Entry(age, newer).age = age
<1> USE PollingAssumption
<1>1. NoEntry \in [age : 0..Ttl, newer : SUBSET Texts] /\ NoEntry.newer = {}
  BY DEF NoEntry
<1>2. Cardinality({}) = 0
  BY FS_EmptySet
<1> QED
  BY <1>1, <1>2 DEF Entry

(* The texts of one window are no more than the store holds. *)
LEMMA FewTexts ==
    ASSUME TypeOK, Remembered, NEW h \in 1..Len(log), NEW n \in 1..Len(log),
           n > h - Window, n <= h, NEW newer \in SUBSET TextsOf(h - Window + 1, h), log[n] \notin newer
    PROVE  Cardinality(newer) < CacheSize
<1> DEFINE lo == h - Window + 1
           lines == {j \in 1..Len(log) : lo <= j /\ j <= h}
           texts == TextsOf(lo, h)
           text == [j \in lines |-> log[j]]
<1>1. /\ Window \in Nat /\ Window > 0 /\ CacheSize \in Nat /\ CacheSize >= Window
      /\ Len(log) \in Nat /\ h \in Int /\ lo \in Int /\ lo <= h /\ h - lo + 1 = Window
  BY PollingAssumption, TypeFacts DEF Remembered
<1>2. IsFiniteSet(lo..h) /\ Cardinality(lo..h) = Window
  <2> HIDE DEF lo
  <2>1. Cardinality(lo..h) = IF lo > h THEN 0 ELSE h - lo + 1
    BY <1>1, FS_Interval
  <2> QED
    BY <1>1, <2>1, FS_Interval
<1>3. lines \subseteq lo..h
  BY <1>1
<1>4. IsFiniteSet(lines) /\ Cardinality(lines) <= Window
  BY <1>2, <1>3, FS_Subset
<1>5. text \in Surjection(lines, texts)
  BY DEF TextsOf, Surjection
<1>6. IsFiniteSet(texts) /\ Cardinality(texts) <= Cardinality(lines)
  BY <1>4, <1>5, FS_Surjection
<1>7. n \in lines /\ log[n] \in texts
  BY <1>1 DEF TextsOf
<1> HIDE DEF texts, lines
<1>8. IsFiniteSet(newer) /\ newer \cup {log[n]} \subseteq texts
  BY <1>6, <1>7, FS_Subset DEF texts
<1>9. Cardinality(newer \cup {log[n]}) = Cardinality(newer) + 1
  BY <1>8, FS_AddElement
<1>10. Cardinality(newer \cup {log[n]}) <= Cardinality(texts)
  BY <1>6, <1>8, FS_Subset
<1>11. /\ Cardinality(newer) \in Nat /\ Cardinality(texts) \in Nat /\ Cardinality(lines) \in Nat
  BY <1>4, <1>6, <1>8, FS_CardinalityType
<1> QED
  BY <1>1, <1>4, <1>6, <1>9, <1>10, <1>11

LEMMA AskedFacts ==
    ASSUME TypeOK, NEW t \in Texts
    PROVE  /\ Asked(t) \in Stores
           /\ Asked(t)[t].newer = {}
           /\ Ttl > 0 /\ CacheSize > 0 => Asked(t)[t].age = 0
           /\ CacheSize > 0 => \A u \in Texts : Cardinality(Asked(t)[u].newer) < CacheSize
           /\ \A u \in Texts \ {t} :
                 /\ Asked(t)[u].newer \subseteq store[u].newer \cup {t}
                 /\ store[u].age < Ttl /\ Cardinality(store[u].newer \cup {t}) < CacheSize =>
                       Asked(t)[u].age = store[u].age
<1> DEFINE new(u) == IF u = t THEN Entry(0, {}) ELSE Entry(store[u].age, store[u].newer \cup {t})
<1>1. Asked(t) = [u \in Texts |-> new(u)]
  BY DEF Asked
<1>2. \A u \in Texts : store[u].age \in Nat /\ store[u].newer \cup {t} \in SUBSET Texts
  BY TypeFacts
<1>3. Cardinality({}) = 0 /\ {} \in SUBSET Texts /\ 0 \in Nat
  BY FS_EmptySet
<1>4. /\ Entry(0, {}) \in [age : 0..Ttl, newer : SUBSET Texts] /\ Entry(0, {}).newer = {}
      /\ CacheSize > 0 => Cardinality(Entry(0, {}).newer) < CacheSize
      /\ Ttl > 0 /\ CacheSize > 0 => Entry(0, {}).age = 0
  BY <1>3, EntryFacts
<1>5. ASSUME NEW u \in Texts \ {t}
      PROVE  /\ Asked(t)[u] = Entry(store[u].age, store[u].newer \cup {t})
             /\ Asked(t)[u] \in [age : 0..Ttl, newer : SUBSET Texts]
             /\ Asked(t)[u].newer \subseteq store[u].newer \cup {t}
             /\ CacheSize > 0 => Cardinality(Asked(t)[u].newer) < CacheSize
             /\ store[u].age < Ttl /\ Cardinality(store[u].newer \cup {t}) < CacheSize =>
                    Asked(t)[u].age = store[u].age
  <2>1. Asked(t)[u] = Entry(store[u].age, store[u].newer \cup {t})
    BY <1>1
  <2> QED
    BY <1>2, <2>1, EntryFacts
<1>6. Asked(t)[t] = Entry(0, {})
  BY <1>1
<1>7. Asked(t) \in Stores
  <2>1. \A u \in Texts : Asked(t)[u] \in [age : 0..Ttl, newer : SUBSET Texts]
    BY <1>4, <1>5, <1>6
  <2>2. Asked(t) = [u \in Texts |-> Asked(t)[u]]
    BY <1>1
  <2> QED
    BY <2>1, <2>2 DEF Stores
<1> QED
  BY <1>4, <1>5, <1>6, <1>7

LEMMA OlderFacts ==
    ASSUME NEW s \in Stores
    PROVE  /\ Older(s) \in Stores
           /\ CacheSize > 0 => \A t \in Texts : Cardinality(Older(s)[t].newer) < CacheSize
           /\ \A t \in Texts :
                 /\ Older(s)[t].newer \subseteq s[t].newer
                 /\ s[t].age + 1 < Ttl /\ Cardinality(s[t].newer) < CacheSize =>
                       Older(s)[t].age = s[t].age + 1
<1>1. Older(s) = [t \in Texts |-> Entry(s[t].age + 1, s[t].newer)]
  BY DEF Older
<1>2. \A t \in Texts : s[t].age + 1 \in Nat /\ s[t].newer \in SUBSET Texts
  BY PollingAssumption DEF Stores
<1>3. ASSUME NEW t \in Texts
      PROVE  /\ Older(s)[t] \in [age : 0..Ttl, newer : SUBSET Texts]
             /\ CacheSize > 0 => Cardinality(Older(s)[t].newer) < CacheSize
             /\ Older(s)[t].newer \subseteq s[t].newer
             /\ s[t].age + 1 < Ttl /\ Cardinality(s[t].newer) < CacheSize =>
                    Older(s)[t].age = s[t].age + 1
  BY <1>1, <1>2, EntryFacts
<1>4. Older(s) \in Stores
  BY <1>1, <1>3 DEF Stores
<1> QED
  BY <1>3, <1>4

LEMMA EmptyStoreFacts ==
    /\ EmptyStore \in Stores
    /\ \A t \in Texts : EmptyStore[t].newer = {} /\ EmptyStore[t].age = Ttl
BY PollingAssumption DEF EmptyStore, NoEntry, Stores

LEMMA InitInv == Init => IndInv
<1> SUFFICES ASSUME Init PROVE IndInv
  OBVIOUS
<1> USE PollingAssumption DEF Init
<1>1. /\ log = <<>> /\ Len(log) = 0 /\ batch = <<>> /\ Len(batch) = 0
      /\ forwarded = <<>> /\ Len(forwarded) = 0 /\ handled = {}
  OBVIOUS
<1>2. TypeOK
  <2>1. log \in Seq(Texts) /\ batch \in Seq(1..Len(log)) /\ forwarded \in Seq(handled)
    OBVIOUS
  <2>2. /\ cursor \in 0..Len(log) /\ quiet \in 0..MaxQuiet /\ clients \in 0..MaxClients
        /\ faults \in 0..MaxFaults
    BY <1>1
  <2>3. {store, file} \subseteq Stores /\ Len(batch) <= Window /\ Len(log) <= MaxLog
    BY <1>1, EmptyStoreFacts
  <2> QED
    BY <2>1, <2>2, <2>3 DEF TypeOK
<1>3. BatchInv /\ HandledInv /\ CursorInv
  BY <1>1 DEF BatchInv, HandledInv, CursorInv
<1>4. StoreInv
  <2>1. ASSUME Remembered PROVE EntriesInv
    <3>1. \A t \in Texts : store[t].newer = {}
      BY EmptyStoreFacts
    <3>2. Cardinality({}) = 0 /\ 0 < CacheSize
      BY <2>1, FS_EmptySet DEF Remembered
    <3> QED
      BY <3>1, <3>2 DEF EntriesInv
  <2> QED
    BY <1>1, <2>1 DEF StoreInv, ReturnInv, TurnInv, Reached
<1> QED
  BY <1>2, <1>3, <1>4 DEF IndInv

-----------------------------------------------------------------------------
(* The steps of the client's task. *)

LEMMA SeqGrows ==
    ASSUME NEW S, NEW T, S \subseteq T, NEW s \in Seq(S)
    PROVE  s \in Seq(T)
OBVIOUS

(* What StoreInv depends on is unchanged. *)
LEMMA SameStore ==
    ASSUME StoreInv, UNCHANGED <<tool, store, restored, log, quiet, handled>>,
           batch' \in {batch, <<>>}
    PROVE  StoreInv'
<1>1. CASE batch' = batch
  BY <1>1 DEF StoreInv, EntriesInv, ReturnInv, TurnInv, Reached, InWindow, InBatch, TextsOf, Remembered
<1>2. CASE batch' = <<>>
  <2>1. \A n : ~InBatch(n)'
    BY <1>2 DEF InBatch
  <2> QED
    BY <1>2, <2>1 DEF StoreInv, EntriesInv, ReturnInv, TurnInv, Reached, InWindow, TextsOf, Remembered
<1> QED
  BY <1>1, <1>2

(* The task goes on without taking or handling a line. *)
LEMMA PhaseStep ==
    ASSUME IndInv,
           UNCHANGED <<tool, batch, faults, log, quiet, handled, forwarded>>,
           \/ UNCHANGED <<store, file, restored>>
           \/ store' = file /\ file' = file /\ restored' = (restored /\ file = store),
           phase' \in {"initialize", "notify", "poll", "wait", "idle"}, phase # "dispatch",
           session' \in {"none", "open", "expired"},
           \/ UNCHANGED <<cursor, clients>>
           \/ cursor' = 0 /\ clients' = clients + 1 /\ clients < MaxClients /\ phase = "idle",
           wanted' \in BOOLEAN,
           clients' = 0 \/ ~wanted' => phase' = "idle"
    PROVE  IndInv'
<1> USE PollingAssumption
<1>1. TypeOK /\ batch = <<>>
  BY DEF IndInv, TypeOK
<1>2. TypeOK'
  <2>1. {store', file'} \subseteq Stores /\ restored' \in BOOLEAN
    BY <1>1 DEF TypeOK
  <2>2. clients' \in 0..MaxClients /\ cursor' \in 0..Len(log)
    BY <1>1 DEF TypeOK
  <2> QED
    BY <1>1, <2>1, <2>2 DEF TypeOK
<1>3. BatchInv' /\ HandledInv'
  BY <1>1 DEF IndInv, BatchInv, HandledInv, TypeOK
<1>4. StoreInv'
  <2> SUFFICES ASSUME restored' PROVE StoreInv'
    BY DEF StoreInv
  <2>1. restored /\ store' = store
    OBVIOUS
  <2> QED
    BY <1>1, <2>1, SameStore DEF IndInv
<1>5. CursorInv'
  BY <1>1 DEF IndInv, CursorInv, HandledInv, TypeOK
<1> QED
  BY <1>2, <1>3, <1>4, <1>5 DEF IndInv

LEMMA PollAnsweredStep == IndInv /\ PollAnswered => IndInv'
<1> SUFFICES ASSUME IndInv, PollAnswered PROVE IndInv'
  OBVIOUS
<1> USE PollingAssumption
<1>1. /\ TypeOK /\ batch' = Answer
      /\ UNCHANGED <<tool, session, cursor, store, file, faults, restored, log, clients>>
      /\ UNCHANGED <<handled, forwarded, wanted>>
      /\ quiet' \in {0, quiet}
      /\ phase' \in {"wait", "dispatch"} /\ (phase' = "dispatch" <=> Answer # <<>>)
      /\ phase = "poll"
  BY DEF IndInv, PollAnswered, historyVars, storeVars
<1>2. TypeOK'
  BY <1>1, AnswerFacts DEF TypeOK
<1>3. BatchInv' /\ HandledInv'
  BY <1>1, AnswerFacts DEF IndInv, BatchInv, HandledInv
<1>4. StoreInv'
  <2> SUFFICES ASSUME tool = "history", restored, Remembered PROVE (EntriesInv /\ ReturnInv /\ TurnInv)'
    BY <1>1 DEF StoreInv, Remembered
  <2>0. EntriesInv /\ ReturnInv
    BY DEF IndInv, StoreInv
  <2>1. EntriesInv'
    BY <1>1, <2>0 DEF EntriesInv
  <2>2. CASE Answer = <<>>
    <3>1. Len(log) = 0
      BY <1>1, <2>2, AnswerFacts
    <3> QED
      BY <1>1, <2>1, <2>2, <3>1 DEF ReturnInv, TurnInv
  <2>3. CASE Answer # <<>>
    <3>1. quiet' = quiet
      BY <2>3 DEF PollAnswered
    <3>2. \A n : InBatch(n)' => InWindow(n)
      BY <1>1, AnswerFacts DEF InBatch
    <3>3. \A h \in handled : h <= Len(log)
      BY DEF IndInv, HandledInv
    <3>4. ReturnInv'
      BY <1>1, <2>0, <3>1, <3>2 DEF ReturnInv, Reached, InWindow, TextsOf
    <3>5. \A n \in 1..Len(log) : InWindow(n)' => ~(n < batch'[1])
      <4>1. Answer[1] \in 1..Len(log)
        BY <1>1, <2>3, AnswerFacts
      <4> QED
        BY <1>1, <4>1, AnswerFacts DEF InWindow
    <3>6. \A h \in handled : h <= batch'[Len(batch')]
      BY <1>1, <2>3, <3>3, AnswerFacts
    <3> QED
      BY <1>1, <2>1, <3>4, <3>5, <3>6 DEF TurnInv
  <2> QED
    BY <2>2, <2>3
<1>5. CursorInv'
  BY <1>1, AnswerFacts DEF IndInv, CursorInv
<1> QED
  BY <1>2, <1>3, <1>4, <1>5 DEF IndInv

LEMMA DispatchStep == IndInv /\ (\E saved \in BOOLEAN : Dispatch(saved)) => IndInv'
<1> SUFFICES ASSUME IndInv, NEW saved \in BOOLEAN, Dispatch(saved) PROVE IndInv'
  OBVIOUS
<1> USE PollingAssumption
<1> DEFINE n == batch[1]
           last == batch[Len(batch)]
<1>1. /\ TypeOK /\ BatchInv /\ HandledInv /\ StoreInv /\ CursorInv
      /\ batch # <<>> /\ batch \in Seq(1..Len(log)) /\ Len(log) \in Nat
  <2>1. TypeOK /\ BatchInv /\ HandledInv /\ StoreInv /\ CursorInv /\ phase = "dispatch"
    BY DEF IndInv, Dispatch
  <2> QED
    BY <2>1, TypeFacts DEF TypeOK
<1>2. /\ n \in 1..Len(log) /\ Len(batch) \in Nat /\ Len(batch) > 0
      /\ Head(batch) = n
      /\ last \in 1..Len(log) /\ n <= last /\ (Len(batch) = 1 => last = n)
  <2>1. /\ Len(batch) \in Nat /\ Len(batch) > 0 /\ Head(batch) = n
        /\ n \in 1..Len(log) /\ last \in 1..Len(log)
    BY <1>1
  <2>2. last = n + Len(batch) - 1
    BY <1>1, <2>1 DEF BatchInv
  <2> QED
    BY <1>1, <2>1, <2>2
<1>3. /\ batch' \in Seq(1..Len(log)) /\ Len(batch') = Len(batch) - 1
      /\ \A k \in 1..Len(batch') : batch'[k] = batch[k + 1]
  <2>1. batch' = Tail(batch)
    BY DEF Dispatch
  <2> QED
    BY <1>1, <2>1, HeadTailProperties
<1>3a. batch' = <<>> <=> Len(batch) = 1
  BY <1>2, <1>3
<1>4. \A k \in 1..Len(batch') : batch'[k] = n + k
  <2> SUFFICES ASSUME NEW k \in 1..Len(batch') PROVE batch'[k] = n + k
    OBVIOUS
  <2>1. k + 1 \in 1..Len(batch) /\ batch'[k] = batch[k + 1]
    BY <1>2, <1>3
  <2>2. batch[k + 1] = batch[1] + (k + 1) - 1
    BY <1>1, <2>1 DEF BatchInv
  <2> QED
    BY <1>2, <2>1, <2>2
<1>5. /\ UNCHANGED <<tool, session, log, clients, wanted>>
      /\ cursor' = Larger(cursor, n)
      /\ store' = Asked(log[n]) /\ file' \in {file, store'} /\ restored' = restored
      /\ faults' \in 0..MaxFaults
      /\ forwarded' \in {forwarded, Append(forwarded, n)}
      /\ handled' = handled \cup {n}
      /\ phase = "dispatch"
  <2> HIDE DEF n, last
  <2> QED
    <3>1. faults \in 0..MaxFaults
      BY <1>1 DEF TypeOK
    <3> QED
      BY <1>2, <3>1 DEF Dispatch, Save, Fault
<1>6. /\ Len(batch) = 1 => phase' = "wait" /\ quiet' = 0
      /\ Len(batch) # 1 => phase' = phase /\ quiet' = quiet
  BY DEF Dispatch
<1>7. /\ log[n] \in Texts /\ \A k \in 1..Len(log) : log[k] \in Texts
      /\ store' \in Stores /\ file' \in Stores
      /\ quiet \in 0..MaxQuiet
  <2>1. log \in Seq(Texts) /\ file \in Stores /\ quiet \in 0..MaxQuiet
    BY <1>1 DEF TypeOK
  <2> HIDE DEF n
  <2>2. \A k \in 1..Len(log) : log[k] \in Texts
    BY <2>1
  <2> QED
    BY <1>1, <1>2, <1>5, <2>1, <2>2, AskedFacts
<1>8. /\ Len(log) <= MaxLog /\ Len(batch) <= Window /\ cursor \in 0..Len(log)
      /\ handled \subseteq Lines /\ forwarded \in Seq(handled) /\ wanted
      /\ \A h \in handled : h \in 1..Len(log)
  BY <1>1, <1>5 DEF TypeOK, HandledInv, Lines
<1>10. Len(batch') > 0 => batch'[Len(batch')] = last
  BY <1>1, <1>2, <1>3, <1>4 DEF BatchInv
<1>11. tool = "recent" /\ clients <= 1 => n > cursor /\ \A h \in handled : h <= cursor
  BY <1>1, <1>2 DEF CursorInv
<1>12. \A k \in 1..Len(batch) : batch[k] = n + k - 1
  BY <1>1 DEF BatchInv
<1> HIDE DEF n, last
<1>13. TypeOK'
  <2>1. forwarded' \in Seq(handled')
    <3>1. forwarded \in Seq(handled') /\ n \in handled'
      BY <1>5, <1>8, SeqGrows
    <3> QED
      BY <1>5, <3>1
  <2>2. cursor' \in 0..Len(log) /\ handled' \subseteq Lines
    BY <1>1, <1>2, <1>5, <1>8 DEF Larger, Lines
  <2>3. quiet' \in 0..MaxQuiet
    BY <1>6, <1>7
  <2>4. Len(batch') <= Window /\ (phase' = "dispatch" <=> batch' # <<>>)
        /\ phase' \in {"wait", "dispatch"}
    <3>1. Len(batch') <= Window
      BY <1>2, <1>3, <1>8
    <3>2. CASE Len(batch) = 1
      BY <1>3a, <1>6, <3>1, <3>2
    <3>3. CASE Len(batch) # 1
      BY <1>3a, <1>5, <1>6, <3>1, <3>3
    <3> QED
      BY <3>2, <3>3
  <2>5. /\ tool' \in {"history", "recent"} /\ session' \in {"none", "open", "expired"}
        /\ log' \in Seq(Texts) /\ Len(log') <= MaxLog /\ clients' \in 0..MaxClients
        /\ {restored', wanted'} \subseteq BOOLEAN /\ faults' \in 0..MaxFaults
    BY <1>1, <1>5 DEF TypeOK
  <2>6. /\ batch' \in Seq(1..Len(log')) /\ cursor' \in 0..Len(log')
        /\ {store', file'} \subseteq Stores
    BY <1>3, <1>5, <1>7, <2>2
  <2> QED
    BY <2>1, <2>2, <2>3, <2>4, <2>5, <2>6 DEF TypeOK
<1>14. BatchInv'
  <2> SUFFICES ASSUME NEW k \in 1..Len(batch') PROVE batch'[k] = batch'[1] + k - 1
    BY DEF BatchInv
  <2>1. 1 \in 1..Len(batch')
    BY <1>2, <1>3
  <2>2. batch'[k] = n + k /\ batch'[1] = n + 1
    BY <1>4, <2>1
  <2> QED
    BY <1>2, <2>2
<1>15. HandledInv'
  BY <1>1, <1>2, <1>5, <1>6, <1>8 DEF HandledInv
<1>16. StoreInv'
  <2> SUFFICES ASSUME tool = "history", restored, Remembered
               PROVE  (EntriesInv /\ ReturnInv /\ TurnInv)'
    BY <1>5 DEF StoreInv, Remembered
  <2>1. /\ EntriesInv /\ ReturnInv /\ TurnInv
        /\ \A h \in handled : h <= last
        /\ \A k \in 1..Len(log) : InWindow(k) /\ k < n =>
              store[log[k]].age <= quiet /\ store[log[k]].newer \subseteq TextsOf(k + 1, n - 1)
    BY <1>1 DEF StoreInv, TurnInv, n, last
  <2>2. /\ Ttl \in Nat /\ CacheSize \in Nat /\ Window \in Nat /\ MaxQuiet \in Nat /\ quiet \in Nat
        /\ Window > 0 /\ CacheSize >= Window /\ Ttl > 2 * MaxQuiet /\ quiet <= MaxQuiet
        /\ quiet + MaxQuiet < Ttl /\ quiet < Ttl /\ Ttl > 0 /\ CacheSize > 0
    BY <1>7 DEF Remembered
  <2>3. EntriesInv'
    <3> DEFINE t == log[n]
    <3>1. /\ t \in Texts /\ store' = Asked(t) /\ Asked(t)[t].newer = {}
          /\ \A u \in Texts : Cardinality(Asked(t)[u].newer) < CacheSize
          /\ \A u \in Texts \ {t} : Asked(t)[u].newer \subseteq store[u].newer \cup {t}
      BY <1>1, <1>5, <1>7, <2>2, AskedFacts
    <3> HIDE DEF t
    <3>2. \A u \in Texts : u \notin Asked(t)[u].newer
      BY <2>1, <3>1 DEF EntriesInv
    <3> QED
      BY <3>1, <3>2 DEF EntriesInv
  <2>4. \A lo, hi : TextsOf(lo, hi)' = TextsOf(lo, hi)
    BY <1>5 DEF TextsOf
  <2>5. last - n < Window
    BY <1>2, <1>8, <1>12 DEF last
  (* A line whose text comes after nothing but a window of lines stays known. *)
  <2>6. ASSUME NEW k \in 1..Len(log), NEW h \in 1..Len(log), k <= h, k > h - Window,
               store[log[k]].newer \subseteq TextsOf(h - Window + 1, h), n <= h, n > h - Window,
               NEW bound \in Nat, bound < Ttl, store[log[k]].age <= bound
        PROVE  store'[log[k]].age <= bound
    <3>1. log[k] \in Texts
      BY <1>7
    <3>2. CASE log[k] = log[n]
      <4>1. store'[log[k]].age = 0
        BY <1>1, <1>5, <1>7, <2>2, <3>2, AskedFacts
      <4> QED
        BY <4>1
    <3>3. CASE log[k] # log[n]
      <4> DEFINE newer == store[log[k]].newer \cup {log[n]}
      <4>1. log[n] \in TextsOf(h - Window + 1, h)
        BY <1>2, <2>2, <2>6 DEF TextsOf
      <4>2. newer \in SUBSET TextsOf(h - Window + 1, h) /\ log[k] \notin newer
        BY <2>1, <2>6, <3>1, <3>3, <4>1 DEF EntriesInv
      <4> HIDE DEF newer
      <4>3. Cardinality(newer) < CacheSize
        BY <1>1, <2>6, <4>2, FewTexts
      <4>4. store[log[k]].age < Ttl
        <5>1. store[log[k]].age \in Nat
          BY <1>1, <3>1, TypeFacts
        <5> QED
          BY <2>2, <2>6, <5>1
      <4>5. store'[log[k]].age = store[log[k]].age
        BY <1>1, <1>5, <1>7, <3>1, <3>3, <4>3, <4>4, AskedFacts DEF newer
      <4> QED
        BY <2>6, <4>5
    <3> QED
      BY <3>2, <3>3
  <2>7. ASSUME NEW k \in 1..Len(log)
        PROVE  store'[log[k]].newer \subseteq
                  IF log[k] = log[n] THEN {} ELSE store[log[k]].newer \cup {log[n]}
    BY <1>1, <1>5, <1>7, AskedFacts
  (* The lines this turn has passed, n included. *)
  <2>8. ASSUME NEW k \in 1..Len(log), InWindow(k), k <= n
        PROVE  store'[log[k]].age <= quiet /\ store'[log[k]].newer \subseteq TextsOf(k + 1, n)
    <3>1. k > n - Window /\ k \in Nat /\ n \in Nat
      BY <1>1, <1>2, <2>2, <2>8 DEF InWindow
    <3>2. CASE k = n
      <4>1. log[k] = log[n] /\ store'[log[k]].newer = {}
        BY <2>7, <3>2
      <4>2. store'[log[k]].age = 0
        BY <1>1, <1>5, <1>7, <2>2, <4>1, AskedFacts
      <4> QED
        BY <2>2, <4>1, <4>2
    <3>3. CASE k < n
      <4>1. store[log[k]].age <= quiet /\ store[log[k]].newer \subseteq TextsOf(k + 1, n - 1)
        BY <2>1, <2>8, <3>3
      <4>2. TextsOf(k + 1, n - 1) \subseteq TextsOf(n - Window + 1, n)
        <5>1. \A j \in 1..Len(log) : k + 1 <= j /\ j <= n - 1 => n - Window + 1 <= j /\ j <= n
          BY <1>1, <2>2, <3>1
        <5> QED
          BY <5>1 DEF TextsOf
      <4>3. store'[log[k]].age <= quiet
        <5>1. /\ store[log[k]].newer \subseteq TextsOf(n - Window + 1, n)
              /\ n \in 1..Len(log) /\ k <= n /\ n <= n /\ n > n - Window
          BY <1>2, <2>2, <3>1, <3>3, <4>1, <4>2
        <5> QED
          BY <2>2, <2>6, <3>1, <4>1, <5>1
      <4>4. TextsOf(k + 1, n - 1) \cup {log[n]} \subseteq TextsOf(k + 1, n)
        <5>1. \A j \in 1..Len(log) : k + 1 <= j /\ j <= n - 1 => k + 1 <= j /\ j <= n
          BY <1>1, <3>1
        <5>2. k + 1 <= n /\ n <= n /\ n \in 1..Len(log)
          BY <1>2, <3>1, <3>3
        <5> QED
          BY <5>1, <5>2 DEF TextsOf
      <4> QED
        BY <2>7, <4>1, <4>3, <4>4
    <3> QED
      BY <1>2, <2>8, <3>2, <3>3
  (* The lines after n were asked for in an earlier turn, up to some h. *)
  <2>9. ASSUME NEW k \in 1..Len(log), k > n, Reached(k), InWindow(k) \/ InBatch(k)
        PROVE  /\ store'[log[k]].age <= quiet + MaxQuiet
               /\ \E h \in handled : k <= h /\ store'[log[k]].newer \subseteq TextsOf(h - Window + 1, h)
    <3>1. PICK h \in handled : k <= h /\ store[log[k]].newer \subseteq TextsOf(h - Window + 1, h)
      BY <2>1, <2>9 DEF ReturnInv
    <3>2. h \in 1..Len(log) /\ h <= last /\ k \in Nat /\ n \in Nat /\ last \in Nat
      BY <1>1, <1>2, <1>8, <2>1
    <3>3. n <= h /\ n > h - Window /\ k > h - Window
      BY <2>2, <2>5, <2>9, <3>1, <3>2
    <3>4. store[log[k]].age <= quiet + MaxQuiet
      BY <2>1, <2>9 DEF ReturnInv
    <3>5. store'[log[k]].age <= quiet + MaxQuiet
      <4>1. quiet + MaxQuiet \in Nat /\ quiet + MaxQuiet < Ttl
        BY <2>2
      <4>2. /\ h \in 1..Len(log) /\ k <= h /\ k > h - Window /\ n <= h /\ n > h - Window
            /\ store[log[k]].newer \subseteq TextsOf(h - Window + 1, h)
        BY <3>1, <3>2, <3>3
      <4>3. \A bound \in Nat : bound < Ttl /\ store[log[k]].age <= bound
                                => store'[log[k]].age <= bound
        BY <2>6, <4>2
      <4> QED
        BY <3>4, <4>1, <4>3
    <3>6. log[n] \in TextsOf(h - Window + 1, h)
      BY <1>2, <2>2, <3>2, <3>3 DEF TextsOf
    <3> QED
      BY <2>7, <3>1, <3>5, <3>6
  <2>10. \A h \in handled' : h <= last
    BY <1>2, <1>5, <2>1
  <2>11. \A k : InBatch(k)' => InBatch(k) /\ k > n
    <3> SUFFICES ASSUME NEW k, NEW j \in 1..Len(batch'), batch'[j] = k PROVE InBatch(k) /\ k > n
      BY DEF InBatch
    <3>1. j + 1 \in 1..Len(batch) /\ batch[j + 1] = k
      BY <1>2, <1>3
    <3>2. k = n + j
      BY <1>4
    <3> QED
      BY <1>2, <3>1, <3>2 DEF InBatch
  <2>12. \A k : InWindow(k)' <=> InWindow(k)
    BY <1>5 DEF InWindow
  <2>13. TurnInv'
    <3> SUFFICES ASSUME batch' # <<>> PROVE TurnInv'
      BY DEF TurnInv
    <3>1. Len(batch) # 1 /\ Len(batch') \in Nat /\ Len(batch') > 0
      BY <1>2, <1>3, <1>3a
    <3>2. quiet' = quiet /\ batch'[1] = n + 1 /\ batch'[Len(batch')] = last
      BY <1>4, <1>6, <1>10, <3>1
    <3>3. ASSUME NEW k \in 1..Len(log), InWindow(k), k < n + 1
          PROVE  store'[log[k]].age <= quiet /\ store'[log[k]].newer \subseteq TextsOf(k + 1, n)
      <4>1. k <= n
        BY <1>2, <3>3
      <4> QED
        BY <2>8, <3>3, <4>1
    <3>4. batch'[1] - 1 = n
      BY <1>2, <3>2
    <3> QED
      BY <1>5, <2>10, <2>12, <3>2, <3>3, <3>4 DEF TurnInv, TextsOf
  <2>14. ASSUME NEW k \in 1..Len(log), Reached(k)', InWindow(k) \/ InBatch(k)'
         PROVE  /\ store'[log[k]].age <= quiet' + MaxQuiet
                /\ \E h \in handled' : k <= h /\ store'[log[k]].newer \subseteq TextsOf(h - Window + 1, h)
    <3>1. CASE k <= n
      <4>1. InWindow(k)
        BY <1>2, <2>11, <2>14, <3>1
      <4>2. store'[log[k]].age <= quiet /\ store'[log[k]].newer \subseteq TextsOf(k + 1, n)
        BY <2>8, <3>1, <4>1
      <4>3. TextsOf(k + 1, n) \subseteq TextsOf(n - Window + 1, n)
        <5>1. k > n - Window /\ n \in Nat
          BY <1>1, <1>2, <2>2, <4>1 DEF InWindow
        <5>2. \A j \in 1..Len(log) : k + 1 <= j /\ j <= n => n - Window + 1 <= j /\ j <= n
          BY <1>1, <2>2, <5>1
        <5> QED
          BY <5>2 DEF TextsOf
      <4>4. store'[log[k]].age <= quiet' + MaxQuiet
        <5>1. CASE k = n
          <6>1. store'[log[k]].age = 0
            BY <1>1, <1>5, <1>7, <2>2, <5>1, AskedFacts
          <6> QED
            BY <1>6, <2>2, <6>1
        <5>2. CASE Len(batch) # 1
          <6>1. store'[log[k]].age \in Nat
            BY <1>7, PollingAssumption DEF Stores
          <6> QED
            BY <1>6, <2>2, <4>2, <5>2, <6>1
        <5>3. CASE Len(batch) = 1
          <6>1. store'[log[k]].age \in Nat
            BY <1>7, PollingAssumption DEF Stores
          <6> QED
            BY <1>6, <2>2, <4>2, <5>3, <6>1
        <5> QED
          BY <5>2, <5>3
      <4> QED
        BY <1>5, <3>1, <4>2, <4>3, <4>4
    <3>2. CASE k > n
      <4>1. Reached(k)
        BY <1>2, <1>5, <1>8, <2>14, <3>2 DEF Reached
      <4>2. k <= last
        BY <1>2, <1>8, <2>1, <4>1 DEF Reached
      <4>3. Len(batch) # 1 /\ quiet' = quiet
        BY <1>2, <1>6, <3>2, <4>2
      <4> QED
        BY <1>5, <2>9, <2>11, <2>14, <3>2, <4>1, <4>3
    <3> QED
      BY <1>2, <3>1, <3>2
  <2>15. ReturnInv'
    BY <1>5, <2>4, <2>12, <2>14 DEF ReturnInv
  <2> QED
    BY <2>3, <2>13, <2>15
<1>17. CursorInv'
  BY <1>2, <1>3, <1>4, <1>5, <1>8, <1>11 DEF CursorInv, Larger
<1> QED
  BY <1>13, <1>14, <1>15, <1>16, <1>17 DEF IndInv

-----------------------------------------------------------------------------
(* The other steps. *)

LEMMA StopStep == IndInv /\ Stop => IndInv'
<1> SUFFICES ASSUME IndInv, Stop PROVE IndInv'
  OBVIOUS
<1> USE PollingAssumption
<1>1. /\ TypeOK /\ batch' = <<>> /\ phase' = "idle" /\ wanted' = FALSE
      /\ UNCHANGED <<tool, session, cursor, store, file, faults, restored, log, quiet>>
      /\ UNCHANGED <<clients, handled, forwarded>>
  BY DEF IndInv, Stop, storeVars
<1>2. TypeOK'
  <2>1. batch' \in Seq(1..Len(log')) /\ Len(batch') = 0
    BY <1>1
  <2>2. forwarded' \in Seq(handled')
    BY <1>1 DEF TypeOK
  <2>3. phase' = "dispatch" <=> batch' # <<>>
    BY <1>1
  <2>4. cursor' \in 0..Len(log') /\ Len(batch') <= Window /\ Len(log') <= MaxLog
    BY <1>1, <2>1 DEF TypeOK
  <2>5. {store', file'} \subseteq Stores /\ log' \in Seq(Texts) /\ handled' \subseteq Lines
    BY <1>1 DEF TypeOK
  <2> QED
    BY <1>1, <2>1, <2>2, <2>3, <2>4, <2>5 DEF TypeOK
<1>3. BatchInv' /\ HandledInv' /\ CursorInv'
  BY <1>1 DEF IndInv, BatchInv, HandledInv, CursorInv
<1>4. StoreInv'
  BY <1>1, SameStore DEF IndInv
<1> QED
  BY <1>2, <1>3, <1>4 DEF IndInv

LEMMA SayStep == IndInv /\ (\E t \in Texts : Say(t)) => IndInv'
<1> SUFFICES ASSUME IndInv, NEW t \in Texts, Say(t) PROVE IndInv'
  OBVIOUS
<1> USE PollingAssumption
<1>1. /\ TypeOK /\ HandledInv /\ StoreInv /\ log \in Seq(Texts) /\ log' = Append(log, t)
      /\ Len(log) < MaxLog
      /\ UNCHANGED <<tool, phase, session, cursor, batch, store, file, faults, restored, quiet>>
      /\ UNCHANGED <<clients, handled, forwarded, wanted>>
  BY DEF IndInv, Say, clientVars, storeVars, historyVars, TypeOK
<1>2. /\ log' \in Seq(Texts) /\ Len(log') = Len(log) + 1 /\ Len(log) \in Nat
      /\ \A n \in 1..Len(log) : log'[n] = log[n]
  BY <1>1
<1>3. TypeOK'
  <2>1. batch' \in Seq(1..Len(log'))
    BY <1>1, <1>2, SeqGrows DEF TypeOK
  <2>2. log' \in Seq(Texts) /\ Len(log') <= MaxLog /\ cursor' \in 0..Len(log')
    BY <1>1, <1>2 DEF TypeOK
  <2>3. forwarded' \in Seq(handled') /\ handled' \subseteq Lines /\ {store', file'} \subseteq Stores
    BY <1>1 DEF TypeOK
  <2>4. Len(batch') <= Window /\ (phase' = "dispatch" <=> batch' # <<>>)
    BY <1>1 DEF TypeOK
  <2>5. /\ tool' \in {"history", "recent"} /\ session' \in {"none", "open", "expired"}
        /\ phase' \in {"idle", "initialize", "notify", "poll", "dispatch", "wait"}
        /\ quiet' \in 0..MaxQuiet /\ clients' \in 0..MaxClients
        /\ {restored', wanted'} \subseteq BOOLEAN /\ faults' \in 0..MaxFaults
    BY <1>1 DEF TypeOK
  <2> QED
    BY <2>1, <2>2, <2>3, <2>4, <2>5 DEF TypeOK
<1>4. BatchInv' /\ CursorInv'
  BY <1>1 DEF IndInv, BatchInv, CursorInv
<1>5. \A h \in handled : h \in Nat /\ h <= Len(log)
  BY <1>1 DEF TypeOK, HandledInv, Lines
<1>6. HandledInv'
  BY <1>1, <1>2, <1>5 DEF HandledInv
<1>7. StoreInv'
  <2> SUFFICES ASSUME tool = "history", restored, Remembered
               PROVE  (EntriesInv /\ ReturnInv /\ TurnInv)'
    BY <1>1 DEF StoreInv, Remembered
  <2>0. EntriesInv /\ ReturnInv /\ TurnInv
    BY <1>1 DEF StoreInv
  <2>1. ASSUME NEW n \in 1..Len(log'), InWindow(n)'
        PROVE  n = Len(log') \/ (n \in 1..Len(log) /\ InWindow(n))
    BY <1>2, <2>1 DEF InWindow
  <2>2. ASSUME NEW n \in 1..Len(log'), Reached(n)'
        PROVE  n \in 1..Len(log) /\ Reached(n)
    BY <1>1, <1>2, <1>5, <2>2 DEF Reached
  <2>3. \A n : InBatch(n)' <=> InBatch(n)
    BY <1>1 DEF InBatch
  <2>4. batch # <<>> => batch[1] \in 1..Len(log)
    BY <1>1, TypeFacts
  <2>5. \A lo, hi : TextsOf(lo, hi) \subseteq TextsOf(lo, hi)'
    <3> SUFFICES ASSUME NEW lo, NEW hi, NEW j \in 1..Len(log), lo <= j, j <= hi
                 PROVE  log[j] \in TextsOf(lo, hi)'
      BY DEF TextsOf
    <3>1. j \in 1..Len(log') /\ log'[j] = log[j]
      BY <1>2
    <3> QED
      BY <3>1 DEF TextsOf
  <2>6. ASSUME NEW n \in 1..Len(log'), Reached(n)', InWindow(n)' \/ InBatch(n)'
        PROVE  /\ store[log'[n]].age <= quiet + MaxQuiet
               /\ \E h \in handled : n <= h /\ store[log'[n]].newer \subseteq TextsOf(h - Window + 1, h)'
    <3>1. n \in 1..Len(log) /\ Reached(n) /\ (InWindow(n) \/ InBatch(n)) /\ log'[n] = log[n]
      BY <1>2, <2>1, <2>2, <2>3, <2>6
    <3> QED
      BY <2>0, <2>5, <3>1 DEF ReturnInv
  <2>7. ASSUME NEW n \in 1..Len(log'), InWindow(n)', batch # <<>>, n < batch[1]
        PROVE  /\ store[log'[n]].age <= quiet
               /\ store[log'[n]].newer \subseteq TextsOf(n + 1, batch[1] - 1)'
    <3>1. n \in 1..Len(log) /\ InWindow(n) /\ log'[n] = log[n]
      BY <1>2, <2>1, <2>4, <2>7
    <3> QED
      BY <1>1, <2>0, <2>5, <2>7, <3>1 DEF TurnInv
  <2>8. EntriesInv' /\ ReturnInv'
    BY <1>1, <2>0, <2>6 DEF EntriesInv, ReturnInv
  <2>9. TurnInv'
    BY <1>1, <2>0, <2>7 DEF TurnInv
  <2> QED
    BY <2>8, <2>9
<1> QED
  BY <1>3, <1>4, <1>6, <1>7 DEF IndInv

LEMMA TickStep == IndInv /\ Tick => IndInv'
<1> SUFFICES ASSUME IndInv, Tick PROVE IndInv'
  OBVIOUS
<1> USE PollingAssumption
<1>1. /\ TypeOK /\ StoreInv /\ quiet' = quiet + 1 /\ quiet < MaxQuiet
      /\ store' = Older(store) /\ file' = Older(file) /\ store \in Stores /\ file \in Stores
      /\ UNCHANGED <<tool, phase, session, cursor, batch, faults, restored, log, clients>>
      /\ UNCHANGED <<handled, forwarded, wanted>>
  BY DEF IndInv, Tick, clientVars, historyVars, TypeOK
<1>2. /\ store' \in Stores /\ file' \in Stores
      /\ \A n \in 1..Len(log) : log[n] \in Texts
      /\ quiet \in Nat /\ MaxQuiet \in Nat /\ Ttl \in Nat
      /\ \A t \in Texts : store[t].age \in Nat
  BY <1>1, OlderFacts, TypeFacts
<1>3. TypeOK'
  <2>1. quiet' \in 0..MaxQuiet
    BY <1>1, <1>2
  <2> QED
    BY <1>1, <1>2, <2>1 DEF TypeOK
<1>4. BatchInv' /\ HandledInv' /\ CursorInv'
  BY <1>1 DEF IndInv, BatchInv, HandledInv, CursorInv
<1>5. StoreInv'
  <2> SUFFICES ASSUME tool = "history", restored, Remembered
               PROVE  (EntriesInv /\ ReturnInv /\ TurnInv)'
    BY <1>1 DEF StoreInv, Remembered
  <2>0. /\ EntriesInv /\ ReturnInv /\ TurnInv
        /\ CacheSize > 0 /\ Ttl > 2 * MaxQuiet
    BY <1>1 DEF StoreInv, Remembered
  <2>1. \A t \in Texts :
           /\ store'[t].newer \subseteq store[t].newer
           /\ Cardinality(store'[t].newer) < CacheSize
    BY <1>1, <2>0, OlderFacts
  <2>2. ASSUME NEW n \in 1..Len(log), NEW bound \in Nat, bound + 1 < Ttl, store[log[n]].age <= bound
        PROVE  store'[log[n]].age <= bound + 1
    <3>1. log[n] \in Texts /\ store[log[n]].age + 1 < Ttl
      BY <1>2, <2>2
    <3>2. Cardinality(store[log[n]].newer) < CacheSize
      BY <2>0, <3>1 DEF EntriesInv
    <3>3. store'[log[n]].age = store[log[n]].age + 1
      BY <1>1, <3>1, <3>2, OlderFacts
    <3> QED
      BY <1>2, <2>2, <3>1, <3>3
  <2>3. /\ quiet + MaxQuiet \in Nat /\ quiet' + MaxQuiet = quiet + MaxQuiet + 1
        /\ quiet + MaxQuiet + 1 < Ttl /\ quiet + 1 < Ttl
    BY <1>1, <1>2, <2>0
  <2>4. EntriesInv'
    BY <2>0, <2>1 DEF EntriesInv
  <2>5. /\ \A lo, hi : TextsOf(lo, hi)' = TextsOf(lo, hi)
        /\ \A n : (Reached(n)' <=> Reached(n)) /\ (InWindow(n)' <=> InWindow(n)) /\ (InBatch(n)' <=> InBatch(n))
    BY <1>1 DEF TextsOf, Reached, InWindow, InBatch
  <2>6. ReturnInv'
    <3> SUFFICES ASSUME NEW n \in 1..Len(log), Reached(n), InWindow(n) \/ InBatch(n)
                 PROVE  /\ store'[log[n]].age <= quiet' + MaxQuiet
                        /\ \E h \in handled : n <= h /\ store'[log[n]].newer \subseteq TextsOf(h - Window + 1, h)
      BY <1>1, <2>5 DEF ReturnInv
    <3>1. /\ store[log[n]].age <= quiet + MaxQuiet
          /\ \E h \in handled : n <= h /\ store[log[n]].newer \subseteq TextsOf(h - Window + 1, h)
      BY <2>0 DEF ReturnInv
    <3>2. store'[log[n]].age <= quiet' + MaxQuiet
      BY <2>2, <2>3, <3>1
    <3>3. store'[log[n]].newer \subseteq store[log[n]].newer
      BY <1>2, <2>1
    <3> QED
      BY <3>1, <3>2, <3>3
  <2>7. TurnInv'
    <3>1. ASSUME NEW n \in 1..Len(log), batch # <<>>, InWindow(n), n < batch[1]
          PROVE  /\ store'[log[n]].age <= quiet'
                 /\ store'[log[n]].newer \subseteq TextsOf(n + 1, batch[1] - 1)
      <4>1. store[log[n]].age <= quiet /\ store[log[n]].newer \subseteq TextsOf(n + 1, batch[1] - 1)
        BY <2>0, <3>1 DEF TurnInv
      <4>2. store'[log[n]].age <= quiet + 1
        BY <1>2, <2>2, <2>3, <4>1
      <4>3. store'[log[n]].newer \subseteq store[log[n]].newer
        BY <1>2, <2>1
      <4> QED
        BY <1>1, <4>1, <4>2, <4>3
    <3> QED
      BY <1>1, <2>0, <2>5, <3>1 DEF TurnInv
  <2> QED
    BY <2>4, <2>6, <2>7
<1> QED
  BY <1>3, <1>4, <1>5 DEF IndInv

LEMMA IndStep == IndInv /\ [Next]_vars => IndInv'
<1> SUFFICES ASSUME IndInv, [Next]_vars PROVE IndInv'
  OBVIOUS
<1>1. TypeOK /\ HandledInv
  BY DEF IndInv
<1>2. CASE Connect
  <2>1. wanted' \in BOOLEAN /\ clients' # 0 /\ wanted'
    BY <1>1, <1>2, PollingAssumption DEF Connect, TypeOK
  <2> QED
    BY <1>1, <1>2, <2>1, PhaseStep DEF Connect
<1>5. CASE FileLost
  <2>1. /\ UNCHANGED <<tool, phase, session, cursor, batch, store, restored, log, quiet, clients>>
        /\ UNCHANGED <<handled, forwarded, wanted>>
        /\ file' = EmptyStore /\ faults' \in 0..MaxFaults
    BY <1>1, <1>5, PollingAssumption DEF FileLost, Fault, clientVars, historyVars, TypeOK
  <2>2. TypeOK'
    BY <1>1, <2>1, EmptyStoreFacts DEF TypeOK
  <2>3. BatchInv' /\ HandledInv' /\ CursorInv'
    BY <2>1 DEF IndInv, BatchInv, HandledInv, CursorInv
  <2>4. StoreInv'
    BY <2>1, SameStore DEF IndInv
  <2> QED
    BY <2>2, <2>3, <2>4 DEF IndInv
<1>3. CASE Initialized \/ Notified \/ InitializeFails \/ PollFails \/ WaitEnds
  BY <1>1, <1>3, PhaseStep
  DEF Initialized, Notified, InitializeFails, PollFails, WaitEnds, Goto, storeVars, historyVars, HandledInv, TypeOK
<1>4. CASE SessionExpires \/ UNCHANGED vars
  <2>1. /\ UNCHANGED <<tool, phase, cursor, batch, store, file, faults, restored, log, quiet, clients>>
        /\ UNCHANGED <<handled, forwarded, wanted>>
        /\ session' \in {"none", "open", "expired"}
    BY <1>1, <1>4 DEF SessionExpires, vars, clientVars, storeVars, historyVars, TypeOK
  <2>2. TypeOK'
    BY <1>1, <2>1 DEF TypeOK
  <2>3. BatchInv' /\ HandledInv' /\ CursorInv'
    BY <2>1 DEF IndInv, BatchInv, HandledInv, CursorInv
  <2>4. StoreInv'
    BY <2>1, SameStore DEF IndInv
  <2> QED
    BY <2>2, <2>3, <2>4 DEF IndInv
<1> QED
  BY <1>2, <1>5, <1>3, <1>4, PollAnsweredStep, DispatchStep, StopStep, SayStep, TickStep
  DEF Next, TaskStep

(* A batch is a piece of the log, and every handled line that a poll can     *)
(* still return was asked for not long ago and not many texts ago, in every  *)
(* reachable state.                                                          *)
THEOREM InvariantHolds == Spec => []IndInv
<1>1. IndInv /\ [Next]_vars => IndInv'
  BY IndStep
<1> QED
  BY <1>1, InitInv, PTL DEF Spec

-----------------------------------------------------------------------------
(* Whatever reaches on_message for the second time is still known there. *)

LEMMA OrderStep ==
    Remembered /\ IndInv /\ IndInv' /\ ForwardedInOrder /\ [Next]_vars => ForwardedInOrder'
<1> SUFFICES ASSUME Remembered, IndInv, IndInv', ForwardedInOrder, [Next]_vars
             PROVE  ForwardedInOrder'
  OBVIOUS
<1> USE PollingAssumption
<1>0. TypeOK /\ forwarded \in Seq(handled)
  BY DEF IndInv, TypeOK
<1>1. /\ TypeOK /\ forwarded \in Seq(handled) /\ Len(forwarded) \in Nat
      /\ \A k \in 1..Len(forwarded) : forwarded[k] \in handled
  BY <1>0
<1>2. tool' = tool
  BY DEF Next, TaskStep, Connect, Initialized, Notified, InitializeFails, PollAnswered, PollFails,
         Dispatch, WaitEnds, Goto, Stop, SessionExpires, Say, FileLost, Tick, clientVars, vars
<1>3. clients' >= clients /\ clients \in Nat
  BY <1>1 DEF Next, TaskStep, Connect, Initialized, Notified, InitializeFails, PollAnswered, PollFails,
         Dispatch, WaitEnds, Goto, Stop, SessionExpires, Say, FileLost, Tick, clientVars, vars, TypeOK
<1>6. restored' => restored
  BY DEF Next, TaskStep, Connect, Initialized, Notified, InitializeFails, PollAnswered, PollFails,
         Dispatch, WaitEnds, Goto, Stop, SessionExpires, Say, FileLost, Tick, storeVars, vars
<1>4. ASSUME NEW saved \in BOOLEAN, Dispatch(saved) PROVE ForwardedInOrder'
  <2> DEFINE n == batch[1]
  <2>1. /\ batch # <<>> /\ batch \in Seq(1..Len(log)) /\ Head(batch) = n /\ Len(batch) > 0
        /\ n \in 1..Len(log) /\ clients' = clients /\ restored' = restored /\ log[n] \in Texts /\ store[log[n]].age \in 0..Ttl
        /\ MaxQuiet \in Nat /\ quiet \in 0..MaxQuiet
    <3>1. batch # <<>> /\ batch \in Seq(1..Len(log)) /\ clients' = clients /\ restored' = restored
      BY <1>1, <1>4 DEF TypeOK, Dispatch
    <3>2. Len(batch) > 0 /\ Head(batch) = n /\ n \in 1..Len(log)
      BY <1>1, <3>1, TypeFacts
    <3> QED
      BY <1>1, <3>1, <3>2, TypeFacts
  <2>2. forwarded' = forwarded \/ (forwarded' = Append(forwarded, n) /\ ~(Known(log[n])))
    BY <1>4, <2>1 DEF Dispatch
  <2>3. ASSUME (tool = "history" /\ restored) \/ (tool = "recent" /\ clients <= 1), ~(Known(log[n])), NEW h \in handled
        PROVE  h < n
    <3>1. h \in Nat
      BY <1>1 DEF TypeOK, Lines
    <3>2. CASE tool = "history"
      <4>1. ~(store[log[n]].age <= quiet + MaxQuiet)
        BY <2>1, <2>3 DEF Remembered, Known
      <4>2. InBatch(n)
        BY <2>1 DEF InBatch
      <4>3. ~Reached(n)
        BY <2>1, <2>3, <3>2, <4>1, <4>2 DEF IndInv, StoreInv, ReturnInv
      <4> QED
        BY <2>1, <3>1, <4>3 DEF Reached
    <3>3. CASE tool = "recent"
      <4>1. cursor < n /\ h <= cursor /\ cursor \in Nat
        BY <1>1, <2>1, <2>3, <3>3 DEF IndInv, CursorInv, TypeOK
      <4> QED
        BY <2>1, <3>1, <4>1
    <3> QED
      BY <1>1, <3>2, <3>3 DEF TypeOK
  <2> HIDE DEF n
  <2>4. CASE forwarded' = forwarded
    BY <1>2, <2>1, <2>4 DEF ForwardedInOrder
  <2>5. CASE forwarded' = Append(forwarded, n) /\ ~(Known(log[n]))
    <3> SUFFICES ASSUME (tool = "history" /\ restored) \/ (tool = "recent" /\ clients <= 1),
                        NEW i \in 1..Len(forwarded'), NEW j \in 1..Len(forwarded'), i < j
                 PROVE  forwarded'[i] < forwarded'[j]
      BY <1>2, <2>1 DEF ForwardedInOrder
    <3>1. /\ Len(forwarded') = Len(forwarded) + 1 /\ forwarded'[Len(forwarded) + 1] = n
          /\ \A k \in 1..Len(forwarded) : forwarded'[k] = forwarded[k]
      BY <1>1, <2>5
    <3>2. i \in 1..Len(forwarded) /\ (j \in 1..Len(forwarded) \/ j = Len(forwarded) + 1)
      BY <1>1, <3>1
    <3> QED
      BY <1>1, <2>3, <2>5, <3>1, <3>2 DEF ForwardedInOrder
  <2> QED
    BY <2>2, <2>4, <2>5
<1>5. CASE ~(\E saved \in BOOLEAN : Dispatch(saved))
  <2>1. forwarded' = forwarded
    BY <1>5 DEF Next, TaskStep, Connect, Initialized, Notified, InitializeFails, PollAnswered, PollFails,
         WaitEnds, Goto, Stop, SessionExpires, Say, FileLost, Tick, historyVars, vars
  <2>2. clients' \in Nat
    BY PollingAssumption DEF IndInv, TypeOK
  <2> QED
    <3>1. clients' <= 1 => clients <= 1
      BY <1>3, <2>2
    <3> QED
      BY <1>2, <1>6, <2>1, <3>1 DEF ForwardedInOrder
<1> QED
  BY <1>4, <1>5

(* Every variable keeps its type in every reachable state. *)
THEOREM TypeCorrect == Spec => []TypeOK
<1>1. IndInv => TypeOK
  BY DEF IndInv
<1> QED
  BY <1>1, InvariantHolds, PTL

(* No line is forwarded twice or before an older one, whatever polls and     *)
(* saves fail, sessions expire and clients restart, if ttl_seconds is more   *)
(* than twice the longest time between two completed polls, cache_size not   *)
(* below chat_max_count, and every start found the whole store in its file   *)
(* (http_mcp_client.py, poll_once; persistence.py, DedupStore.check_and_add  *)
(* and load).                                                                *)
THEOREM LinesInOrder == Remembered => (Spec => []ForwardedInOrder)
<1> SUFFICES ASSUME Remembered PROVE Spec => []ForwardedInOrder
  OBVIOUS
<1>1. Init => ForwardedInOrder
  BY DEF Init, ForwardedInOrder
<1>2. IndInv /\ IndInv' /\ ForwardedInOrder /\ [Next]_vars => ForwardedInOrder'
  BY OrderStep
<1> QED
  BY <1>1, <1>2, InvariantHolds, PTL DEF Spec
====
