---------------------------- MODULE RuntimeProofs ----------------------------
(***************************************************************************)
(* Theorems about Runtime, for every number of callers and configurations  *)
(* and every supply of task identities.                                    *)
(*                                                                         *)
(* OneGeneration is not inductive: it does not say who may be at the lock. *)
(* QueueInv relates the queue, the lock and what the callers are doing;    *)
(* GenerationInv says that a pair is cancelled only under a stop that      *)
(* holds the lock, which is what keeps a task of an earlier start away.    *)
(***************************************************************************)
EXTENDS Runtime, SequenceTheorems, TLAPS

LOCAL INSTANCE SequencesExt

USE RuntimeAssumption

(* c waits for the lock, and nobody does so twice. *)
Member(s, c) == \E i \in DOMAIN s : s[i] = c
Distinct(s) == \A i, j \in DOMAIN s : s[i] = s[j] => i = j

LockTypes ==
    /\ lock \in Callers \cup {Nobody}
    /\ waiters \in Seq(Callers) /\ Distinct(waiters)
    /\ calls \in [Callers -> [op : {"none", "start", "stop", "reload"},
                              arg : Configs \cup {Nobody}]]

TaskTypes ==
    /\ config \in Configs
    /\ pipeline \in Configs \cup {Nobody}
    /\ started \in BOOLEAN /\ stop_event \in BOOLEAN
    /\ current \in Tasks \cup {Nobody}
    /\ client \in [Tasks -> Working \cup {"ending", "dead", "none"}]
    /\ worker \in [Tasks -> {"running", "ending", "none"}]
    /\ status \in [running : BOOLEAN, connected : BOOLEAN,
                   lifecycle : {"created", "starting", "ready", "trouble",
                                "failed", "inactive", "stopped"}]

LEMMA TypeParts == TypeOK <=> LockTypes /\ TaskTypes
BY DEF TypeOK, LockTypes, TaskTypes, Distinct

CallInv ==
    /\ \A c \in Callers : calls[c].op = "none" => calls[c] = NoCall
    /\ \A c \in Callers : calls[c].op = "reload" => calls[c].arg \in Configs

(* Who waits for the lock, or holds it, is in a call; only a stop keeps it,  *)
(* and does not wait for it.                                                 *)
QueueInv ==
    /\ \A c \in Callers : Member(waiters, c) => calls[c].op # "none" /\ lock # c
    /\ Stopping => calls[lock].op \in {"stop", "reload"}

GenerationInv ==
    /\ started => current \in Tasks
    /\ Stopping => started /\ worker[current] \in {"ending", "none"}

LockPart == LockTypes /\ CallInv /\ QueueInv
TaskPart == TaskTypes /\ GenerationInv /\ OneGeneration /\ StatusTruthful

IndInv == LockPart /\ TaskPart

-----------------------------------------------------------------------------
(* The queue of the lock. *)
LEMMA Joins ==
    ASSUME NEW s \in Seq(Callers), Distinct(s), NEW c \in Callers, ~Member(s, c)
    PROVE  /\ Append(s, c) \in Seq(Callers) /\ Distinct(Append(s, c))
           /\ \A d : Member(Append(s, c), d) <=> Member(s, d) \/ d = c
<1> DEFINE n == Len(s)
           new == Append(s, c)
<1>1. n \in Nat /\ DOMAIN s = 1..n
  BY LenProperties
<1>2. new \in Seq(Callers) /\ DOMAIN new = 1..n + 1
  BY AppendProperties, LenProperties
<1>3. new[n + 1] = c /\ \A i \in 1..n : new[i] = s[i]
  BY AppendProperties
<1> HIDE DEF n, new
<1>4. Distinct(new)
  BY <1>1, <1>2, <1>3 DEF Distinct, Member
<1>5. \A d : Member(new, d) <=> Member(s, d) \/ d = c
  BY <1>1, <1>2, <1>3 DEF Member
<1> QED
  BY <1>2, <1>4, <1>5 DEF new

LEMMA Leaves ==
    ASSUME NEW s \in Seq(Callers), Distinct(s), s # <<>>
    PROVE  /\ Head(s) \in Callers /\ Member(s, Head(s))
           /\ Tail(s) \in Seq(Callers) /\ Distinct(Tail(s))
           /\ \A d : Member(Tail(s), d) <=> Member(s, d) /\ d # Head(s)
<1> DEFINE n == Len(s)
           rest == Tail(s)
<1>1. n \in Nat \ {0} /\ DOMAIN s = 1..n
  BY LenProperties, EmptySeq
<1>2. rest \in Seq(Callers) /\ DOMAIN rest = 1..n - 1 /\ \A i \in 1..n - 1 : rest[i] = s[i + 1]
  BY HeadTailProperties, LenProperties
<1>3. Head(s) = s[1] /\ Head(s) \in Callers
  BY HeadTailProperties
<1> HIDE DEF n, rest
<1>4. Distinct(rest)
  <2> SUFFICES ASSUME NEW i \in 1..n - 1, NEW j \in 1..n - 1, rest[i] = rest[j] PROVE i = j
    BY <1>2 DEF Distinct
  <2>1. i + 1 \in DOMAIN s /\ j + 1 \in DOMAIN s /\ s[i + 1] = s[j + 1]
    BY <1>1, <1>2
  <2>2. i + 1 = j + 1
    BY <2>1 DEF Distinct
  <2> QED
    BY <1>1, <2>2
<1>5. ASSUME NEW d PROVE Member(rest, d) <=> Member(s, d) /\ d # s[1]
  <2>1. ASSUME NEW i \in DOMAIN rest PROVE i + 1 \in DOMAIN s /\ i + 1 # 1 /\ 1 \in DOMAIN s
    BY <1>1, <1>2
  <2>2. ASSUME NEW i \in DOMAIN s, i # 1 PROVE i - 1 \in DOMAIN rest /\ s[i] = rest[i - 1]
    BY <1>1, <1>2, <2>2
  <2> QED
    BY <1>2, <2>1, <2>2 DEF Member, Distinct
<1> QED
  BY <1>1, <1>2, <1>3, <1>4, <1>5 DEF rest, Member

LEMMA Removed ==
    ASSUME NEW s \in Seq(Callers), Distinct(s), NEW k \in DOMAIN s
    PROVE  /\ RemoveAt(s, k) \in Seq(Callers) /\ Distinct(RemoveAt(s, k))
           /\ \A d : Member(RemoveAt(s, k), d) <=> Member(s, d) /\ d # s[k]
<1> DEFINE n == Len(s)
           front == SubSeq(s, 1, k - 1)
           back == SubSeq(s, k + 1, n)
           rest == RemoveAt(s, k)
<1>1. n \in Nat /\ DOMAIN s = 1..n /\ k \in 1..n
  BY LenProperties
<1>2. \A i \in 1..n : s[i] \in Callers
  BY ElementOfSeq
<1>3. front \in Seq(Callers) /\ Len(front) = k - 1 /\ \A i \in 1..k - 1 : front[i] = s[i]
  BY <1>1, <1>2, SubSeqProperties
<1>4. back \in Seq(Callers) /\ Len(back) = n - k /\ \A i \in 1..n - k : back[i] = s[i + k]
  BY <1>1, <1>2, SubSeqProperties
<1>5. rest = front \o back
  BY DEF RemoveAt
<1> HIDE DEF n, front, back, rest
<1>6. /\ rest \in Seq(Callers) /\ Len(rest) = Len(front) + Len(back)
      /\ \A i \in 1..Len(front) + Len(back) :
            rest[i] = IF i <= Len(front) THEN front[i] ELSE back[i - Len(front)]
  BY <1>3, <1>4, <1>5, ConcatProperties
<1>7. Len(rest) = n - 1 /\ DOMAIN rest = 1..n - 1
  BY <1>1, <1>3, <1>4, <1>6, LenProperties
<1>8. \A i \in 1..n - 1 : rest[i] = IF i < k THEN s[i] ELSE s[i + 1]
  <2> SUFFICES ASSUME NEW i \in 1..n - 1 PROVE rest[i] = IF i < k THEN s[i] ELSE s[i + 1]
    OBVIOUS
  <2>1. CASE i < k
    BY <1>1, <1>3, <1>4, <1>6, <2>1
  <2>2. CASE i >= k
    <3>1. rest[i] = back[i - (k - 1)] /\ i - (k - 1) \in 1..n - k
      BY <1>1, <1>3, <1>4, <1>6, <2>2
    <3>2. back[i - (k - 1)] = s[i - (k - 1) + k]
      BY <1>4, <3>1
    <3>3. i - (k - 1) + k = i + 1
      BY <1>1
    <3> QED
      BY <1>1, <2>2, <3>1, <3>2, <3>3
  <2> QED
    BY <1>1, <2>1, <2>2
<1>9. Distinct(rest)
  <2> DEFINE Old(i) == IF i < k THEN i ELSE i + 1
  <2> SUFFICES ASSUME NEW i \in 1..n - 1, NEW j \in 1..n - 1, rest[i] = rest[j] PROVE i = j
    BY <1>7 DEF Distinct
  <2>1. Old(i) \in DOMAIN s /\ Old(j) \in DOMAIN s /\ s[Old(i)] = s[Old(j)]
    BY <1>1, <1>8
  <2>2. Old(i) = Old(j)
    BY <2>1 DEF Distinct
  <2> QED
    BY <1>1, <2>2
<1>10. ASSUME NEW d PROVE Member(rest, d) <=> Member(s, d) /\ d # s[k]
  <2>1. ASSUME NEW i \in DOMAIN rest
        PROVE  \E j \in DOMAIN s : j # k /\ rest[i] = s[j]
    <3>1. i \in 1..n - 1 /\ rest[i] = IF i < k THEN s[i] ELSE s[i + 1]
      BY <1>7, <1>8
    <3>2. CASE i < k
      <4>1. i \in DOMAIN s /\ i # k
        BY <1>1, <3>1, <3>2
      <4> QED
        BY <3>1, <3>2, <4>1
    <3>3. CASE i >= k
      <4>1. i + 1 \in DOMAIN s /\ i + 1 # k /\ rest[i] = s[i + 1]
        BY <1>1, <3>1, <3>3
      <4> QED
        BY <4>1
    <3> QED
      BY <1>1, <3>1, <3>2, <3>3
  <2>2. ASSUME NEW j \in DOMAIN s, j # k
        PROVE  \E i \in DOMAIN rest : rest[i] = s[j]
    <3>1. CASE j < k
      BY <1>1, <1>7, <1>8, <3>1
    <3>2. CASE j > k
      <4>1. j - 1 \in DOMAIN rest /\ rest[j - 1] = s[j]
        BY <1>1, <1>7, <1>8, <3>2
      <4> QED
        BY <4>1
    <3> QED
      BY <1>1, <2>2, <3>1, <3>2
  <2> QED
    BY <2>1, <2>2 DEF Member, Distinct
<1> QED
  BY <1>6, <1>9, <1>10 DEF rest

-----------------------------------------------------------------------------
(* Steps at the lock. *)

(* A call in progress is replaced by another, or ends. *)
LEMMA CallChanges ==
    ASSUME LockPart, NEW c \in Callers, NEW op \in {"start", "stop", "reload"},
           NEW a \in Configs \cup {Nobody}, op = "reload" => a \in Configs,
           Calling(c, op, a)
    PROVE  /\ calls' \in [Callers -> [op : {"none", "start", "stop", "reload"},
                                      arg : Configs \cup {Nobody}]]
           /\ CallInv'
           /\ calls'[c].op = op
           /\ \A d \in Callers \ {c} : calls'[d] = calls[d]
BY DEF LockPart, LockTypes, CallInv, Calling, NoCall

LEMMA CallEnds ==
    ASSUME LockPart, NEW c \in Callers, Return(c)
    PROVE  /\ calls' \in [Callers -> [op : {"none", "start", "stop", "reload"},
                                      arg : Configs \cup {Nobody}]]
           /\ CallInv'
           /\ \A d \in Callers \ {c} : calls'[d] = calls[d]
BY DEF LockPart, LockTypes, CallInv, Return, NoCall

LEMMA RequestStep ==
    ASSUME LockPart, NEW c \in Callers, calls[c] = NoCall, UNCHANGED lock,
           NEW op \in {"start", "stop", "reload"},
           NEW a \in Configs \cup {Nobody}, op = "reload" => a \in Configs,
           Request(c, op, a)
    PROVE  LockPart'
<1>1. Calling(c, op, a) /\ waiters' = Append(waiters, c)
  BY DEF Request
<1>2. ~Member(waiters, c) /\ lock # c
  BY DEF LockPart, QueueInv, NoCall, Stopping
<1>3. /\ waiters' \in Seq(Callers) /\ Distinct(waiters')
      /\ \A d : Member(waiters', d) <=> Member(waiters, d) \/ d = c
  BY <1>1, <1>2, Joins DEF LockPart, LockTypes
<1> QED
  BY <1>1, <1>2, <1>3, CallChanges DEF LockPart, LockTypes, QueueInv, Stopping

LEMMA TurnFacts ==
    ASSUME LockPart, NEW c \in Callers, Turn(c)
    PROVE  /\ ~Stopping /\ Member(waiters, c)
           /\ Tail(waiters) \in Seq(Callers) /\ Distinct(Tail(waiters))
           /\ \A d : Member(Tail(waiters), d) <=> Member(waiters, d) /\ d # c
BY Leaves DEF LockPart, LockTypes, Turn, Stopping

(* start() and an ignored stop() return and make room at the lock. *)
LEMMA ReturnStep ==
    ASSUME LockPart, NEW c \in Callers, Turn(c), Return(c),
           waiters' = Tail(waiters), UNCHANGED lock
    PROVE  LockPart'
BY TurnFacts, CallEnds DEF LockPart, LockTypes, QueueInv, Stopping, Turn

LEMMA AfterStopStep ==
    ASSUME LockPart, config \in Configs, NEW c \in Callers, NEW rest \in Seq(Callers), Distinct(rest),
           \A d : Member(rest, d) => Member(waiters, d) /\ d # c,
           lock \in {c, Nobody}, lock' = Nobody, AfterStop(c, rest)
    PROVE  LockPart' /\ config' \in Configs
<1>1. CASE calls[c].op = "reload"
  <2>1. Calling(c, "start", Nobody) /\ waiters' = Append(rest, c) /\ config' = calls[c].arg
    BY <1>1 DEF AfterStop
  <2>2. ~Member(rest, c)
    OBVIOUS
  <2>3. /\ waiters' \in Seq(Callers) /\ Distinct(waiters')
        /\ \A d : Member(waiters', d) <=> Member(rest, d) \/ d = c
    BY <2>1, <2>2, Joins
  <2> QED
    BY <1>1, <2>1, <2>3, CallChanges DEF LockPart, LockTypes, QueueInv, CallInv, Stopping
<1>2. CASE calls[c].op # "reload"
  <2>1. Return(c) /\ waiters' = rest /\ config' = config
    BY <1>2 DEF AfterStop
  <2> QED
    BY <2>1, CallEnds DEF LockPart, LockTypes, QueueInv, Stopping
<1> QED
  BY <1>1, <1>2

(* A step that leaves everything to do with the lock as it is. *)
LEMMA LockKept == LockPart /\ UNCHANGED callVars => LockPart'
BY DEF LockPart, LockTypes, CallInv, QueueInv, Stopping, callVars, NoCall

(* A step that leaves the pairs, the configuration and the status as they are. *)
LEMMA TaskKept == TaskPart /\ UNCHANGED <<lock, taskVars, ownVars, status>> => TaskPart'
BY DEF TaskPart, TaskTypes, GenerationInv, OneGeneration, StatusTruthful, Stopping, Runs,
       IsHttp, taskVars, ownVars

-----------------------------------------------------------------------------
(* Steps of the pairs. *)

LEMMA CancelFacts ==
    ASSUME TaskTypes, current \in Tasks, CancelClient(current)
    PROVE  /\ client' \in [Tasks -> Working \cup {"ending", "dead", "none"}]
           /\ \A t \in Tasks : t # current => client'[t] = client[t]
           /\ client'[current] # "none" => client[current] # "none"
BY DEF TaskTypes, CancelClient, CancelOutcomes, Working

LEMMA StartSucceedsStep ==
    ASSUME IndInv, NEW c \in Callers, StartSucceeds(c)
    PROVE  IndInv'
<1>1. LockPart'
  BY ReturnStep DEF IndInv, StartSucceeds
<1>2. PICK t \in Tasks : /\ client' = [client EXCEPT ![t] = "opening"]
                         /\ worker' = [worker EXCEPT ![t] = "running"]
                         /\ current' = t
  BY DEF StartSucceeds
<1>3. /\ ~started /\ started' /\ ~Stopping' /\ config' = config /\ pipeline' = config
      /\ Buildable(config) /\ stop_event' = FALSE
      /\ status' = [running |-> TRUE, connected |-> status.connected, lifecycle |-> "starting"]
  BY TurnFacts DEF IndInv, StartSucceeds, StartOutcomes, Stopping
<1>4. TaskTypes'
  <2>1. status' \in [running : BOOLEAN, connected : BOOLEAN,
                     lifecycle : {"created", "starting", "ready", "trouble",
                                  "failed", "inactive", "stopped"}]
    BY <1>3 DEF IndInv, TaskPart, TaskTypes
  <2>2. /\ client' \in [Tasks -> Working \cup {"ending", "dead", "none"}]
        /\ worker' \in [Tasks -> {"running", "ending", "none"}]
    BY <1>2 DEF IndInv, TaskPart, TaskTypes, Working
  <2> QED
    BY <1>2, <1>3, <2>1, <2>2 DEF IndInv, TaskPart, TaskTypes
<1>5. OneGeneration'
  BY <1>2, <1>3 DEF IndInv, TaskPart, TaskTypes, OneGeneration, Runs, Working, Buildable
<1>6. GenerationInv' /\ StatusTruthful'
  BY <1>2, <1>3 DEF IndInv, TaskPart, TaskTypes, GenerationInv, StatusTruthful, Working
<1> QED
  BY <1>1, <1>4, <1>5, <1>6 DEF IndInv, TaskPart

LEMMA StartFailsStep ==
    ASSUME IndInv, NEW c \in Callers, StartFails(c)
    PROVE  IndInv'
<1>1. LockPart'
  BY ReturnStep DEF IndInv, StartFails
<1>2. /\ ~started /\ ~Stopping /\ UNCHANGED <<lock, config, started, current, client, worker>>
      /\ stop_event' = FALSE /\ pipeline' \in {pipeline, config}
      /\ status' = [running |-> FALSE, connected |-> FALSE, lifecycle |-> "failed"]
  BY TurnFacts DEF IndInv, StartFails, taskVars
<1>3. TaskTypes'
  BY <1>2 DEF IndInv, TaskPart, TaskTypes
<1>4. OneGeneration' /\ GenerationInv' /\ StatusTruthful'
  BY <1>2 DEF IndInv, TaskPart, TaskTypes, OneGeneration, GenerationInv, StatusTruthful, Runs, Stopping
<1> QED
  BY <1>1, <1>3, <1>4 DEF IndInv, TaskPart

LEMMA StopIgnoredStep ==
    ASSUME IndInv, NEW c \in Callers, StopIgnored(c)
    PROVE  IndInv'
<1>1. /\ ~started /\ ~Stopping /\ AfterStop(c, Tail(waiters)) /\ Turn(c)
      /\ UNCHANGED <<lock, pipeline, started, stop_event, current, client, worker, status>>
  BY TurnFacts DEF IndInv, StopIgnored, taskVars
<1>2. LockPart' /\ config' \in Configs
  BY <1>1, TurnFacts, AfterStopStep DEF IndInv, TaskPart, TaskTypes, Turn
<1>3. TaskTypes'
  BY <1>1, <1>2 DEF IndInv, TaskPart, TaskTypes
<1>4. OneGeneration' /\ GenerationInv' /\ StatusTruthful'
  BY <1>1 DEF IndInv, TaskPart, TaskTypes, OneGeneration, GenerationInv, StatusTruthful, Runs, Stopping
<1> QED
  BY <1>2, <1>3, <1>4 DEF IndInv, TaskPart

LEMMA StopBeginsStep ==
    ASSUME IndInv, NEW c \in Callers, StopBegins(c)
    PROVE  IndInv'
<1>1. /\ started /\ ~Stopping /\ Turn(c) /\ calls[c].op \in {"stop", "reload"}
      /\ lock' = c /\ waiters' = Tail(waiters) /\ stop_event' = TRUE
      /\ CancelClient(current) /\ worker' = [worker EXCEPT ![current] = "ending"]
      /\ UNCHANGED <<calls, config, pipeline, started, current, status>>
      /\ current \in Tasks /\ Stopping'
  BY TurnFacts DEF IndInv, TaskPart, GenerationInv, StopBegins, Stopping
<1>2. LockPart'
  BY <1>1, TurnFacts DEF IndInv, LockPart, LockTypes, CallInv, QueueInv, Stopping, NoCall
<1>3. TaskTypes'
  BY <1>1, CancelFacts DEF IndInv, TaskPart, TaskTypes
<1>4. OneGeneration'
  BY <1>1, CancelFacts DEF IndInv, TaskPart, TaskTypes, OneGeneration, Runs
<1>5. GenerationInv' /\ StatusTruthful'
  BY <1>1 DEF IndInv, TaskPart, TaskTypes, GenerationInv, StatusTruthful
<1> QED
  BY <1>2, <1>3, <1>4, <1>5 DEF IndInv, TaskPart

LEMMA StopFinishesStep ==
    ASSUME IndInv, NEW c \in Callers, StopFinishes(c)
    PROVE  IndInv'
<1>1. /\ lock = c /\ Stopping /\ started /\ current \in Tasks
      /\ client[current] = "none" /\ worker[current] = "none"
      /\ lock' = Nobody /\ AfterStop(c, waiters) /\ started' = FALSE /\ current' = Nobody
      /\ status' = [running |-> FALSE, connected |-> FALSE, lifecycle |-> "stopped"]
      /\ UNCHANGED <<pipeline, stop_event, client, worker>>
  BY DEF IndInv, TaskPart, GenerationInv, StopFinishes, Ended, Stopping, taskVars
<1>2. \A d : Member(waiters, d) => d # c
  BY <1>1 DEF IndInv, LockPart, LockTypes, QueueInv, Member
<1>3. LockPart' /\ config' \in Configs
  BY <1>1, <1>2, AfterStopStep DEF IndInv, LockPart, LockTypes, TaskPart, TaskTypes
<1>4. TaskTypes'
  BY <1>1, <1>3 DEF IndInv, TaskPart, TaskTypes
<1>5. OneGeneration' /\ GenerationInv' /\ StatusTruthful'
  BY <1>1 DEF IndInv, TaskPart, TaskTypes, OneGeneration, GenerationInv, StatusTruthful, Runs, Stopping
<1> QED
  BY <1>3, <1>4, <1>5 DEF IndInv, TaskPart

LEMMA CancelCallStep ==
    ASSUME IndInv, NEW c \in Callers, CancelCall(c)
    PROVE  IndInv'
<1>1. CASE /\ \E i \in DOMAIN waiters : waiters[i] = c /\ waiters' = RemoveAt(waiters, i)
           /\ Return(c) /\ UNCHANGED <<lock, taskVars, ownVars, status>>
  <2>1. PICK i \in DOMAIN waiters : waiters[i] = c /\ waiters' = RemoveAt(waiters, i)
    BY <1>1
  <2>2. /\ waiters' \in Seq(Callers) /\ Distinct(waiters')
        /\ \A d : Member(waiters', d) <=> Member(waiters, d) /\ d # c
    BY <2>1, Removed DEF IndInv, LockPart, LockTypes
  <2>3. Member(waiters, c) /\ lock # c
    BY <2>1 DEF Member, IndInv, LockPart, QueueInv
  <2>4. LockPart'
    BY <1>1, <2>2, <2>3, CallEnds DEF IndInv, LockPart, LockTypes, QueueInv, Stopping
  <2> QED
    BY <1>1, <2>4, TaskKept DEF IndInv
<1>2. CASE lock = c /\ CancelClient(current) /\ UNCHANGED <<callVars, worker, ownVars, status>>
  <2>1. Stopping /\ started /\ current \in Tasks /\ Stopping'
        /\ UNCHANGED <<lock, worker, config, pipeline, started, stop_event, current, status>>
    BY <1>2 DEF IndInv, TaskPart, GenerationInv, Stopping, callVars, ownVars
  <2>2. LockPart'
    BY <1>2, LockKept DEF IndInv
  <2>3. TaskTypes' /\ GenerationInv' /\ StatusTruthful'
    BY <1>2, <2>1, CancelFacts DEF IndInv, TaskPart, TaskTypes, GenerationInv, StatusTruthful
  <2>4. OneGeneration'
    BY <1>2, <2>1, CancelFacts DEF IndInv, TaskPart, TaskTypes, OneGeneration, Runs
  <2> QED
    BY <2>2, <2>3, <2>4 DEF IndInv, TaskPart
<1> QED
  BY <1>1, <1>2 DEF CancelCall

LEMMA CallStep ==
    ASSUME IndInv, NEW c \in Callers, Call(c)
    PROVE  IndInv'
<1>1. LockPart'
  BY RequestStep DEF IndInv, Call
<1>2. TaskPart'
  BY TaskKept DEF IndInv, Call
<1> QED
  BY <1>1, <1>2 DEF IndInv

LEMMA StartIfConfiguredStep ==
    ASSUME IndInv, NEW c \in Callers, StartIfConfigured(c)
    PROVE  IndInv'
<1>1. CASE config.targeted
  BY <1>1, RequestStep, TaskKept DEF IndInv, StartIfConfigured
<1>2. CASE ~config.targeted
  <2>1. /\ status' = [running |-> FALSE, connected |-> FALSE, lifecycle |-> "inactive"]
        /\ UNCHANGED <<waiters, calls, lock, config, pipeline, started, stop_event, current, client, worker>>
    BY <1>2 DEF StartIfConfigured, taskVars, ownVars
  <2>2. ~started
    BY <1>2 DEF IndInv, TaskPart, OneGeneration, Buildable
  <2>3. LockPart'
    BY <2>1, LockKept DEF IndInv, callVars
  <2>4. TaskTypes' /\ GenerationInv' /\ OneGeneration' /\ StatusTruthful'
    BY <2>1, <2>2 DEF IndInv, TaskPart, TaskTypes, GenerationInv, OneGeneration, StatusTruthful,
                      Stopping, Runs
  <2> QED
    BY <2>3, <2>4 DEF IndInv, TaskPart
<1> QED
  BY <1>1, <1>2

(* A client moves: it is the client of the start in force. *)
LEMMA ClientStepStep ==
    ASSUME IndInv, NEW t \in Tasks, ClientStep(t), UNCHANGED <<callVars, ownVars>>
    PROVE  IndInv'
<1>1. /\ UNCHANGED <<lock, worker, config, pipeline, started, stop_event, current>>
      /\ Stopping' = Stopping
  BY DEF ClientStep, callVars, ownVars, Stopping
<1>2. client[t] # "none" /\ started /\ t = current
  BY DEF IndInv, TaskPart, OneGeneration, Runs, ClientStep, ClientShakesHands, ClientGoesOnline,
         ClientLosesSocket, ClientInTrouble, ClientFails, McpDone, ClientEnds
<1>3. LockPart'
  BY LockKept DEF IndInv
<1>4. ASSUME NEW p \in Working \cup {"dead", "none"}, Moves(t, p),
             p \in Working \/ Stopping \/ (IsHttp /\ client[t] # "ending"),
             /\ status' \in [running : BOOLEAN, connected : BOOLEAN,
                             lifecycle : {"created", "starting", "ready", "trouble",
                                          "failed", "inactive", "stopped"}]
             /\ status'.running = status.running
             /\ status'.connected => Stopping \/ p \in Working
      PROVE  TaskPart'
  <2>1. TaskTypes'
    BY <1>1, <1>4 DEF IndInv, TaskPart, TaskTypes, Moves
  <2>2. OneGeneration'
    BY <1>1, <1>2, <1>4 DEF IndInv, TaskPart, TaskTypes, OneGeneration, Runs, Moves, IsHttp
  <2>3. GenerationInv' /\ StatusTruthful'
    BY <1>1, <1>2, <1>4 DEF IndInv, TaskPart, TaskTypes, GenerationInv, StatusTruthful, Moves
  <2> QED
    BY <2>1, <2>2, <2>3 DEF TaskPart
<1> USE DEF IndInv, TaskPart, TaskTypes, Report, Working
<1>5. CASE ClientShakesHands(t)
  BY <1>1, <1>3, <1>4, <1>5 DEF ClientShakesHands
<1>6. CASE ClientGoesOnline(t)
  BY <1>1, <1>3, <1>4, <1>6 DEF ClientGoesOnline
<1>7. CASE ClientLosesSocket(t)
  BY <1>1, <1>3, <1>4, <1>7 DEF ClientLosesSocket
<1>8. CASE ClientInTrouble(t)
  <2>1. client[t] \in Working /\ Moves(t, client[t])
    BY <1>8 DEF ClientInTrouble, Moves
  <2>2. status' = [running |-> status.running, connected |-> FALSE, lifecycle |-> "trouble"]
    BY <1>8 DEF ClientInTrouble
  <2>3. TaskPart'
    BY <1>4, <2>1, <2>2
  <2> QED
    BY <1>3, <2>3
<1>9. CASE ClientFails(t)
  BY <1>1, <1>3, <1>4, <1>9 DEF ClientFails
<1>10. CASE McpDone(t)
  BY <1>1, <1>2, <1>3, <1>4, <1>10 DEF McpDone, OneGeneration, StatusTruthful
<1>11. CASE ClientEnds(t)
  BY <1>1, <1>2, <1>3, <1>4, <1>11 DEF ClientEnds, OneGeneration
<1> QED
  BY <1>5, <1>6, <1>7, <1>8, <1>9, <1>10, <1>11 DEF ClientStep

LEMMA WorkerEndsStep ==
    ASSUME IndInv, NEW t \in Tasks, WorkerEnds(t), UNCHANGED <<callVars, ownVars>>
    PROVE  IndInv'
<1>1. /\ UNCHANGED <<lock, client, config, pipeline, started, stop_event, current, status>>
      /\ Stopping' = Stopping /\ worker' = [worker EXCEPT ![t] = "none"]
  BY DEF WorkerEnds, callVars, ownVars, Stopping
<1>2. started /\ t = current /\ Stopping
  BY DEF IndInv, TaskPart, OneGeneration, Runs, WorkerEnds
<1>3. LockPart'
  BY LockKept DEF IndInv
<1>4. TaskTypes' /\ GenerationInv' /\ StatusTruthful'
  BY <1>1, <1>2 DEF IndInv, TaskPart, TaskTypes, GenerationInv, StatusTruthful
<1>5. OneGeneration'
  BY <1>1, <1>2 DEF IndInv, TaskPart, TaskTypes, OneGeneration, Runs
<1> QED
  BY <1>3, <1>4, <1>5 DEF IndInv, TaskPart

-----------------------------------------------------------------------------
LEMMA InitIndInv == Init => IndInv
<1> SUFFICES ASSUME Init PROVE IndInv
  OBVIOUS
<1>1. LockPart
  BY EmptySeq DEF Init, LockPart, LockTypes, CallInv, QueueInv, NoCall, Member, Distinct, Stopping
<1>2. TaskPart
  BY DEF Init, TaskPart, TaskTypes, GenerationInv, OneGeneration, StatusTruthful, Stopping, Runs
<1> QED
  BY <1>1, <1>2 DEF IndInv

LEMMA NextIndInv == IndInv /\ [Next]_vars => IndInv'
<1> SUFFICES ASSUME IndInv, [Next]_vars PROVE IndInv'
  OBVIOUS
<1>1. ASSUME NEW c \in Callers, StartIgnored(c) PROVE IndInv'
  BY <1>1, ReturnStep, TaskKept DEF IndInv, StartIgnored
<1>2. CASE UNCHANGED vars
  BY <1>2, LockKept, TaskKept DEF IndInv, vars, callVars
<1> QED
  BY <1>1, <1>2, CallStep, StartIfConfiguredStep, CancelCallStep, StartSucceedsStep, StartFailsStep,
     StopIgnoredStep, StopBeginsStep, StopFinishesStep, ClientStepStep, WorkerEndsStep
  DEF Next, HostStep, RuntimeStep, TaskStep

THEOREM InvariantHolds == Spec => []IndInv
BY InitIndInv, NextIndInv, PTL DEF Spec

(* Types; a caller waits for the lock once. *)
THEOREM TypeCorrect == Spec => []TypeOK
<1>1. IndInv => TypeOK
  BY TypeParts DEF IndInv, LockPart, TaskPart
<1> QED
  BY <1>1, InvariantHolds, PTL

(* Only the start in force has tasks, and they run the configuration shown,  *)
(* whatever calls and cancellations arrive in whatever order (runtime.py:104 *)
(* to 171, 327-358).                                                         *)
THEOREM GenerationsDoNotMix == Spec => []OneGeneration
<1>1. IndInv => OneGeneration
  BY DEF IndInv, TaskPart
<1> QED
  BY <1>1, InvariantHolds, PTL

(* The status never claims more than there is (runtime.py:97-102, 163-171,   *)
(* 191-210, 348-353).                                                        *)
THEOREM StatusIsTrue == Spec => []StatusTruthful
<1>1. IndInv => StatusTruthful
  BY DEF IndInv, TaskPart
<1> QED
  BY <1>1, InvariantHolds, PTL
=============================================================================
