--------------------------- MODULE McpClientProofs ---------------------------
(***************************************************************************)
(* Theorems about McpClient, for every sequence of frames a server sends.  *)
(*                                                                         *)
(* The frames still to be read are the one kept aside, then the wire.  The *)
(* invariant says that they hold the events of the connection that were    *)
(* not delivered, whatever the task waits for.                             *)
(***************************************************************************)
EXTENDS McpClient, Integers, FiniteSetTheorems, FunctionTheorems, SequenceTheorems, TLAPS

Stream == pending \o wire

(* What a phase implies about the connection and the frame kept aside. *)
PhaseInv ==
    /\ phase \in {"idle", "created", "opening", "backoff"} =>
          sock = "none" /\ wire = <<>> /\ sent = 0 /\ got = <<>>
    /\ phase \in {"auth", "subscribe"} => got = <<>>
    /\ pending # <<>> => phase \in {"idle", "receive"}

StreamInv ==
    phase # "idle" =>
        /\ Len(got) <= sent
        /\ \A k \in DOMAIN got : got[k] = k
        /\ HoldsEvents(Stream, Len(got), sent)

IndInv == TypeOK /\ PhaseInv /\ StreamInv

-----------------------------------------------------------------------------
(* HoldsEvents, by the frames of s. *)

IsAt(s, i, n) == s[i].kind = "event" /\ s[i].n = n

Ordered(s, m, n) ==
    /\ \A i \in 1..Len(s) : s[i].kind = "event" => s[i].n \in m + 1 .. n
    /\ \A k \in m + 1 .. n : \E i \in 1..Len(s) : IsAt(s, i, k)
    /\ \A i, j \in 1..Len(s) :
          i < j /\ s[i].kind = "event" /\ s[j].kind = "event" => s[i].n < s[j].n

LEMMA FrameByFrame ==
    ASSUME NEW s \in Seq(Frame), NEW m \in Nat, NEW n \in Nat
    PROVE  HoldsEvents(s, m, n) <=> Ordered(s, m, n)
<1>1. DOMAIN s = 1..Len(s)
  OBVIOUS
<1> QED
  BY <1>1 DEF HoldsEvents, Ordered, IsAt

(* A frame that is no event is taken. *)
LEMMA FrameTaken ==
    ASSUME NEW s \in Seq(Frame), NEW m \in Nat, NEW n \in Nat, HoldsEvents(s, m, n),
           s # <<>>, Head(s).kind # "event"
    PROVE  HoldsEvents(Tail(s), m, n)
<1> DEFINE t == Tail(s)
<1>1. /\ t \in Seq(Frame) /\ Len(s) \in Nat /\ Len(t) = Len(s) - 1 /\ s[1] = Head(s)
      /\ \A i \in 1..Len(t) : t[i] = s[i + 1]
  BY HeadTailProperties
<1> HIDE DEF t
<1>2. Ordered(s, m, n)
  BY FrameByFrame
<1>3. \A i \in 1..Len(t) : i + 1 \in 1..Len(s) /\ t[i] = s[i + 1]
  BY <1>1
<1>4. \A i \in 1..Len(t) : t[i].kind = "event" => t[i].n \in m + 1 .. n
  BY <1>2, <1>3 DEF Ordered
<1>5. ASSUME NEW k \in m + 1 .. n PROVE \E i \in 1..Len(t) : IsAt(t, i, k)
  <2>1. PICK i \in 1..Len(s) : IsAt(s, i, k)
    BY <1>2 DEF Ordered
  <2>2. i # 1
    BY <1>1, <2>1 DEF IsAt
  <2>3. i - 1 \in 1..Len(t) /\ t[i - 1] = s[i]
    BY <1>1, <2>2
  <2> QED
    BY <2>1, <2>3 DEF IsAt
<1>6. \A i, j \in 1..Len(t) :
         i < j /\ t[i].kind = "event" /\ t[j].kind = "event" => t[i].n < t[j].n
  <2> SUFFICES ASSUME NEW i \in 1..Len(t), NEW j \in 1..Len(t), i < j,
                      t[i].kind = "event", t[j].kind = "event"
               PROVE  t[i].n < t[j].n
    OBVIOUS
  <2>1. /\ i + 1 \in 1..Len(s) /\ j + 1 \in 1..Len(s) /\ i + 1 < j + 1
        /\ t[i] = s[i + 1] /\ t[j] = s[j + 1]
    <3>1. i + 1 \in 1..Len(s) /\ t[i] = s[i + 1]
      BY <1>3
    <3>2. j + 1 \in 1..Len(s) /\ t[j] = s[j + 1]
      BY <1>3
    <3>3. i + 1 < j + 1
      OBVIOUS
    <3> QED
      BY <3>1, <3>2, <3>3
  <2> QED
    BY <1>2, <2>1 DEF Ordered
<1>7. Ordered(t, m, n)
  BY <1>4, <1>5, <1>6 DEF Ordered
<1> QED
  BY <1>1, <1>7, FrameByFrame DEF t

(* An event is taken: it is the next one. *)
LEMMA EventTaken ==
    ASSUME NEW s \in Seq(Frame), NEW m \in Nat, NEW n \in Nat, HoldsEvents(s, m, n),
           s # <<>>, Head(s).kind = "event"
    PROVE  Head(s).n = m + 1 /\ m + 1 <= n /\ HoldsEvents(Tail(s), m + 1, n)
<1> DEFINE t == Tail(s)
<1>1. /\ t \in Seq(Frame) /\ Len(s) \in Nat /\ Len(s) > 0 /\ Len(t) = Len(s) - 1 /\ s[1] = Head(s)
      /\ \A i \in 1..Len(t) : t[i] = s[i + 1]
  BY HeadTailProperties
<1> HIDE DEF t
<1>2. Ordered(s, m, n)
  BY FrameByFrame
<1>3. \A i \in 1..Len(t) : i + 1 \in 1..Len(s) /\ t[i] = s[i + 1]
  BY <1>1
<1>4. s[1].n \in m + 1 .. n
  BY <1>1, <1>2 DEF Ordered
<1>5. s[1].n = m + 1
  <2>1. PICK i \in 1..Len(s) : IsAt(s, i, m + 1)
    BY <1>2, <1>4 DEF Ordered
  <2>2. CASE i = 1
    BY <2>1, <2>2 DEF IsAt
  <2>3. CASE i > 1
    <3>1. s[1].n < s[i].n
      BY <1>1, <1>2, <2>1, <2>3 DEF Ordered, IsAt
    <3> QED
      BY <1>4, <2>1, <3>1 DEF IsAt
  <2> QED
    BY <2>2, <2>3
<1>6. \A i \in 1..Len(t) : t[i].kind = "event" => t[i].n \in m + 2 .. n
  <2> SUFFICES ASSUME NEW i \in 1..Len(t), t[i].kind = "event" PROVE t[i].n \in m + 2 .. n
    OBVIOUS
  <2>1. i + 1 \in 1..Len(s) /\ t[i] = s[i + 1] /\ s[i + 1].kind = "event"
    BY <1>3
  <2>2. s[i + 1].n \in m + 1 .. n
    BY <1>2, <2>1 DEF Ordered
  <2>3. s[1].n < s[i + 1].n
    BY <1>1, <1>2, <2>1 DEF Ordered
  <2> QED
    BY <1>5, <2>1, <2>2, <2>3
<1>7. ASSUME NEW k \in m + 2 .. n PROVE \E i \in 1..Len(t) : IsAt(t, i, k)
  <2>1. PICK i \in 1..Len(s) : IsAt(s, i, k)
    BY <1>2 DEF Ordered
  <2>2. i # 1
    BY <1>5, <2>1 DEF IsAt
  <2>3. i - 1 \in 1..Len(t) /\ t[i - 1] = s[i]
    BY <1>1, <2>2
  <2> QED
    BY <2>1, <2>3 DEF IsAt
<1>8. \A i, j \in 1..Len(t) :
         i < j /\ t[i].kind = "event" /\ t[j].kind = "event" => t[i].n < t[j].n
  <2> SUFFICES ASSUME NEW i \in 1..Len(t), NEW j \in 1..Len(t), i < j,
                      t[i].kind = "event", t[j].kind = "event"
               PROVE  t[i].n < t[j].n
    OBVIOUS
  <2>1. /\ i + 1 \in 1..Len(s) /\ j + 1 \in 1..Len(s) /\ i + 1 < j + 1
        /\ t[i] = s[i + 1] /\ t[j] = s[j + 1]
    <3>1. i + 1 \in 1..Len(s) /\ t[i] = s[i + 1]
      BY <1>3
    <3>2. j + 1 \in 1..Len(s) /\ t[j] = s[j + 1]
      BY <1>3
    <3>3. i + 1 < j + 1
      OBVIOUS
    <3> QED
      BY <3>1, <3>2, <3>3
  <2> QED
    BY <1>2, <2>1 DEF Ordered
<1>9. Ordered(t, m + 1, n)
  BY <1>6, <1>7, <1>8 DEF Ordered
<1>10. HoldsEvents(t, m + 1, n)
  <2>1. m + 1 \in Nat
    OBVIOUS
  <2> QED
    BY <1>1, <1>9, <2>1, FrameByFrame
<1>11. m + 1 <= n
  BY <1>4
<1> QED
  BY <1>1, <1>5, <1>10, <1>11 DEF t

(* A frame arrives; an event has the next number. *)
LEMMA FrameArrives ==
    ASSUME NEW s \in Seq(Frame), NEW m \in Nat, NEW n \in m..MaxFrames, HoldsEvents(s, m, n),
           NEW f \in Frame, NEW n2 \in Nat,
           IF f.kind = "event" THEN f.n = n + 1 /\ n2 = n + 1 ELSE n2 = n
    PROVE  HoldsEvents(Append(s, f), m, n2)
<1> DEFINE t == Append(s, f)
<1>1. /\ t \in Seq(Frame) /\ Len(s) \in Nat /\ Len(t) = Len(s) + 1 /\ t[Len(s) + 1] = f
      /\ \A i \in 1..Len(s) : t[i] = s[i]
  OBVIOUS
<1> HIDE DEF t
<1>2. Ordered(s, m, n) /\ n \in Nat
  BY FrameByFrame, ClientAssumption
<1>3. ASSUME NEW i \in 1..Len(t), t[i].kind = "event" PROVE t[i].n \in m + 1 .. n2
  <2>1. CASE i \in 1..Len(s)
    BY <1>1, <1>2, <1>3, <2>1 DEF Ordered
  <2>2. CASE i = Len(s) + 1
    BY <1>1, <1>2, <1>3, <2>2
  <2> QED
    BY <1>1, <2>1, <2>2
<1>4. ASSUME NEW k \in m + 1 .. n2 PROVE \E i \in 1..Len(t) : IsAt(t, i, k)
  <2>1. CASE k <= n
    <3>1. PICK i \in 1..Len(s) : IsAt(s, i, k)
      BY <1>2, <2>1 DEF Ordered
    <3> QED
      BY <1>1, <3>1 DEF IsAt
  <2>2. CASE k > n
    <3>1. f.kind = "event" /\ f.n = k
      BY <1>2, <2>2
    <3> QED
      BY <1>1, <3>1 DEF IsAt
  <2> QED
    BY <1>2, <2>1, <2>2
<1>5. ASSUME NEW i \in 1..Len(t), NEW j \in 1..Len(t), i < j,
             t[i].kind = "event", t[j].kind = "event"
      PROVE  t[i].n < t[j].n
  <2>1. i \in 1..Len(s) /\ t[i] = s[i]
    BY <1>1, <1>5
  <2>2. CASE j \in 1..Len(s)
    BY <1>1, <1>2, <1>5, <2>1, <2>2 DEF Ordered
  <2>3. CASE j = Len(s) + 1
    <3>1. s[i].n \in m + 1 .. n
      BY <1>2, <1>5, <2>1 DEF Ordered
    <3> QED
      BY <1>1, <1>2, <1>5, <2>1, <2>3, <3>1
  <2> QED
    BY <1>1, <2>2, <2>3
<1>6. Ordered(t, m, n2)
  BY <1>3, <1>4, <1>5 DEF Ordered
<1> QED
  BY <1>1, <1>6, FrameByFrame DEF t

-----------------------------------------------------------------------------
(* What a read takes is the head of the stream and leaves its tail. *)
LEMMA ReadFacts ==
    ASSUME TypeOK, HasFrame
    PROVE  /\ Stream \in Seq(Frame) /\ Stream # <<>>
           /\ NextFrame = Head(Stream) /\ NextFrame \in Frame
           /\ Kept = <<>> /\ Kept \in Seq(Frame) /\ Len(Kept) <= 1
           /\ Unread \in Seq(Frame) /\ Len(Unread) <= MaxFrames
           /\ Unread = Tail(Stream) /\ Kept \o Unread = Tail(Stream)
<1>1. /\ wire \in Seq(Frame) /\ Len(wire) <= MaxFrames /\ MaxFrames \in Nat
      /\ pending \in Seq(Frame) /\ Len(pending) <= 1
  BY ClientAssumption DEF TypeOK
<1>2. CASE pending # <<>>
  <2>1. /\ Len(pending) = 1 /\ Head(pending) = pending[1] /\ pending[1] \in Frame
        /\ Tail(pending) \in Seq(Frame) /\ Len(Tail(pending)) = 0
    <3>1. Len(pending) = 1
      <4>1. Len(pending) \in Nat \ {0}
        BY <1>1, <1>2, EmptySeq
      <4>2. Len(pending) <= 1
        BY <1>1
      <4> QED
        BY <4>1, <4>2
    <3> QED
      BY <1>1, <1>2, <3>1, HeadTailProperties
  <2>2. Tail(pending) = <<>>
    BY <2>1, EmptySeq
  <2>3. /\ Stream \in Seq(Frame) /\ Len(Stream) = 1 + Len(wire)
        /\ \A i \in 1..1 + Len(wire) : Stream[i] = IF i <= 1 THEN pending[1] ELSE wire[i - 1]
    <3>1. /\ pending \o wire \in Seq(Frame) /\ Len(pending \o wire) = Len(pending) + Len(wire)
          /\ \A i \in 1..Len(pending) + Len(wire) :
                (pending \o wire)[i] =
                   IF i <= Len(pending) THEN pending[i] ELSE wire[i - Len(pending)]
      BY <1>1, ConcatProperties
    <3>2. \A i \in 1..1 + Len(wire) : i <= 1 => i = 1
      OBVIOUS
    <3> QED
      BY <2>1, <3>1, <3>2 DEF Stream
  <2>4. Stream # <<>> /\ Head(Stream) = pending[1]
    BY <1>1, <2>3
  <2>5. /\ Tail(Stream) \in Seq(Frame) /\ Len(Tail(Stream)) = Len(wire)
        /\ \A i \in 1..Len(wire) : Tail(Stream)[i] = wire[i]
    <3>1. /\ Tail(Stream) \in Seq(Frame) /\ Len(Tail(Stream)) = Len(wire)
          /\ \A i \in 1..Len(wire) : Tail(Stream)[i] = Stream[i + 1]
      BY <1>1, <2>3, <2>4, HeadTailProperties
    <3>2. \A i \in 1..Len(wire) : Stream[i + 1] = wire[i]
      BY <1>1, <2>3
    <3> QED
      BY <3>1, <3>2
  <2>6. Tail(Stream) = wire
    BY <1>1, <2>5, SeqEqual
  <2>7. <<>> \o wire = wire
    BY <1>1, ConcatEmptySeq
  <2>8. Kept = <<>> /\ Unread = wire /\ NextFrame = pending[1]
    BY <1>2, <2>1, <2>2 DEF Kept, Unread, NextFrame, NoFrames
  <2> QED
    BY <1>1, <2>1, <2>3, <2>4, <2>6, <2>7, <2>8
<1>3. CASE pending = <<>>
  <2>1. wire # <<>> /\ Kept = <<>> /\ Unread = Tail(wire) /\ NextFrame = Head(wire)
    BY <1>3 DEF HasFrame, Kept, Unread, NextFrame, NoFrames
  <2>2. Stream = wire
    BY <1>1, <1>3, ConcatEmptySeq DEF Stream
  <2>3. /\ Head(wire) \in Frame /\ Tail(wire) \in Seq(Frame) /\ Len(Tail(wire)) = Len(wire) - 1
        /\ Len(wire) \in Nat
    BY <1>1, <2>1, HeadTailProperties
  <2>4. <<>> \o Tail(wire) = Tail(wire)
    BY <2>3, ConcatEmptySeq
  <2> QED
    BY <1>1, <2>1, <2>2, <2>3, <2>4
<1> QED
  BY <1>2, <1>3

(* After a read the stream may go on with the event kept aside. *)
LEMMA KeptAside ==
    ASSUME TypeOK, HasFrame, pending = <<>>
    PROVE  /\ Append(Kept, NextFrame) \in Seq(Frame) /\ Len(Append(Kept, NextFrame)) = 1
           /\ Append(Kept, NextFrame) # <<>>
           /\ Append(Kept, NextFrame) \o Unread = Stream
<1> DEFINE one == Append(Kept, NextFrame)
<1>1. /\ wire \in Seq(Frame) /\ wire # <<>>
      /\ Kept = <<>> /\ NextFrame = Head(wire) /\ Unread = Tail(wire) /\ NextFrame \in Frame
  BY ReadFacts DEF TypeOK, HasFrame, NextFrame, Unread, NoFrames
<1>2. Stream = wire
  BY <1>1, ConcatEmptySeq DEF Stream
<1>3. one \in Seq(Frame) /\ Len(one) = 1 /\ one[1] = wire[1]
  BY <1>1
<1>4. /\ Tail(wire) \in Seq(Frame) /\ Len(Tail(wire)) = Len(wire) - 1 /\ Len(wire) \in Nat
      /\ \A i \in 1..Len(Tail(wire)) : Tail(wire)[i] = wire[i + 1]
  BY <1>1, HeadTailProperties
<1> HIDE DEF one
<1>5. /\ one \o Tail(wire) \in Seq(Frame) /\ Len(one \o Tail(wire)) = Len(wire)
      /\ \A i \in 1..Len(wire) :
            (one \o Tail(wire))[i] = IF i <= 1 THEN one[i] ELSE Tail(wire)[i - 1]
  <2>1. Len(one) + Len(Tail(wire)) = Len(wire)
    BY <1>3, <1>4
  <2>2. /\ one \o Tail(wire) \in Seq(Frame)
        /\ Len(one \o Tail(wire)) = Len(one) + Len(Tail(wire))
        /\ \A i \in 1..Len(one) + Len(Tail(wire)) :
              (one \o Tail(wire))[i] = IF i <= Len(one) THEN one[i] ELSE Tail(wire)[i - Len(one)]
    BY <1>3, <1>4, ConcatProperties
  <2> QED
    BY <1>3, <2>1, <2>2
<1>6. \A i \in 1..Len(wire) : (one \o Tail(wire))[i] = wire[i]
  <2> SUFFICES ASSUME NEW i \in 1..Len(wire) PROVE (one \o Tail(wire))[i] = wire[i]
    OBVIOUS
  <2>1. CASE i = 1
    BY <1>3, <1>5, <2>1
  <2>2. CASE i > 1
    <3>1. i - 1 \in 1..Len(Tail(wire)) /\ i - 1 + 1 = i
      BY <1>4, <2>2
    <3> QED
      BY <1>4, <1>5, <2>2, <3>1
  <2>3. i = 1 \/ i > 1
    BY <1>4
  <2> QED
    BY <2>1, <2>2, <2>3
<1>7. one \o Tail(wire) = wire
  BY <1>1, <1>5, <1>6, SeqEqual
<1> QED
  BY <1>1, <1>2, <1>3, <1>7 DEF one

(* With an empty pending, the stream is the wire. *)
LEMMA NothingAside == ASSUME TypeOK, pending = <<>> PROVE Stream = wire
BY ConcatEmptySeq DEF TypeOK, Stream

-----------------------------------------------------------------------------
(* The steps. *)

OverFacts == phase' \in {"idle", "backoff"} /\ sock' = "none" /\ wire' = <<>> /\ sent' = 0 /\ got' = <<>>

LEMMA OverEnds == Over => OverFacts /\ (phase' = "idle" <=> stop)
BY DEF Over, OverFacts, NoFrames

LEMMA TypeFacts ==
    ASSUME TypeOK
    PROVE  /\ wire \in Seq(Frame) /\ Len(wire) \in 0..MaxFrames
           /\ pending \in Seq(Frame) /\ Len(pending) <= 1
           /\ sent \in 0..MaxFrames /\ sent \in Nat /\ MaxFrames \in Nat
           /\ got \in Seq(1..MaxFrames) /\ Len(got) \in Nat /\ DOMAIN got = 1..Len(got)
           /\ stop \in BOOLEAN
BY ClientAssumption DEF TypeOK

(* Where the frames of the step are, and the rest of the type invariant. *)
FramesOK ==
    /\ wire' \in Seq(Frame) /\ Len(wire') <= MaxFrames
    /\ pending' \in Seq(Frame) /\ Len(pending') <= 1
    /\ sent' \in 0..MaxFrames
    /\ got' \in Seq(1..MaxFrames)

(* An attempt that is over leaves nothing to be delivered. *)
LEMMA OverKeeps ==
    ASSUME OverFacts, pending' \in Seq(Frame), Len(pending') <= 1,
           pending' # <<>> => phase' = "idle"
    PROVE  FramesOK /\ PhaseInv' /\ StreamInv'
<1>1. FramesOK
  BY ClientAssumption DEF FramesOK, OverFacts
<1>2. PhaseInv'
  BY DEF PhaseInv, OverFacts
<1>3. StreamInv'
  <2> SUFFICES ASSUME phase' # "idle" PROVE StreamInv'
    BY DEF StreamInv
  <2>1. pending' = <<>> /\ wire' = <<>> /\ sent' = 0 /\ got' = <<>>
    BY DEF OverFacts
  <2>2. Stream' = <<>>
    BY <2>1, ConcatEmptySeq DEF Stream
  <2>3. Ordered(<<>>, 0, 0)
    BY DEF Ordered
  <2>4. HoldsEvents(<<>>, 0, 0)
    BY <2>3, FrameByFrame
  <2>5. HoldsEvents(Stream, Len(got), sent)'
    BY <2>1, <2>2, <2>4 DEF HoldsEvents
  <2>6. Len(got') <= sent' /\ \A k \in DOMAIN got' : got'[k] = k
    BY <2>1
  <2> QED
    BY <2>5, <2>6 DEF StreamInv
<1> QED
  BY <1>1, <1>2, <1>3

(* A step to the next await that reads a frame which is no event. *)
LEMMA AwaitKeeps ==
    ASSUME IndInv, HasFrame, NextFrame.kind # "event", pending' = Kept,
           NEW p \in {"subscribe", "receive"}, p = "subscribe" => got = <<>>,
           phase # "idle", Await(p, Unread, got)
    PROVE  FramesOK /\ PhaseInv' /\ StreamInv'
<1>1. TypeOK /\ PhaseInv /\ StreamInv
  BY DEF IndInv
<1>2. phase' = p /\ wire' = Unread /\ got' = got /\ sent' = sent /\ sock' = sock
  BY DEF Await
<1>3. FramesOK
  BY <1>1, <1>2, ReadFacts, TypeFacts DEF FramesOK
<1>4. PhaseInv'
  BY <1>1, <1>2, ReadFacts DEF PhaseInv
<1>5. HoldsEvents(Stream, Len(got), sent) /\ Len(got) <= sent
  BY <1>1 DEF StreamInv
<1>6. HoldsEvents(Tail(Stream), Len(got), sent)
  BY <1>1, <1>5, ReadFacts, TypeFacts, FrameTaken
<1>7. Stream' = Tail(Stream)
  BY <1>1, <1>2, ReadFacts DEF Stream
<1>8. HoldsEvents(Stream, Len(got), sent)'
  BY <1>2, <1>6, <1>7 DEF HoldsEvents
<1>9. StreamInv'
  BY <1>1, <1>2, <1>8 DEF StreamInv
<1> QED
  BY <1>3, <1>4, <1>9

(* The actions that neither end the attempt nor move a frame. *)
LEMMA StillKeeps ==
    ASSUME IndInv, UNCHANGED <<wire, pending, sent, got>>,
           sock' \in {"none", "open", "closed"},
           \/ phase' = phase /\ (phase \in {"idle", "created", "opening", "backoff"} => sock' = sock)
           \/ phase \in {"created", "opening", "backoff"} /\ phase' \in {"opening", "auth", "subscribe", "receive"}
                 /\ (phase' = "opening" => sock' = sock)
           \/ phase = "backoff" /\ phase' = "idle" /\ sock' = sock
    PROVE  FramesOK /\ PhaseInv' /\ StreamInv'
<1>1. TypeOK /\ PhaseInv /\ StreamInv
  BY DEF IndInv
<1>2. FramesOK
  BY <1>1, TypeFacts DEF FramesOK
<1>3. PhaseInv'
  BY <1>1 DEF PhaseInv
<1>4. StreamInv'
  BY <1>1 DEF StreamInv, Stream, HoldsEvents
<1> QED
  BY <1>2, <1>3, <1>4

(* What is left of the type invariant is plain. *)
RestOK ==
    /\ options' \in [auth : BOOLEAN, ack : BOOLEAN]
    /\ phase' \in {"idle", "created", "opening", "auth", "subscribe", "receive", "backoff"}
    /\ {stop, wanted}' \subseteq BOOLEAN
    /\ sock' \in {"none", "open", "closed"}
    /\ delay' \in InitialDelay..MaxDelay

LEMMA RestStep == TypeOK /\ Next => RestOK
<1> SUFFICES ASSUME TypeOK, Next PROVE RestOK
  OBVIOUS
<1> USE ClientAssumption
<1>1. options' = options /\ options \in [auth : BOOLEAN, ack : BOOLEAN]
  BY DEF Next, TaskStep, OtherStep, TypeOK
<1>2. /\ phase \in {"idle", "created", "opening", "auth", "subscribe", "receive", "backoff"}
      /\ stop \in BOOLEAN /\ wanted \in BOOLEAN
      /\ sock \in {"none", "open", "closed"}
      /\ delay \in InitialDelay..MaxDelay
  BY DEF TypeOK
<1>3. /\ phase' \in {"idle", "created", "opening", "auth", "subscribe", "receive", "backoff"}
      /\ sock' \in {"none", "open", "closed"}
  BY <1>2 DEF Next, TaskStep, OtherStep, Opened, OpenFails, Authenticate, Subscribed, Receive,
     Broken, Timeout, Backoff, Create, Enter, Disconnect, Cancel, ServerCloses, ServerSends,
     FirstAwait, Subscribe, Loop, Await, Over
<1>4. stop' \in BOOLEAN /\ wanted' \in BOOLEAN
  BY <1>2 DEF Next, TaskStep, OtherStep, Opened, OpenFails, Authenticate, Subscribed, Receive,
     Broken, Timeout, Backoff, Create, Enter, Disconnect, Cancel, ServerCloses, ServerSends
<1>5. Longer \in InitialDelay..MaxDelay
  BY <1>2 DEF Longer
<1>6. delay' \in {delay, InitialDelay, Longer}
  BY DEF Next, TaskStep, OtherStep, Opened, OpenFails, Authenticate, Subscribed, Receive,
     Broken, Timeout, Backoff, Create, Enter, Disconnect, Cancel, ServerCloses, ServerSends
<1>7. delay' \in InitialDelay..MaxDelay
  BY <1>2, <1>5, <1>6
<1> QED
  BY <1>1, <1>3, <1>4, <1>7 DEF RestOK

LEMMA TypeStep == ASSUME RestOK, FramesOK PROVE TypeOK'
BY DEF RestOK, FramesOK, TypeOK

LEMMA InitInv == Init => IndInv
<1> SUFFICES ASSUME Init PROVE IndInv
  OBVIOUS
<1>1. TypeOK
  <2>1. /\ wire \in Seq(Frame) /\ Len(wire) <= MaxFrames
        /\ pending \in Seq(Frame) /\ Len(pending) <= 1
        /\ got \in Seq(1..MaxFrames) /\ sent \in 0..MaxFrames
    BY ClientAssumption, EmptySeq DEF Init, NoFrames
  <2>2. delay \in InitialDelay..MaxDelay
    BY ClientAssumption DEF Init
  <2> QED
    BY <2>1, <2>2 DEF Init, TypeOK
<1>2. PhaseInv /\ StreamInv
  BY DEF Init, PhaseInv, StreamInv, NoFrames
<1> QED
  BY <1>1, <1>2 DEF IndInv

LEMMA CreateStep == ASSUME IndInv, Create PROVE FramesOK /\ PhaseInv' /\ StreamInv'
<1>1. /\ phase' = "created" /\ sock' = "none" /\ wire' = <<>> /\ sent' = 0 /\ got' = <<>>
      /\ pending' = <<>>
  BY DEF IndInv, PhaseInv, Create, NoFrames
<1>2. FramesOK
  BY <1>1, EmptySeq, ClientAssumption DEF FramesOK
<1>3. PhaseInv'
  BY <1>1 DEF PhaseInv
<1>4. StreamInv'
  <2>1. Stream' = <<>>
    BY <1>1, ConcatEmptySeq DEF Stream
  <2>2. Ordered(<<>>, 0, 0)
    BY DEF Ordered
  <2>3. HoldsEvents(<<>>, 0, 0)
    BY <2>2, EmptySeq, FrameByFrame
  <2>4. HoldsEvents(Stream, Len(got), sent)'
    BY <1>1, <2>1, <2>3 DEF HoldsEvents
  <2> QED
    BY <1>1, <2>4 DEF StreamInv
<1> QED
  BY <1>2, <1>3, <1>4

LEMMA OpenedStep == ASSUME IndInv, Opened PROVE FramesOK /\ PhaseInv' /\ StreamInv'
<1>1. pending' = <<>> /\ pending = <<>>
  BY DEF IndInv, PhaseInv, Opened
<1>2. CASE Over
  BY <1>1, <1>2, OverEnds, OverKeeps, EmptySeq
<1>3. CASE phase' = FirstAwait /\ sock' = "open" /\ UNCHANGED <<wire, sent, got>>
  BY <1>1, <1>3, StillKeeps DEF Opened, FirstAwait
<1> QED
  BY <1>2, <1>3 DEF Opened

(* Loop and Subscribe go on with the next await or end the attempt. *)
LEMMA AuthenticateStep == ASSUME IndInv, Authenticate PROVE FramesOK /\ PhaseInv' /\ StreamInv'
<1>1. TypeOK /\ pending = <<>> /\ got = <<>> /\ HasFrame /\ pending' = Kept /\ phase = "auth"
  BY DEF IndInv, PhaseInv, Authenticate
<1>2. Kept = <<>>
  BY <1>1, ReadFacts
<1>3. CASE Over
  BY <1>1, <1>2, <1>3, OverEnds, OverKeeps, EmptySeq
<1>4. CASE /\ NextFrame.kind # "event"
           /\ \E p \in {"subscribe", "receive"} : Await(p, Unread, got)
  BY <1>1, <1>4, AwaitKeeps
<1> QED
  BY <1>3, <1>4 DEF Authenticate, IsSuccess, Subscribe, Loop

LEMMA SubscribedStep == ASSUME IndInv, Subscribed PROVE FramesOK /\ PhaseInv' /\ StreamInv'
<1>1. /\ TypeOK /\ PhaseInv /\ StreamInv /\ pending = <<>> /\ got = <<>>
      /\ HasFrame /\ phase = "subscribe"
  BY DEF IndInv, PhaseInv, Subscribed
<1>2. Kept = <<>> /\ pending' = IF IsEvent(NextFrame) THEN Append(Kept, NextFrame) ELSE Kept
  BY <1>1, ReadFacts DEF Subscribed
<1>3. pending' \in Seq(Frame) /\ Len(pending') <= 1
  BY <1>1, <1>2, ReadFacts, KeptAside
<1>4. CASE Over
  <2>1. pending' # <<>> => phase' = "idle"
    <3>1. CASE stop
      BY <1>4, <3>1, OverEnds
    <3>2. CASE ~stop
      <4>1. phase' = "backoff"
        BY <1>4, <3>2 DEF Over
      <4>2. NextFrame.kind \in {"failure", "junk"}
        BY <3>2, <4>1 DEF Subscribed, Loop, Await
      <4> QED
        BY <1>2, <4>2 DEF IsEvent
    <3> QED
      BY <3>1, <3>2
  <2> QED
    BY <1>3, <1>4, <2>1, OverEnds, OverKeeps
<1>5. CASE Await("receive", Unread, got)
  <2>1. phase' = "receive" /\ wire' = Unread /\ got' = got /\ sent' = sent /\ sock' = sock
    BY <1>5 DEF Await
  <2>2. CASE IsEvent(NextFrame)
    <3>1. Stream' = Stream
      BY <1>1, <1>2, <2>1, <2>2, KeptAside DEF Stream
    <3>2. FramesOK
      BY <1>1, <1>3, <2>1, ReadFacts, TypeFacts DEF FramesOK
    <3>3. PhaseInv'
      BY <2>1 DEF PhaseInv
    <3>4. StreamInv'
      BY <1>1, <2>1, <3>1 DEF StreamInv, HoldsEvents
    <3> QED
      BY <3>2, <3>3, <3>4
  <2>3. CASE ~IsEvent(NextFrame)
    BY <1>1, <1>2, <1>5, <2>3, AwaitKeeps DEF IsEvent
  <2> QED
    BY <2>2, <2>3
<1> QED
  BY <1>4, <1>5 DEF Subscribed, Loop

(* An event goes to the callback: it is the next one of the stream. *)
LEMMA DeliverStep ==
    ASSUME IndInv, phase = "receive", HasFrame, pending' = Kept, NextFrame.kind = "event",
           Await("receive", Unread, Append(got, NextFrame.n))
    PROVE  FramesOK /\ PhaseInv' /\ StreamInv'
<1> DEFINE m == Len(got)
<1>1. TypeOK /\ PhaseInv /\ StreamInv
  BY DEF IndInv
<1>2. /\ phase' = "receive" /\ wire' = Unread /\ got' = Append(got, NextFrame.n)
      /\ sent' = sent /\ sock' = sock
  BY DEF Await
<1>3. m \in Nat /\ sent \in Nat /\ sent <= MaxFrames /\ MaxFrames \in Nat
      /\ got \in Seq(1..MaxFrames) /\ DOMAIN got = 1..m /\ sent \in 0..MaxFrames
  BY <1>1, TypeFacts
<1>4. HoldsEvents(Stream, m, sent) /\ \A k \in DOMAIN got : got[k] = k
  BY <1>1 DEF StreamInv
<1>5. /\ Stream \in Seq(Frame) /\ Stream # <<>> /\ NextFrame = Head(Stream)
      /\ Kept = <<>> /\ Kept \in Seq(Frame) /\ Len(Kept) <= 1
      /\ Unread \in Seq(Frame) /\ Len(Unread) <= MaxFrames
      /\ Kept \o Unread = Tail(Stream)
  BY <1>1, ReadFacts
<1>6. NextFrame.n = m + 1 /\ m + 1 <= sent /\ HoldsEvents(Tail(Stream), m + 1, sent)
  BY <1>3, <1>4, <1>5, EventTaken
<1>7. /\ got' \in Seq(1..MaxFrames) /\ Len(got') = m + 1 /\ DOMAIN got' = 1..m + 1
      /\ \A k \in 1..m + 1 : got'[k] = k
  <2>1. m + 1 \in 1..MaxFrames /\ got' = Append(got, m + 1)
    BY <1>2, <1>3, <1>6
  <2>2. got' \in Seq(1..MaxFrames) /\ Len(got') = m + 1
    BY <1>3, <2>1
  <2>3. \A k \in 1..m + 1 : got'[k] = IF k = m + 1 THEN m + 1 ELSE got[k]
    BY <1>3, <2>1
  <2>4. \A k \in 1..m + 1 : got'[k] = k
    BY <1>3, <1>4, <2>3
  <2> QED
    BY <2>2, <2>4
<1>8. FramesOK
  BY <1>2, <1>3, <1>5, <1>7 DEF FramesOK
<1>9. PhaseInv'
  BY <1>2, <1>5 DEF PhaseInv
<1>10. Stream' = Tail(Stream)
  BY <1>2, <1>5 DEF Stream
<1>11. HoldsEvents(Stream, Len(got), sent)'
  BY <1>2, <1>6, <1>7, <1>10 DEF HoldsEvents
<1>12. StreamInv'
  BY <1>2, <1>6, <1>7, <1>11 DEF StreamInv
<1> QED
  BY <1>8, <1>9, <1>12

LEMMA ReceiveStep == ASSUME IndInv, Receive PROVE FramesOK /\ PhaseInv' /\ StreamInv'
<1>1. TypeOK /\ HasFrame /\ pending' = Kept /\ phase = "receive"
  BY DEF IndInv, Receive
<1>2. Kept = <<>>
  BY <1>1, ReadFacts
<1>3. CASE Over
  BY <1>1, <1>2, <1>3, OverEnds, OverKeeps, EmptySeq
<1>4. CASE NextFrame.kind = "event" /\ Await("receive", Unread, Append(got, NextFrame.n))
  BY <1>1, <1>4, DeliverStep
<1>5. CASE NextFrame.kind # "event" /\ Await("receive", Unread, got)
  BY <1>1, <1>5, AwaitKeeps
<1> QED
  BY <1>3, <1>4, <1>5 DEF Receive, Loop

LEMMA CancelStep == ASSUME IndInv, Cancel PROVE FramesOK /\ PhaseInv' /\ StreamInv'
<1>1. OverFacts /\ phase' = "idle" /\ pending' = pending
  BY DEF Cancel, OverFacts, NoFrames
<1>2. pending \in Seq(Frame) /\ Len(pending) <= 1
  BY DEF IndInv, TypeOK
<1> QED
  BY <1>1, <1>2, OverKeeps

LEMMA ServerSendsStep ==
    ASSUME IndInv, NEW kind \in Kinds, ServerSends(kind)
    PROVE  FramesOK /\ PhaseInv' /\ StreamInv'
<1> DEFINE f == [kind |-> kind, n |-> IF kind = "event" THEN sent + 1 ELSE 0]
<1>1. TypeOK /\ PhaseInv /\ StreamInv
  BY DEF IndInv
<1>2. /\ wire \in Seq(Frame) /\ Len(wire) \in Nat /\ pending \in Seq(Frame) /\ Len(pending) <= 1
      /\ sent \in 0..MaxFrames /\ sent \in Nat /\ MaxFrames \in Nat
      /\ got \in Seq(1..MaxFrames) /\ Len(got) \in Nat
  BY <1>1, TypeFacts
<1>3. /\ Len(wire) < MaxFrames
      /\ kind = "event" => sent < MaxFrames
      /\ sent' = IF kind = "event" THEN sent + 1 ELSE sent
      /\ wire' = Append(wire, f) /\ sock = "open"
      /\ phase' = phase /\ sock' = sock /\ got' = got /\ pending' = pending
  BY DEF ServerSends
<1>4. phase \in {"auth", "subscribe", "receive"}
  BY <1>1, <1>3 DEF PhaseInv, TypeOK
<1>5. f \in Frame
  BY <1>2, <1>3 DEF Frame
<1>6. f.kind = kind /\ f.n = IF kind = "event" THEN sent + 1 ELSE 0
  OBVIOUS
<1> HIDE DEF f
<1>7. sent' \in 0..MaxFrames /\ sent' \in Nat /\ sent <= sent'
  BY <1>2, <1>3
<1>8. wire' \in Seq(Frame) /\ Len(wire') <= MaxFrames
  BY <1>2, <1>3, <1>5
<1>9. FramesOK
  BY <1>2, <1>3, <1>7, <1>8 DEF FramesOK
<1>10. PhaseInv'
  BY <1>1, <1>3, <1>4 DEF PhaseInv
<1>11. /\ Len(got) <= sent /\ \A k \in DOMAIN got : got[k] = k
       /\ HoldsEvents(Stream, Len(got), sent)
  BY <1>1, <1>4 DEF StreamInv
<1>12. Stream \in Seq(Frame)
  BY <1>2, ConcatProperties DEF Stream
<1>13. HoldsEvents(Append(Stream, f), Len(got), sent')
  <2>1. sent \in Len(got)..MaxFrames
    BY <1>2, <1>11
  <2>2. IF f.kind = "event" THEN f.n = sent + 1 /\ sent' = sent + 1 ELSE sent' = sent
    BY <1>3, <1>6
  <2> QED
    BY <1>2, <1>5, <1>7, <1>11, <1>12, <2>1, <2>2, FrameArrives
<1>14. Stream' = Append(Stream, f)
  <2>1. /\ wire' = wire \o <<f>> /\ Append(Stream, f) = Stream \o <<f>> /\ <<f>> \in Seq(Frame)
    BY <1>2, <1>3, <1>5, <1>12
  <2>2. pending \o (wire \o <<f>>) = (pending \o wire) \o <<f>>
    BY <1>2, <2>1, ConcatAssociative
  <2> QED
    BY <1>3, <2>1, <2>2 DEF Stream
<1>15. StreamInv'
  <2>1. HoldsEvents(Stream, Len(got), sent)'
    BY <1>3, <1>13, <1>14 DEF HoldsEvents
  <2> QED
    BY <1>2, <1>3, <1>7, <1>11, <2>1 DEF StreamInv
<1> QED
  BY <1>9, <1>10, <1>15

LEMMA NextStep == ASSUME IndInv, Next PROVE FramesOK /\ PhaseInv' /\ StreamInv'
<1>1. TypeOK /\ PhaseInv
  BY DEF IndInv
<1>2. sock \in {"none", "open", "closed"} /\ pending \in Seq(Frame) /\ Len(pending) <= 1
  BY <1>1 DEF TypeOK
<1>3. CASE Opened
  BY <1>3, OpenedStep
<1>4. CASE OpenFails
  BY <1>1, <1>2, <1>4, OverEnds, OverKeeps DEF OpenFails, PhaseInv
<1>5. CASE Authenticate
  BY <1>5, AuthenticateStep
<1>6. CASE Subscribed
  BY <1>6, SubscribedStep
<1>7. CASE Receive
  BY <1>7, ReceiveStep
<1>8. CASE Broken
  BY <1>1, <1>2, <1>8, OverEnds, OverKeeps DEF Broken, NoFrames
<1>9. CASE Timeout
  BY <1>1, <1>2, <1>9, OverEnds, OverKeeps DEF Timeout, PhaseInv
<1>10. CASE Backoff
  BY <1>2, <1>10, StillKeeps DEF Backoff
<1>11. CASE Create
  BY <1>11, CreateStep
<1>12. CASE Disconnect
  BY <1>1, <1>2, <1>12, StillKeeps DEF Disconnect, PhaseInv
<1>13. CASE Cancel
  BY <1>13, CancelStep
<1>14. CASE ServerCloses
  BY <1>1, <1>2, <1>14, StillKeeps DEF ServerCloses, PhaseInv
<1>15. ASSUME NEW kind \in Kinds, ServerSends(kind)
       PROVE  FramesOK /\ PhaseInv' /\ StreamInv'
  BY <1>15, ServerSendsStep
<1>16. CASE Enter
  BY <1>1, <1>2, <1>16, StillKeeps DEF Enter
<1> QED
  BY <1>3, <1>4, <1>5, <1>6, <1>7, <1>8, <1>9, <1>10, <1>11, <1>12, <1>13, <1>14, <1>15, <1>16
     DEF Next, TaskStep, OtherStep

LEMMA Step == IndInv /\ [Next]_vars => IndInv'
<1> SUFFICES ASSUME IndInv, [Next]_vars PROVE IndInv'
  OBVIOUS
<1>1. CASE Next
  BY <1>1, NextStep, RestStep, TypeStep DEF IndInv
<1>2. CASE UNCHANGED vars
  BY <1>2 DEF IndInv, TypeOK, PhaseInv, StreamInv, HoldsEvents, Stream, vars, linkVars
<1> QED
  BY <1>1, <1>2

-----------------------------------------------------------------------------
(* The invariant holds in every reachable state. *)
THEOREM InvariantHolds == Spec => []IndInv
BY InitInv, Step, PTL DEF Spec

(* Of _pending_frames no more than one frame is ever kept (mcp_client.py,    *)
(* _subscribe), the delay stays between reconnect_initial_delay and          *)
(* reconnect_max_delay, and every other variable in its type.                *)
THEOREM TypeCorrect == Spec => []TypeOK
<1>1. IndInv => TypeOK
  BY DEF IndInv
<1> QED
  BY <1>1, InvariantHolds, PTL

(* The events of a connection reach on_message once and in the order in      *)
(* which the server sent them, whatever is mixed with them and also when one *)
(* comes in place of the answer to the subscription (_subscribe,             *)
(* _receive_loop).                                                           *)
THEOREM EventsAreInOrder == Spec => []EventsInOrder
<1>1. IndInv => EventsInOrder
  BY DEF IndInv, StreamInv, EventsInOrder, Stream
<1> QED
  BY <1>1, InvariantHolds, PTL

=============================================================================
