------------------------ MODULE TelemetryPipeProofs -------------------------
(***************************************************************************)
(* Proofs about TelemetryPipe, for every size of a batch, of an opening    *)
(* and of the FIFO, and for any number of messages, starts and launches.   *)
(*                                                                         *)
(* The inductive invariant looks at the way of the messages as three       *)
(* sequences, one behind the other: what the server took, the Stream       *)
(* between the writer and the server, and what is Waiting to be written.   *)
(* Reading and splitting lines only moves parts within the Stream.         *)
(***************************************************************************)
EXTENDS TelemetryPipe, SequenceTheorems, TLAPS

Stream == line \o (rbuf \o pipe)
Waiting == json_queue \o telemetry_queue

(* Only while a line is sent is there a line, only an open file has a      *)
(* buffer, and a newline is written in a batch that is not over.           *)
Rest ==
    /\ rpc # "send" => line = <<>>
    /\ rpc \in {"down", "open", "blocked"} => rbuf = <<>>
    /\ wpc = "newline" => sent < BatchSize

(* The beginning of a message is followed by its end... *)
Whole(s) ==
    \A k \in DOMAIN s : s[k].part = "head" =>
        k + 1 \in DOMAIN s /\ s[k + 1] = Tail1(s[k].n)

(* ... only newlines belong to no message... *)
Framed(s) == \A k \in DOMAIN s : s[k].part = "newline" <=> s[k].n = 0

(* ... and later messages are behind earlier ones. *)
Rising(s) ==
    \A j, k \in DOMAIN s : j < k =>
        \/ s[j].n = 0 \/ s[k].n = 0 \/ s[j].n < s[k].n
        \/ s[j].n = s[k].n /\ s[j].part = "head" /\ s[k].part = "tail"

Increasing(q) == \A j, k \in DOMAIN q : j < k => q[j] < q[k]

(* What the server took, a stream and what waits, of r messages, follow    *)
(* each other in the order of the messages.                                *)
InLine(took, s, w, r) ==
    /\ Whole(s) /\ Framed(s) /\ Rising(s)
    /\ Increasing(took) /\ Increasing(w)
    /\ \A i \in DOMAIN took : took[i] <= r
    /\ \A i \in DOMAIN s : s[i].n <= r
    /\ \A i \in DOMAIN w : w[i] <= r
    /\ \A i \in DOMAIN took, k \in DOMAIN s : s[k].n = 0 \/ took[i] < s[k].n
    /\ \A i \in DOMAIN took, k \in DOMAIN w : took[i] < w[k]
    /\ \A i \in DOMAIN s, k \in DOMAIN w : s[i].n < w[k]

Straight == InLine(stored, Stream, Waiting, reported)

PipeInv == PipeTypeOK /\ Rest /\ Straight /\ LostOnlyByFault

(* t is what is left of s without its first d elements. *)
Dropped(s, t, d) ==
    /\ Len(t) + d = Len(s)
    /\ \A k \in 1..Len(t) : t[k] = s[k + d]

----------------------------------------------------------------------------
(* Sequences. *)

(* The positions of a sequence. *)
LEMMA SeqFacts ==
    ASSUME NEW S, NEW s \in Seq(S)
    PROVE  /\ DOMAIN s = 1..Len(s) /\ Len(s) \in Nat
           /\ \A k \in 1..Len(s) : s[k] \in S
OBVIOUS

(* Positions of a concatenation. *)
LEMMA ConcatFacts ==
    ASSUME NEW S, NEW s \in Seq(S), NEW t \in Seq(S)
    PROVE  /\ s \o t \in Seq(S) /\ Len(s \o t) = Len(s) + Len(t)
           /\ DOMAIN (s \o t) = 1..(Len(s) + Len(t))
           /\ \A k \in 1..Len(s) : (s \o t)[k] = s[k]
           /\ \A k \in 1..Len(t) : (s \o t)[Len(s) + k] = t[k]
OBVIOUS

(* read(2) and readline cut a sequence in two that make it up. *)
LEMMA CutFacts ==
    ASSUME NEW S, NEW s \in Seq(S), NEW k \in 0..Len(s)
    PROVE  /\ SubSeq(s, 1, k) \in Seq(S) /\ Len(SubSeq(s, 1, k)) = k
           /\ SubSeq(s, k + 1, Len(s)) \in Seq(S)
           /\ Len(SubSeq(s, k + 1, Len(s))) = Len(s) - k
           /\ SubSeq(s, 1, k) \o SubSeq(s, k + 1, Len(s)) = s
<1>1. SubSeq(s, 1, k) \in Seq(S) /\ Len(SubSeq(s, 1, k)) = k
  OBVIOUS
<1>2. /\ SubSeq(s, k + 1, Len(s)) \in Seq(S)
      /\ Len(SubSeq(s, k + 1, Len(s))) = Len(s) - k
  OBVIOUS
<1>3. SubSeq(s, 1, k) \o SubSeq(s, k + 1, Len(s)) = SubSeq(s, 1, Len(s))
  <2>1. /\ 1 \in 1..Len(s) + 1 /\ k \in (1 - 1)..Len(s) /\ Len(s) \in k..Len(s)
    OBVIOUS
  <2> QED
    BY <2>1, ConcatAdjacentSubSeq
<1>4. SubSeq(s, 1, Len(s)) = s
  BY SubSeqFull
<1> QED
  BY <1>1, <1>2, <1>3, <1>4

(* A sequence without its first part. *)
LEMMA DroppedConcat ==
    ASSUME NEW S, NEW s \in Seq(S), NEW t \in Seq(S)
    PROVE  Dropped(s \o t, t, Len(s))
BY ConcatFacts DEF Dropped

(* get() takes the first element. *)
LEMMA DroppedTail ==
    ASSUME NEW S, NEW s \in Seq(S), s # <<>>, NEW t \in Seq(S)
    PROVE  /\ Tail(s) \in Seq(S) /\ Head(s) \in S
           /\ Dropped(s \o t, Tail(s) \o t, 1)
           /\ (s \o t)[1] = Head(s) /\ Len(s \o t) > 0
<1>1. /\ Tail(s) \in Seq(S) /\ Head(s) \in S /\ Len(Tail(s)) = Len(s) - 1
      /\ Len(s) \in Nat \ {0} /\ Head(s) = s[1]
      /\ \A i \in 1..Len(Tail(s)) : Tail(s)[i] = s[i + 1]
  OBVIOUS
<1>2. /\ Len(s \o t) = Len(s) + Len(t)
      /\ \A k \in 1..Len(s) : (s \o t)[k] = s[k]
      /\ \A k \in 1..Len(t) : (s \o t)[Len(s) + k] = t[k]
  BY ConcatFacts
<1>3. /\ Len(Tail(s) \o t) = Len(Tail(s)) + Len(t)
      /\ \A k \in 1..Len(Tail(s)) : (Tail(s) \o t)[k] = Tail(s)[k]
      /\ \A k \in 1..Len(t) : (Tail(s) \o t)[Len(Tail(s)) + k] = t[k]
  BY <1>1, ConcatFacts
<1>4. ASSUME NEW k \in 1..Len(Tail(s) \o t)
      PROVE  (Tail(s) \o t)[k] = (s \o t)[k + 1]
  <2>1. CASE k <= Len(Tail(s))
    BY <1>1, <1>2, <1>3, <2>1
  <2>2. CASE k > Len(Tail(s))
    <3>1. k - Len(Tail(s)) \in 1..Len(t)
      BY <1>1, <1>3, <2>2
    <3> QED
      BY <1>1, <1>2, <1>3, <3>1
  <2> QED
    BY <1>1, <2>1, <2>2
<1> QED
  BY <1>1, <1>2, <1>3, <1>4 DEF Dropped

----------------------------------------------------------------------------
(* The order of the messages, one lemma per way to change the sequences. *)

LEMMA TokenFacts ==
    ASSUME NEW s \in Seq(Token)
    PROVE  /\ DOMAIN s = 1..Len(s) /\ Len(s) \in Nat
           /\ \A k \in DOMAIN s : s[k] \in Token /\ s[k].n \in Nat
<1>1. ASSUME NEW x \in Token PROVE x.n \in Nat
  BY PipeAssumption DEF Token
<1> QED
  BY <1>1, SeqFacts

(* The reader or a close takes from the front of the stream. *)
LEMMA StreamDrops ==
    ASSUME NEW took \in Seq(Nat), NEW s \in Seq(Token), NEW w \in Seq(Nat),
           NEW r \in Nat, InLine(took, s, w, r),
           NEW t \in Seq(Token), NEW d \in Nat, Dropped(s, t, d)
    PROVE  InLine(took, t, w, r)
<1>1. DOMAIN t = 1..Len(t) /\ DOMAIN s = 1..Len(s) /\ Len(t) + d = Len(s)
      /\ Len(t) \in Nat /\ Len(s) \in Nat
  BY SeqFacts DEF Dropped
<1>2. \A k \in DOMAIN t : k + d \in DOMAIN s /\ t[k] = s[k + d]
  BY <1>1 DEF Dropped
<1>3. Whole(t)
  <2> SUFFICES ASSUME NEW k \in DOMAIN t, t[k].part = "head"
               PROVE  k + 1 \in DOMAIN t /\ t[k + 1] = Tail1(t[k].n)
    BY DEF Whole
  <2>1. (k + d) + 1 \in DOMAIN s /\ s[(k + d) + 1] = Tail1(s[k + d].n)
    BY <1>2 DEF InLine, Whole
  <2>2. k + 1 \in DOMAIN t /\ (k + 1) + d = (k + d) + 1
    BY <1>1, <2>1
  <2> QED
    BY <1>2, <2>1, <2>2
<1>4. Framed(t)
  BY <1>2 DEF InLine, Framed
<1>5. Rising(t)
  <2> SUFFICES ASSUME NEW j \in DOMAIN t, NEW k \in DOMAIN t, j < k
               PROVE  \/ t[j].n = 0 \/ t[k].n = 0 \/ t[j].n < t[k].n
                      \/ t[j].n = t[k].n /\ t[j].part = "head" /\ t[k].part = "tail"
    BY DEF Rising
  <2>1. j + d < k + d
    BY <1>1
  <2> QED
    BY <1>2, <2>1 DEF InLine, Rising
<1> QED
  BY <1>2, <1>3, <1>4, <1>5 DEF InLine

(* A message is given up, or the controller ends. *)
LEMMA WaitingDrops ==
    ASSUME NEW took \in Seq(Nat), NEW s \in Seq(Token), NEW w \in Seq(Nat),
           NEW r \in Nat, InLine(took, s, w, r),
           NEW v \in Seq(Nat), NEW d \in Nat, Dropped(w, v, d)
    PROVE  InLine(took, s, v, r)
<1>1. DOMAIN v = 1..Len(v) /\ DOMAIN w = 1..Len(w) /\ Len(v) + d = Len(w)
      /\ Len(v) \in Nat /\ Len(w) \in Nat
  BY SeqFacts DEF Dropped
<1>2. /\ \A k \in DOMAIN v : k + d \in DOMAIN w /\ v[k] = w[k + d]
      /\ DOMAIN v = 1..Len(v) /\ Len(v) \in Nat
  BY <1>1 DEF Dropped
<1>3. Increasing(v)
  <2> SUFFICES ASSUME NEW j \in DOMAIN v, NEW k \in DOMAIN v, j < k
               PROVE  v[j] < v[k]
    BY DEF Increasing
  <2>1. j + d < k + d
    BY <1>2
  <2> QED
    BY <1>2, <2>1 DEF InLine, Increasing
<1> QED
  BY <1>2, <1>3 DEF InLine

(* The drone sends a message. *)
LEMMA WaitingGrows ==
    ASSUME NEW took \in Seq(Nat), NEW s \in Seq(Token), NEW w \in Seq(Nat),
           NEW r \in Nat, InLine(took, s, w, r)
    PROVE  InLine(took, s, Append(w, r + 1), r + 1)
<1> DEFINE v == Append(w, r + 1)
<1>1. /\ DOMAIN v = DOMAIN w \cup {Len(w) + 1} /\ v[Len(w) + 1] = r + 1
      /\ \A k \in DOMAIN w : v[k] = w[k] /\ k <= Len(w) /\ w[k] <= r /\ w[k] \in Nat
  BY DEF InLine
<1>2. Len(w) \in Nat /\ DOMAIN w \subseteq Nat /\ DOMAIN took \subseteq Nat
      /\ \A i \in DOMAIN took : took[i] \in Nat /\ took[i] <= r
  BY DEF InLine
<1>3. \A i \in DOMAIN s : s[i].n \in Nat /\ s[i].n <= r
  BY TokenFacts DEF InLine
<1> HIDE DEF v
<1>4. Increasing(v)
  BY <1>1, <1>2 DEF InLine, Increasing
<1>5. /\ \A i \in DOMAIN took : took[i] <= r + 1
      /\ \A i \in DOMAIN s : s[i].n <= r + 1
      /\ \A i \in DOMAIN v : v[i] <= r + 1
  BY <1>1, <1>2, <1>3
<1>6. /\ \A i \in DOMAIN took, k \in DOMAIN v : took[i] < v[k]
      /\ \A i \in DOMAIN s, k \in DOMAIN v : s[i].n < v[k]
  BY <1>1, <1>2, <1>3 DEF InLine
<1> QED
  BY <1>4, <1>5, <1>6 DEF InLine, v

(* pub_telemetry writes the first message that waits, m. *)
LEMMA StreamGrows ==
    ASSUME NEW took \in Seq(Nat), NEW s \in Seq(Token), NEW w \in Seq(Nat),
           NEW r \in Nat, InLine(took, s, w, r),
           NEW m \in 1..MaxReports, Len(w) > 0, w[1] = m,
           NEW v \in Seq(Nat), Dropped(w, v, 1)
    PROVE  InLine(took, s \o <<Head1(m), Tail1(m)>>, v, r)
<1> DEFINE t == s \o <<Head1(m), Tail1(m)>>
           n == Len(s)
<1>1. InLine(took, s, v, r)
  BY WaitingDrops
<1>2. /\ n \in Nat /\ DOMAIN s = 1..n
      /\ \A k \in DOMAIN s : s[k] \in Token /\ s[k].n \in Nat
  BY TokenFacts
<1>3. m \in Nat \ {0} /\ Head1(m) \in Token /\ Tail1(m) \in Token
  BY PipeAssumption DEF Head1, Tail1, Token
<1>4. /\ t \in Seq(Token) /\ DOMAIN t = 1..(n + 2)
      /\ \A k \in DOMAIN s : t[k] = s[k]
      /\ t[n + 1] = Head1(m) /\ t[n + 2] = Tail1(m)
  BY <1>3
<1>5. /\ Head1(m).n = m /\ Head1(m).part = "head"
      /\ Tail1(m).n = m /\ Tail1(m).part = "tail"
  BY DEF Head1, Tail1
<1> HIDE DEF t, n
<1>6. \A k \in DOMAIN t : k \in DOMAIN s \/ k = n + 1 \/ k = n + 2
  <2>1. \A k \in 1..(n + 2) : k \in 1..n \/ k = n + 1 \/ k = n + 2
    BY <1>2
  <2> QED
    BY <1>2, <1>4, <2>1, Zenon
<1>7. \A k \in DOMAIN s : s[k].n < m
  BY DEF InLine
<1>8. \A i \in DOMAIN took : took[i] < m
  BY DEF InLine
<1>9. m <= r /\ \A k \in DOMAIN v : m < v[k]
  <2>1. 1 \in DOMAIN w /\ m <= r
    BY DEF InLine
  <2>2. ASSUME NEW k \in DOMAIN v PROVE m < v[k]
    <3>1. /\ DOMAIN v = 1..Len(v) /\ DOMAIN w = 1..Len(w)
          /\ Len(v) + 1 = Len(w) /\ Len(v) \in Nat
      BY SeqFacts DEF Dropped
    <3>2. k + 1 \in DOMAIN w /\ v[k] = w[k + 1] /\ 1 < k + 1
      BY <3>1 DEF Dropped
    <3> QED
      BY <2>1, <3>2 DEF InLine, Increasing
  <2> QED
    BY <2>1, <2>2
<1>10. Whole(t)
  <2> SUFFICES ASSUME NEW k \in DOMAIN t, t[k].part = "head"
               PROVE  k + 1 \in DOMAIN t /\ t[k + 1] = Tail1(t[k].n)
    BY DEF Whole
  <2>1. CASE k \in DOMAIN s
    <3>1. k + 1 \in DOMAIN s /\ s[k + 1] = Tail1(s[k].n)
      BY <1>1, <1>4, <2>1 DEF InLine, Whole
    <3> QED
      BY <1>2, <1>4, <2>1, <3>1
  <2>2. CASE k = n + 1
    BY <1>2, <1>4, <1>5, <2>2
  <2>3. CASE k = n + 2
    BY <1>4, <1>5, <2>3
  <2> QED
    BY <1>6, <2>1, <2>2, <2>3
<1>11. Framed(t)
  <2>1. \A k \in DOMAIN s : s[k].part = "newline" <=> s[k].n = 0
    BY <1>1 DEF InLine, Framed
  <2> QED
    BY <1>3, <1>4, <1>5, <1>6, <2>1 DEF Framed
<1>12. Rising(t)
  <2> SUFFICES ASSUME NEW j \in DOMAIN t, NEW k \in DOMAIN t, j < k
               PROVE  \/ t[j].n = 0 \/ t[k].n = 0 \/ t[j].n < t[k].n
                      \/ t[j].n = t[k].n /\ t[j].part = "head" /\ t[k].part = "tail"
    BY DEF Rising
  <2>1. CASE k \in DOMAIN s
    <3>1. j \in 1..(n + 2) /\ k \in 1..n
      BY <1>2, <1>4, <2>1
    <3>2. j \in DOMAIN s
      BY <1>2, <3>1
    <3> QED
      BY <1>1, <1>4, <2>1, <3>2 DEF InLine, Rising
  <2>2. CASE k = n + 1 \/ k = n + 2
    <3>1. j \in DOMAIN s \/ (j = n + 1 /\ k = n + 2)
      BY <1>2, <1>6, <2>2
    <3> QED
      BY <1>4, <1>5, <1>7, <2>2, <3>1
  <2> QED
    BY <1>6, <2>1, <2>2
<1>13. \A i \in DOMAIN t : t[i].n <= r
  BY <1>1, <1>4, <1>5, <1>6, <1>9 DEF InLine
<1>14. \A i \in DOMAIN took, k \in DOMAIN t : t[k].n = 0 \/ took[i] < t[k].n
  BY <1>1, <1>4, <1>5, <1>6, <1>8 DEF InLine
<1>15. \A i \in DOMAIN t, k \in DOMAIN v : t[i].n < v[k]
  BY <1>1, <1>4, <1>5, <1>6, <1>9 DEF InLine
<1> QED
  BY <1>1, <1>10, <1>11, <1>12, <1>13, <1>14, <1>15 DEF InLine, t

(* pub_telemetry writes a newline. *)
LEMMA StreamEndsLine ==
    ASSUME NEW took \in Seq(Nat), NEW s \in Seq(Token), NEW w \in Seq(Nat \ {0}),
           NEW r \in Nat, InLine(took, s, w, r)
    PROVE  InLine(took, Append(s, Newline), w, r)
<1> DEFINE t == Append(s, Newline)
           n == Len(s)
<1>1. /\ n \in Nat /\ DOMAIN s = 1..n
      /\ \A k \in DOMAIN s : s[k] \in Token /\ s[k].n \in Nat
  BY TokenFacts
<1>2. /\ DOMAIN t = DOMAIN s \cup {n + 1}
      /\ \A k \in DOMAIN s : t[k] = s[k]
      /\ t[n + 1] = Newline
  OBVIOUS
<1>3. Newline.n = 0 /\ Newline.part = "newline"
  BY DEF Newline
<1> HIDE DEF t, n
<1>4. Whole(t)
  <2> SUFFICES ASSUME NEW k \in DOMAIN t, t[k].part = "head"
               PROVE  k + 1 \in DOMAIN t /\ t[k + 1] = Tail1(t[k].n)
    BY DEF Whole
  <2>1. k \in DOMAIN s
    BY <1>2, <1>3
  <2> QED
    BY <1>2, <2>1 DEF InLine, Whole
<1>5. Framed(t)
  BY <1>2, <1>3 DEF InLine, Framed
<1>6. Rising(t)
  <2> SUFFICES ASSUME NEW j \in DOMAIN t, NEW k \in DOMAIN t, j < k
               PROVE  \/ t[j].n = 0 \/ t[k].n = 0 \/ t[j].n < t[k].n
                      \/ t[j].n = t[k].n /\ t[j].part = "head" /\ t[k].part = "tail"
    BY DEF Rising
  <2>1. CASE j \in DOMAIN s /\ k \in DOMAIN s
    BY <1>2, <2>1 DEF InLine, Rising
  <2>2. CASE j = n + 1 \/ k = n + 1
    BY <1>2, <1>3, <2>2
  <2> QED
    BY <1>2, <2>1, <2>2
<1>7. /\ \A k \in DOMAIN t : t[k].n \in Nat /\ t[k].n <= r
      /\ \A i \in DOMAIN took, k \in DOMAIN t : t[k].n = 0 \/ took[i] < t[k].n
      /\ \A i \in DOMAIN t, k \in DOMAIN w : t[i].n < w[k]
  <2>1. \A k \in DOMAIN w : w[k] > 0
    OBVIOUS
  <2> QED
    BY <1>1, <1>2, <1>3, <2>1 DEF InLine
<1> QED
  BY <1>4, <1>5, <1>6, <1>7 DEF InLine, t

(* The server takes a line that is the message m. *)
LEMMA Delivered ==
    ASSUME NEW took \in Seq(Nat), NEW s \in Seq(Token), NEW w \in Seq(Nat),
           NEW r \in Nat, InLine(took, s, w, r),
           NEW m \in Nat \ {0}, NEW d \in {2, 3}, Len(s) >= d,
           s[1] = Head1(m), s[2] = Tail1(m),
           NEW t \in Seq(Token), Dropped(s, t, d)
    PROVE  InLine(Append(took, m), t, w, r)
<1> DEFINE all == Append(took, m)
           n == Len(took)
<1>1. InLine(took, t, w, r)
  BY StreamDrops
<1>2. /\ n \in Nat /\ DOMAIN took = 1..n /\ DOMAIN all = DOMAIN took \cup {n + 1}
      /\ \A k \in DOMAIN took : all[k] = took[k] /\ took[k] \in Nat
      /\ all[n + 1] = m
  OBVIOUS
<1>3. /\ DOMAIN t = 1..Len(t) /\ DOMAIN s = 1..Len(s)
      /\ Len(t) + d = Len(s) /\ Len(t) \in Nat /\ d \in Nat /\ d >= 2
  BY SeqFacts DEF Dropped
<1>4. 1 \in DOMAIN s /\ 2 \in DOMAIN s /\ s[1].n = m /\ s[2].n = m /\ s[2].part = "tail"
  BY <1>3 DEF Head1, Tail1
<1>5. m <= r /\ \A k \in DOMAIN w : m < w[k]
  BY <1>4 DEF InLine
<1>6. \A i \in DOMAIN took : took[i] < m
  BY <1>4 DEF InLine
<1>7. ASSUME NEW k \in DOMAIN t PROVE t[k].n = 0 \/ m < t[k].n
  <2>1. k + d \in DOMAIN s /\ t[k] = s[k + d] /\ 2 < k + d
    BY <1>3 DEF Dropped
  <2>2. \/ s[2].n = 0 \/ s[k + d].n = 0 \/ s[2].n < s[k + d].n
        \/ s[2].part = "head"
    BY <1>4, <2>1 DEF InLine, Rising
  <2> QED
    BY <1>4, <2>1, <2>2
<1> HIDE DEF all, n
<1>8. Increasing(all)
  <2>1. \A j, k \in DOMAIN took : j < k => took[j] < took[k]
    BY DEF InLine, Increasing
  <2>2. \A j \in DOMAIN all : j # n + 1 => j \in DOMAIN took
    BY <1>2
  <2>3. \A k \in DOMAIN took : ~(n + 1 < k)
    BY <1>2
  <2> QED
    BY <1>2, <1>6, <2>1, <2>2, <2>3 DEF Increasing
<1>9. /\ \A i \in DOMAIN all : all[i] <= r
      /\ \A i \in DOMAIN all, k \in DOMAIN t : t[k].n = 0 \/ all[i] < t[k].n
      /\ \A i \in DOMAIN all, k \in DOMAIN w : all[i] < w[k]
  BY <1>1, <1>2, <1>5, <1>7 DEF InLine
<1> QED
  BY <1>1, <1>8, <1>9 DEF InLine, all

----------------------------------------------------------------------------
(* Messages and their parts. *)
LEMMA TokenTypes ==
    /\ \A m \in 1..MaxReports : Head1(m) \in Token /\ Tail1(m) \in Token
    /\ Newline \in Token
<1>1. 0 \in 0..MaxReports /\ \A m \in 1..MaxReports : m \in 0..MaxReports
  BY PipeAssumption
<1> QED
  BY <1>1 DEF Head1, Tail1, Newline, Token

(* The messages of a stream are messages of the drone. *)
LEMMA MessagesType ==
    ASSUME NEW s \in Seq(Token) PROVE Messages(s) \subseteq 1..MaxReports
<1>1. ASSUME NEW x \in Token, x.n # 0 PROVE x.n \in 1..MaxReports
  BY <1>1, PipeAssumption DEF Token
<1>2. \A k \in DOMAIN s : s[k] \in Token
  OBVIOUS
<1> QED
  BY <1>1, <1>2, Zenon DEF Messages

(* What a queue holds has the type of its elements. *)
LEMMA ToSetType ==
    ASSUME NEW S, NEW s \in Seq(S) PROVE ToSet(s) \subseteq S
BY DEF ToSet

(* Every step keeps the types and the limits. *)
LEMMA PipeTypeStep ==
    PipeTypeOK /\ Rest /\ [PipeNext]_pipeVars => PipeTypeOK' /\ Rest'
<1> SUFFICES ASSUME PipeTypeOK, Rest, [PipeNext]_pipeVars
             PROVE  PipeTypeOK' /\ Rest'
  OBVIOUS
<1> USE PipeAssumption
<1> USE DEF writerVars, readerVars
<1>1. CASE Start
  BY <1>1 DEF Start, PipeTypeOK, Rest
<1>2. CASE ControllerExit
  <2>1. ToSet(telemetry_queue) \subseteq 1..MaxReports
        /\ ToSet(json_queue) \subseteq 1..MaxReports
    BY ToSetType DEF PipeTypeOK
  <2>2. gone' \subseteq 1..MaxReports
    BY <1>2, <2>1, Zenon DEF ControllerExit, PipeTypeOK
  <2>3. <<>> \in Seq(1..MaxReports)
    OBVIOUS
  <2> QED
    BY <1>2, <2>2, <2>3 DEF ControllerExit, PipeTypeOK, Rest
<1>3. CASE Report
  <2>1. reported + 1 \in 1..MaxReports
    BY <1>3 DEF Report, PipeTypeOK
  <2> QED
    BY <1>3, <2>1 DEF Report, PipeTypeOK, Rest
<1>4. CASE queue_parser
  <2>1. /\ Tail(telemetry_queue) \in Seq(1..MaxReports)
        /\ Head(telemetry_queue) \in 1..MaxReports
    BY <1>4 DEF queue_parser, PipeTypeOK
  <2>2. json_queue' \in Seq(1..MaxReports)
    BY <1>4, <2>1 DEF queue_parser, PipeTypeOK
  <2> QED
    BY <1>4, <2>1, <2>2 DEF queue_parser, PipeTypeOK, Rest
<1>5. CASE PubWake
  BY <1>5 DEF PubWake, PipeTypeOK, Rest
<1>6. CASE PubOpen
  BY <1>6 DEF PubOpen, PipeTypeOK, Rest, HasReader
<1>7. CASE PubWrite
  <2>1. CASE UNCHANGED <<json_queue, pipe, gone>> /\ wpc' = "close"
    BY <1>7, <2>1 DEF PubWrite, PipeTypeOK, Rest
  <2>2. CASE /\ ~BatchOver /\ HasReader /\ Len(pipe) + 2 <= PipeCap
             /\ pipe' = pipe \o Written(Head(json_queue))
             /\ json_queue' = Tail(json_queue)
             /\ wpc' = "newline" /\ UNCHANGED gone
    <3>1. /\ json_queue # <<>> /\ sent < BatchSize
          /\ Head(json_queue) \in 1..MaxReports
          /\ Tail(json_queue) \in Seq(1..MaxReports)
      BY <2>2 DEF BatchOver, PipeTypeOK
    <3>2. /\ Head1(Head(json_queue)) \in Token
          /\ Tail1(Head(json_queue)) \in Token
      BY <3>1, TokenTypes
    <3>3. pipe' \in Seq(Token) /\ Len(pipe') <= PipeCap
      BY <2>2, <3>2 DEF Written, PipeTypeOK
    <3> QED
      BY <1>7, <2>2, <3>1, <3>3 DEF PubWrite, PipeTypeOK, Rest
  <2>3. CASE ~BatchOver /\ GiveUp /\ wpc' = "close" /\ UNCHANGED pipe
    <3>1. /\ Head(json_queue) \in 1..MaxReports
          /\ Tail(json_queue) \in Seq(1..MaxReports)
      BY <2>3 DEF BatchOver, PipeTypeOK
    <3> QED
      BY <1>7, <2>3, <3>1 DEF PubWrite, GiveUp, PipeTypeOK, Rest
  <2> QED
    BY <1>7, <2>1, <2>2, <2>3 DEF PubWrite
<1>8. CASE PubNewline
  <2>1. CASE HasReader /\ Len(pipe) < PipeCap
    <3>1. Append(pipe, Newline) \in Seq(Token)
          /\ Len(Append(pipe, Newline)) <= PipeCap
      BY <2>1, TokenTypes DEF PipeTypeOK
    <3>2. sent < BatchSize /\ sent' = sent + 1 /\ sent' \in 0..BatchSize
      BY <1>8, <2>1 DEF PubNewline, PipeTypeOK, Rest
    <3> QED
      BY <1>8, <2>1, <3>1, <3>2 DEF PubNewline, PipeTypeOK, Rest
  <2>2. CASE ~(HasReader /\ Len(pipe) < PipeCap)
    BY <1>8, <2>2 DEF PubNewline, PipeTypeOK, Rest
  <2> QED
    BY <2>1, <2>2
<1>9. CASE PubClose
  <2>1. Messages(pipe) \subseteq 1..MaxReports
    BY MessagesType DEF PipeTypeOK
  <2>2. <<>> \in Seq(Token) /\ Len(<<>>) <= PipeCap
    OBVIOUS
  <2> QED
    BY <1>9, <2>1, <2>2 DEF PubClose, PipeTypeOK, Rest
<1>10. CASE Launch
  BY <1>10 DEF Launch, PipeTypeOK, Rest
<1>11. CASE TeleOpen
  BY <1>11 DEF TeleOpen, PipeTypeOK, Rest
<1>12. CASE TeleFill
  <2>1. PICK k \in 1..Len(pipe) :
           /\ rbuf' = rbuf \o SubSeq(pipe, 1, k)
           /\ pipe' = SubSeq(pipe, k + 1, Len(pipe))
    BY <1>12 DEF TeleFill
  <2>2. /\ SubSeq(pipe, 1, k) \in Seq(Token)
        /\ pipe' \in Seq(Token) /\ Len(pipe') <= PipeCap
    BY <2>1, CutFacts DEF PipeTypeOK
  <2>3. rbuf' \in Seq(Token)
    BY <2>1, <2>2 DEF PipeTypeOK
  <2> QED
    BY <1>12, <2>2, <2>3 DEF TeleFill, PipeTypeOK, Rest
<1>13. CASE TeleLine
  <2>1. CASE \E k \in DOMAIN rbuf :
                /\ line' = SubSeq(rbuf, 1, k)
                /\ rbuf' = SubSeq(rbuf, k + 1, Len(rbuf))
    <3>1. PICK k \in DOMAIN rbuf :
                /\ line' = SubSeq(rbuf, 1, k)
                /\ rbuf' = SubSeq(rbuf, k + 1, Len(rbuf))
      BY <2>1
    <3>2. k \in 0..Len(rbuf)
      BY SeqFacts DEF PipeTypeOK
    <3>3. line' \in Seq(Token) /\ rbuf' \in Seq(Token)
      BY <3>1, <3>2, CutFacts DEF PipeTypeOK
    <3> QED
      BY <1>13, <3>3 DEF TeleLine, PipeTypeOK, Rest
  <2>2. CASE line' = rbuf /\ rbuf' = <<>>
    BY <1>13, <2>2 DEF TeleLine, PipeTypeOK, Rest
  <2> QED
    BY <1>13, <2>1, <2>2 DEF TeleLine
<1>14. CASE TeleSend
  <2>1. stored' \in Seq(1..MaxReports) /\ gone' \subseteq 1..MaxReports
    <3>1. CASE \E m \in 1..MaxReports : stored' = Append(stored, m) /\ UNCHANGED gone
      BY <3>1 DEF PipeTypeOK
    <3>2. CASE gone' = gone \cup Messages(line) /\ UNCHANGED stored
      BY <3>2, MessagesType DEF PipeTypeOK
    <3> QED
      BY <1>14, <3>1, <3>2 DEF TeleSend
  <2> QED
    BY <1>14, <2>1 DEF TeleSend, PipeTypeOK, Rest
<1>15. CASE TeleClose
  <2>1. Messages(pipe) \subseteq 1..MaxReports /\ Messages(rbuf) \subseteq 1..MaxReports
    BY MessagesType DEF PipeTypeOK
  <2>2. <<>> \in Seq(Token) /\ Len(<<>>) <= PipeCap
    OBVIOUS
  <2>3. gone' \subseteq 1..MaxReports
    BY <1>15, <2>1 DEF TeleClose, PipeTypeOK
  <2>4. pipe' \in Seq(Token) /\ Len(pipe') <= PipeCap
    BY <1>15, <2>2 DEF TeleClose, PipeTypeOK
  <2> QED
    BY <1>15, <2>2, <2>3, <2>4 DEF TeleClose, PipeTypeOK, Rest
<1>16. CASE UNCHANGED pipeVars
  BY <1>16 DEF pipeVars, PipeTypeOK, Rest
<1> QED
  BY <1>1, <1>2, <1>3, <1>4, <1>5, <1>6, <1>7, <1>8, <1>9, <1>10, <1>11,
     <1>12, <1>13, <1>14, <1>15, <1>16 DEF PipeNext

----------------------------------------------------------------------------
(* queue_parser moves a message from one queue to the other. *)
LEMMA MoveFirst ==
    ASSUME NEW S, NEW s \in Seq(S), NEW t \in Seq(S), t # <<>>
    PROVE  Append(s, Head(t)) \o Tail(t) = s \o t
<1>1. <<Head(t)>> \o Tail(t) = t /\ <<Head(t)>> \in Seq(S) /\ Tail(t) \in Seq(S)
      /\ Head(t) \in S
  OBVIOUS
<1>2. Append(s, Head(t)) = s \o <<Head(t)>>
  BY <1>1, AppendIsConcat
<1>3. (s \o <<Head(t)>>) \o Tail(t) = s \o (<<Head(t)>> \o Tail(t))
  BY <1>1, ConcatAssociative
<1> QED
  BY <1>1, <1>2, <1>3

(* What is appended to the last sequence is appended to the whole. *)
LEMMA AppendLast ==
    ASSUME NEW S, NEW s \in Seq(S), NEW t \in Seq(S), NEW x \in S
    PROVE  s \o Append(t, x) = Append(s \o t, x)
<1>1. Append(t, x) = t \o <<x>> /\ <<x>> \in Seq(S) /\ s \o t \in Seq(S)
  BY AppendIsConcat
<1>2. Append(s \o t, x) = (s \o t) \o <<x>>
  BY <1>1, AppendIsConcat
<1>3. (s \o t) \o <<x>> = s \o (t \o <<x>>)
  BY <1>1, ConcatAssociative
<1> QED
  BY <1>1, <1>2, <1>3

(* Parts of the stream may be joined in any grouping. *)
LEMMA Regroup ==
    \A s, t, u \in Seq(Token) : s \o (t \o u) = (s \o t) \o u
<1> SUFFICES ASSUME NEW s \in Seq(Token), NEW t \in Seq(Token), NEW u \in Seq(Token)
             PROVE  s \o (t \o u) = (s \o t) \o u
  OBVIOUS
<1> QED
  BY ConcatAssociative

(* The types of the sequences that InLine compares. *)
LEMMA StreamTypes ==
    ASSUME PipeTypeOK
    PROVE  /\ Stream \in Seq(Token) /\ rbuf \o pipe \in Seq(Token)
           /\ Waiting \in Seq(Nat \ {0}) /\ Waiting \in Seq(Nat)
           /\ stored \in Seq(Nat) /\ reported \in Nat
<1>1. rbuf \o pipe \in Seq(Token)
  BY ConcatFacts DEF PipeTypeOK
<1>2. Stream \in Seq(Token)
  BY <1>1, ConcatFacts DEF PipeTypeOK, Stream
<1>3. Waiting \in Seq(1..MaxReports)
  BY ConcatFacts DEF PipeTypeOK, Waiting
<1>4. 1..MaxReports \subseteq Nat \ {0} /\ 1..MaxReports \subseteq Nat
  BY PipeAssumption
<1>5. Waiting \in Seq(Nat \ {0}) /\ Waiting \in Seq(Nat)
  BY <1>3, <1>4, SeqMonotonic
<1>6. stored \in Seq(Nat)
  BY <1>4, SeqMonotonic DEF PipeTypeOK
<1> QED
  BY <1>1, <1>2, <1>5, <1>6 DEF PipeTypeOK

(* Steps that leave the stream and what waits as they are. *)
LEMMA StraightSame ==
    ASSUME Straight, Stream' = Stream, Waiting' = Waiting,
           UNCHANGED <<stored, reported>>
    PROVE  Straight'
BY DEF Straight

(* Every step keeps the messages in line. *)
LEMMA StraightStep ==
    PipeTypeOK /\ PipeTypeOK' /\ Rest /\ Straight /\ [PipeNext]_pipeVars => Straight'
<1> SUFFICES ASSUME PipeTypeOK, PipeTypeOK', Rest, Straight, [PipeNext]_pipeVars
             PROVE  Straight'
  OBVIOUS
<1> USE DEF writerVars, readerVars
<1>t. /\ Stream \in Seq(Token) /\ rbuf \o pipe \in Seq(Token)
      /\ Waiting \in Seq(Nat \ {0}) /\ Waiting \in Seq(Nat)
      /\ stored \in Seq(Nat) /\ reported \in Nat
  BY StreamTypes
<1>u. /\ Stream' \in Seq(Token) /\ (rbuf \o pipe)' \in Seq(Token)
      /\ Waiting' \in Seq(Nat)
      /\ stored' \in Seq(Nat) /\ reported' \in Nat
  <2>1. /\ rbuf' \in Seq(Token) /\ pipe' \in Seq(Token) /\ line' \in Seq(Token)
        /\ json_queue' \in Seq(1..MaxReports) /\ telemetry_queue' \in Seq(1..MaxReports)
        /\ stored' \in Seq(1..MaxReports) /\ reported' \in 0..MaxReports
    BY DEF PipeTypeOK
  <2>2. rbuf' \o pipe' \in Seq(Token)
    BY <2>1, ConcatFacts
  <2>3. line' \o (rbuf' \o pipe') \in Seq(Token)
    BY <2>1, <2>2, ConcatFacts
  <2>4. json_queue' \o telemetry_queue' \in Seq(1..MaxReports)
    BY <2>1, ConcatFacts
  <2>5. 1..MaxReports \subseteq Nat
    BY PipeAssumption
  <2>6. json_queue' \o telemetry_queue' \in Seq(Nat) /\ stored' \in Seq(Nat)
    BY <2>1, <2>4, <2>5, SeqMonotonic
  <2> QED
    BY <2>1, <2>2, <2>3, <2>6 DEF Stream, Waiting
<1>v. /\ line \in Seq(Token) /\ rbuf \in Seq(Token) /\ pipe \in Seq(Token)
      /\ json_queue \in Seq(1..MaxReports) /\ telemetry_queue \in Seq(1..MaxReports)
      /\ Newline \in Token
  BY TokenTypes DEF PipeTypeOK
<1>s. InLine(stored, Stream, Waiting, reported)
  BY DEF Straight
<1>1. CASE Start \/ PubWake \/ PubOpen \/ Launch \/ TeleOpen \/ UNCHANGED pipeVars
  <2>1. UNCHANGED <<line, rbuf, pipe, json_queue, telemetry_queue, stored, reported>>
    BY <1>1 DEF Start, PubWake, PubOpen, Launch, TeleOpen, pipeVars
  <2> QED
    BY <2>1, StraightSame DEF Stream, Waiting
<1>2. CASE ControllerExit
  <2>1. UNCHANGED <<line, rbuf, pipe, stored, reported>>
        /\ json_queue' = <<>> /\ telemetry_queue' = <<>>
    BY <1>2 DEF ControllerExit
  <2>2. Stream' = Stream
    BY <2>1 DEF Stream
  <2>3. Waiting' = <<>>
    BY <2>1 DEF Waiting
  <2>4. Dropped(Waiting, <<>>, Len(Waiting)) /\ Len(Waiting) \in Nat
        /\ <<>> \in Seq(Nat)
    BY <1>t DEF Dropped
  <2>5. InLine(stored, Stream, <<>>, reported)
    BY <1>s, <1>t, <2>4, WaitingDrops
  <2> QED
    BY <2>1, <2>2, <2>3, <2>5 DEF Straight
<1>3. CASE Report
  <2>1. UNCHANGED <<line, rbuf, pipe, stored, json_queue>> /\ reported' = reported + 1
        /\ telemetry_queue' = Append(telemetry_queue, reported + 1)
        /\ reported + 1 \in 1..MaxReports
    BY <1>3, PipeAssumption DEF Report, PipeTypeOK
  <2>2. Stream' = Stream
    BY <2>1 DEF Stream
  <2>3. Waiting' = Append(Waiting, reported + 1)
    <3>1. /\ Waiting' = json_queue \o Append(telemetry_queue, reported + 1)
          /\ json_queue \o Append(telemetry_queue, reported + 1)
                = Append(json_queue \o telemetry_queue, reported + 1)
      BY <1>v, <2>1, AppendLast DEF Waiting
    <3> QED
      BY <3>1 DEF Waiting
  <2>4. InLine(stored, Stream, Append(Waiting, reported + 1), reported + 1)
    BY <1>s, <1>t, WaitingGrows
  <2> QED
    BY <2>1, <2>2, <2>3, <2>4 DEF Straight
<1>4. CASE queue_parser
  <2>1. UNCHANGED <<line, rbuf, pipe, stored, reported>>
        /\ telemetry_queue # <<>>
        /\ json_queue' = Append(json_queue, Head(telemetry_queue))
        /\ telemetry_queue' = Tail(telemetry_queue)
    BY <1>4 DEF queue_parser
  <2>2. Stream' = Stream
    BY <2>1 DEF Stream
  <2>3. Waiting' = Waiting
    BY <2>1, MoveFirst DEF Waiting, PipeTypeOK
  <2> QED
    BY <2>1, <2>2, <2>3, StraightSame
<1>5. CASE PubWrite
  <2>1. UNCHANGED <<line, rbuf, stored, reported, telemetry_queue>>
    BY <1>5 DEF PubWrite
  <2>2. CASE UNCHANGED <<json_queue, pipe>>
    BY <2>1, <2>2, StraightSame DEF Stream, Waiting
  <2>3. CASE json_queue # <<>> /\ json_queue' = Tail(json_queue)
    <3> DEFINE m == Head(json_queue)
    <3>1. /\ m \in 1..MaxReports /\ Dropped(Waiting, Waiting', 1)
          /\ Waiting[1] = m /\ Len(Waiting) > 0
      BY <2>1, <2>3, DroppedTail DEF Waiting, PipeTypeOK
    <3> HIDE DEF m
    <3>2. CASE UNCHANGED pipe
      <4>1. Stream' = Stream
        BY <2>1, <3>2 DEF Stream
      <4>2. InLine(stored, Stream, Waiting', reported)
        BY <1>s, <1>t, <1>u, <3>1, WaitingDrops
      <4> QED
        BY <2>1, <4>1, <4>2 DEF Straight
    <3>3. CASE pipe' = pipe \o Written(m)
      <4> DEFINE new == <<Head1(m), Tail1(m)>>
      <4>1. new \in Seq(Token) /\ pipe' = pipe \o new
        BY <3>1, <3>3, TokenTypes DEF Written
      <4> HIDE DEF new
      <4>2. rbuf \o (pipe \o new) = (rbuf \o pipe) \o new
        BY <1>v, <4>1, Regroup
      <4>3. line \o ((rbuf \o pipe) \o new) = (line \o (rbuf \o pipe)) \o new
        <5> DEFINE both == rbuf \o pipe
        <5>1. both \in Seq(Token)
          BY <1>t
        <5> HIDE DEF both
        <5>2. line \o (both \o new) = (line \o both) \o new
          BY <1>v, <4>1, <5>1, Regroup
        <5> QED
          BY <5>2 DEF both
      <4>4. Stream' = Stream \o new
        BY <2>1, <4>1, <4>2, <4>3 DEF Stream
      <4>5. InLine(stored, Stream \o <<Head1(m), Tail1(m)>>, Waiting', reported)
        BY <1>s, <1>t, <1>u, <3>1, StreamGrows
      <4> QED
        BY <2>1, <4>4, <4>5 DEF Straight, new
    <3> QED
      BY <1>5, <2>3, <3>2, <3>3 DEF PubWrite, m
  <2>4. CASE json_queue = <<>>
    BY <1>5, <2>2, <2>4 DEF PubWrite, BatchOver
  <2> QED
    BY <1>5, <2>2, <2>3, <2>4 DEF PubWrite, GiveUp
<1>6. CASE PubNewline
  <2>1. UNCHANGED <<line, rbuf, stored, reported, telemetry_queue, json_queue>>
    BY <1>6 DEF PubNewline
  <2>2. CASE UNCHANGED pipe
    BY <2>1, <2>2, StraightSame DEF Stream, Waiting
  <2>3. CASE pipe' = Append(pipe, Newline)
    <3>1. rbuf \o Append(pipe, Newline) = Append(rbuf \o pipe, Newline)
      BY <1>v, AppendLast
    <3>2. line \o Append(rbuf \o pipe, Newline) = Append(Stream, Newline)
      BY <1>t, <1>v, AppendLast DEF Stream
    <3>3. Stream' = Append(Stream, Newline)
      BY <2>1, <2>3, <3>1, <3>2 DEF Stream
    <3>4. InLine(stored, Append(Stream, Newline), Waiting, reported)
      BY <1>s, <1>t, StreamEndsLine
    <3> QED
      BY <2>1, <3>3, <3>4 DEF Straight, Waiting
  <2> QED
    BY <1>6, <2>2, <2>3 DEF PubNewline
<1>7. CASE PubClose
  <2>1. UNCHANGED <<line, rbuf, stored, reported, telemetry_queue, json_queue>>
    BY <1>7 DEF PubClose
  <2>2. CASE HasReader
    <3>1. UNCHANGED pipe
      BY <1>7, <2>2 DEF PubClose
    <3> QED
      BY <2>1, <3>1, StraightSame DEF Stream, Waiting
  <2>3. CASE ~HasReader
    <3>1. line = <<>> /\ rbuf = <<>> /\ pipe' = <<>>
      BY <1>7, <2>3 DEF PubClose, HasReader, Rest, PipeTypeOK
    <3>2. Stream' = <<>>
      BY <2>1, <3>1 DEF Stream
    <3>3. Dropped(Stream, <<>>, Len(Stream)) /\ Len(Stream) \in Nat
          /\ <<>> \in Seq(Token)
      BY <1>t DEF Dropped
    <3>4. InLine(stored, <<>>, Waiting, reported)
      BY <1>s, <1>t, <3>3, StreamDrops
    <3> QED
      BY <2>1, <3>2, <3>4 DEF Straight, Waiting
  <2> QED
    BY <2>2, <2>3
<1>8. CASE TeleFill
  <2>1. PICK k \in 1..Len(pipe) :
           /\ rbuf' = rbuf \o SubSeq(pipe, 1, k)
           /\ pipe' = SubSeq(pipe, k + 1, Len(pipe))
    BY <1>8 DEF TeleFill
  <2>2. UNCHANGED <<line, stored, reported, telemetry_queue, json_queue>>
    BY <1>8 DEF TeleFill
  <2>3. /\ SubSeq(pipe, 1, k) \in Seq(Token)
        /\ SubSeq(pipe, k + 1, Len(pipe)) \in Seq(Token)
        /\ SubSeq(pipe, 1, k) \o SubSeq(pipe, k + 1, Len(pipe)) = pipe
    <3>1. k \in 0..Len(pipe)
      OBVIOUS
    <3> QED
      BY <1>v, <3>1, CutFacts, Zenon
  <2>4. rbuf' \o pipe' = rbuf \o (SubSeq(pipe, 1, k) \o SubSeq(pipe, k + 1, Len(pipe)))
    BY <1>v, <2>1, <2>3, Regroup
  <2>5. rbuf' \o pipe' = rbuf \o pipe
    BY <2>3, <2>4
  <2> QED
    BY <2>2, <2>5, StraightSame DEF Stream, Waiting
<1>9. CASE TeleLine
  <2>1. /\ UNCHANGED <<pipe, stored, reported, telemetry_queue, json_queue>>
        /\ line = <<>>
    BY <1>9 DEF TeleLine, Rest
  <2>2. line' \o rbuf' = rbuf
    <3>1. CASE \E k \in DOMAIN rbuf :
                /\ line' = SubSeq(rbuf, 1, k)
                /\ rbuf' = SubSeq(rbuf, k + 1, Len(rbuf))
      <4>1. \A k \in DOMAIN rbuf : k \in 0..Len(rbuf)
        BY <1>v
      <4> QED
        BY <1>v, <3>1, <4>1, CutFacts
    <3>2. CASE line' = rbuf /\ rbuf' = <<>>
      BY <3>2, ConcatEmptySeq DEF PipeTypeOK
    <3> QED
      BY <1>9, <3>1, <3>2 DEF TeleLine
  <2>3. line' \in Seq(Token) /\ rbuf' \in Seq(Token) /\ pipe \in Seq(Token)
    BY DEF PipeTypeOK
  <2>4. line' \o (rbuf' \o pipe) = (line' \o rbuf') \o pipe
    BY <2>3, ConcatAssociative
  <2>5. Stream = rbuf \o pipe
    BY <1>t, <2>1, ConcatEmptySeq DEF Stream
  <2>6. Stream' = Stream
    BY <2>1, <2>2, <2>4, <2>5 DEF Stream
  <2> QED
    BY <2>1, <2>6, StraightSame DEF Waiting
<1>10. CASE TeleSend
  <2>1. /\ UNCHANGED <<rbuf, pipe, reported, telemetry_queue, json_queue>>
        /\ line' = <<>>
    BY <1>10 DEF TeleSend
  <2> DEFINE t == rbuf \o pipe
  <2>2. t \in Seq(Token) /\ Stream = line \o t /\ line \in Seq(Token)
    BY <1>t DEF PipeTypeOK, Stream
  <2>3. Stream' = t
    BY <1>t, <2>1, ConcatEmptySeq DEF Stream
  <2> HIDE DEF t
  <2>4. Dropped(Stream, t, Len(line)) /\ Len(line) \in Nat
    BY <2>2, DroppedConcat
  <2>5. Waiting' = Waiting
    BY <2>1 DEF Waiting
  <2>6. CASE UNCHANGED stored
    <3>1. InLine(stored, t, Waiting, reported)
      BY <1>s, <1>t, <2>2, <2>4, StreamDrops
    <3> QED
      BY <2>1, <2>3, <2>5, <2>6, <3>1 DEF Straight
  <2>7. CASE \E m \in 1..MaxReports :
                /\ line \in {<<Head1(m), Tail1(m)>>,
                             <<Head1(m), Tail1(m), Newline>>}
                /\ stored' = Append(stored, m)
    <3>1. PICK m \in 1..MaxReports :
                /\ line \in {<<Head1(m), Tail1(m)>>,
                             <<Head1(m), Tail1(m), Newline>>}
                /\ stored' = Append(stored, m)
      BY <2>7
    <3>2. Len(line) \in {2, 3} /\ line[1] = Head1(m) /\ line[2] = Tail1(m)
      BY <3>1
    <3>3. /\ Len(Stream) >= Len(line)
          /\ Stream[1] = Head1(m) /\ Stream[2] = Tail1(m)
      <4>1. /\ Len(line \o t) = Len(line) + Len(t)
            /\ \A k \in 1..Len(line) : (line \o t)[k] = line[k]
        BY <2>2, ConcatFacts
      <4>2. Len(t) \in Nat /\ 1 \in 1..Len(line) /\ 2 \in 1..Len(line)
        BY <2>2, <3>2
      <4> QED
        BY <2>2, <3>2, <4>1, <4>2
    <3>4. m \in Nat \ {0}
      BY PipeAssumption
    <3>5. InLine(Append(stored, m), t, Waiting, reported)
      BY <1>s, <1>t, <2>2, <2>4, <3>2, <3>3, <3>4, Delivered
    <3> QED
      BY <2>1, <2>3, <2>5, <3>1, <3>5 DEF Straight
  <2> QED
    BY <1>10, <2>6, <2>7 DEF TeleSend
<1>11. CASE TeleClose
  <2>1. /\ UNCHANGED <<line, stored, reported, telemetry_queue, json_queue>>
        /\ line = <<>> /\ rbuf' = <<>> /\ pipe' \in {pipe, <<>>}
    BY <1>11 DEF TeleClose, Rest
  <2>2. Waiting' = Waiting
    BY <2>1 DEF Waiting
  <2>3. Stream = rbuf \o pipe
    BY <1>t, <2>1, ConcatEmptySeq DEF Stream
  <2>4. Stream' = pipe'
    BY <2>1, ConcatEmptySeq DEF Stream, PipeTypeOK
  <2>5. \E d \in Nat : Dropped(Stream, pipe', d)
    <3>1. CASE pipe' = pipe
      BY <2>3, <3>1, DroppedConcat DEF PipeTypeOK
    <3>2. CASE pipe' = <<>>
      <4>1. Dropped(Stream, <<>>, Len(Stream)) /\ Len(Stream) \in Nat
        BY <1>t DEF Dropped
      <4> QED
        BY <3>2, <4>1
    <3> QED
      BY <2>1, <3>1, <3>2
  <2>6. InLine(stored, pipe', Waiting, reported)
    BY <1>s, <1>t, <1>u, <2>4, <2>5, StreamDrops
  <2> QED
    BY <2>1, <2>2, <2>4, <2>6 DEF Straight
<1> QED
  BY <1>1, <1>2, <1>3, <1>4, <1>5, <1>6, <1>7, <1>8, <1>9, <1>10, <1>11 DEF PipeNext

----------------------------------------------------------------------------
(* What a sequence holds, before and after a change. *)
LEMMA ContainsToSet ==
    ASSUME NEW S, NEW s \in Seq(S), NEW x PROVE Contains(s, x) <=> x \in ToSet(s)
BY DEF Contains, ToSet

(* put() adds one message to what a queue holds. *)
LEMMA AppendToSet ==
    ASSUME NEW s \in Seq(1..MaxReports), NEW x \in 1..MaxReports
    PROVE  ToSet(Append(s, x)) = ToSet(s) \cup {x}
<1>1. /\ DOMAIN Append(s, x) = DOMAIN s \cup {Len(s) + 1}
      /\ \A k \in DOMAIN s : Append(s, x)[k] = s[k]
      /\ Append(s, x)[Len(s) + 1] = x
  OBVIOUS
<1> QED
  BY <1>1, Zenon DEF ToSet

(* The first of a queue and the others. *)
LEMMA FirstFacts ==
    ASSUME NEW S, NEW s \in Seq(S), s # <<>>
    PROVE  /\ DOMAIN Tail(s) = 1..(Len(s) - 1) /\ DOMAIN s = 1..Len(s)
           /\ Len(s) \in Nat \ {0} /\ Head(s) = s[1] /\ s[1] \in S
           /\ \A k \in DOMAIN Tail(s) : Tail(s)[k] = s[k + 1]
OBVIOUS

(* get() takes the first message from what a queue holds. *)
LEMMA HeadToSet ==
    ASSUME NEW s \in Seq(1..MaxReports), s # <<>>
    PROVE  /\ Head(s) \in 1..MaxReports
           /\ ToSet(s) = {Head(s)} \cup ToSet(Tail(s))
<1>1. /\ DOMAIN Tail(s) = 1..(Len(s) - 1) /\ DOMAIN s = 1..Len(s)
      /\ Len(s) \in Nat \ {0} /\ Head(s) = s[1] /\ s[1] \in 1..MaxReports
      /\ \A k \in DOMAIN Tail(s) : Tail(s)[k] = s[k + 1]
  BY FirstFacts
<1>2. \A k \in DOMAIN s : k = 1 \/ (k - 1 \in DOMAIN Tail(s) /\ Tail(s)[k - 1] = s[k])
  BY <1>1
<1>3. \A k \in DOMAIN Tail(s) : k + 1 \in DOMAIN s
  BY <1>1
<1>4. ASSUME NEW x \in ToSet(s) PROVE x \in {Head(s)} \cup ToSet(Tail(s))
  <2>1. PICK k \in DOMAIN s : x = s[k]
    BY DEF ToSet
  <2> QED
    BY <1>1, <1>2, <2>1 DEF ToSet
<1>5. ASSUME NEW x \in {Head(s)} \cup ToSet(Tail(s)) PROVE x \in ToSet(s)
  <2>1. CASE x = Head(s)
    BY <1>1, <2>1 DEF ToSet
  <2>2. CASE x \in ToSet(Tail(s))
    <3>1. PICK k \in DOMAIN Tail(s) : x = Tail(s)[k]
      BY <2>2 DEF ToSet
    <3> QED
      BY <1>1, <1>3, <3>1 DEF ToSet
  <2> QED
    BY <2>1, <2>2
<1> QED
  BY <1>1, <1>4, <1>5

(* Joining two streams joins their messages. *)
LEMMA ConcatMessages ==
    ASSUME NEW s \in Seq(Token), NEW t \in Seq(Token)
    PROVE  Messages(s \o t) = Messages(s) \cup Messages(t)
<1>1. /\ DOMAIN (s \o t) = 1..(Len(s) + Len(t))
      /\ \A k \in 1..Len(s) : (s \o t)[k] = s[k]
      /\ \A k \in 1..Len(t) : (s \o t)[Len(s) + k] = t[k]
      /\ DOMAIN s = 1..Len(s) /\ DOMAIN t = 1..Len(t)
      /\ Len(s) \in Nat /\ Len(t) \in Nat
  BY ConcatFacts
<1>2. \A k \in DOMAIN s : k \in DOMAIN (s \o t)
  BY <1>1
<1>3. \A k \in DOMAIN t : Len(s) + k \in DOMAIN (s \o t)
  BY <1>1
<1>4. ASSUME NEW k \in DOMAIN (s \o t), k \notin DOMAIN s
      PROVE  k - Len(s) \in DOMAIN t /\ t[k - Len(s)] = (s \o t)[k]
  <2>1. k - Len(s) \in DOMAIN t /\ Len(s) + (k - Len(s)) = k
    BY <1>1, <1>4
  <2> QED
    BY <1>1, <2>1
<1>5. \A x : (\E k \in DOMAIN (s \o t) : x = (s \o t)[k].n)
                <=> (\E k \in DOMAIN s : x = s[k].n) \/ (\E k \in DOMAIN t : x = t[k].n)
  BY <1>1, <1>2, <1>3, <1>4, Zenon
<1> QED
  BY <1>5, Zenon DEF Messages

(* An empty stream holds no message... *)
LEMMA NoMessages == Messages(<<>>) = {}
BY DEF Messages

(* ... nor does a newline... *)
LEMMA NewlineNoMessage ==
    ASSUME NEW s \in Seq(Token) PROVE Messages(Append(s, Newline)) = Messages(s)
<1>1. /\ DOMAIN Append(s, Newline) = DOMAIN s \cup {Len(s) + 1}
      /\ \A k \in DOMAIN s : Append(s, Newline)[k] = s[k]
      /\ Append(s, Newline)[Len(s) + 1] = Newline
  BY TokenTypes
<1>2. Newline.n = 0
  BY DEF Newline
<1> QED
  BY <1>1, <1>2, Zenon DEF Messages

(* ... and a line the server takes holds one. *)
LEMMA OneMessage ==
    ASSUME NEW m \in 1..MaxReports
    PROVE  /\ Messages(<<Head1(m), Tail1(m)>>) = {m}
           /\ Messages(<<Head1(m), Tail1(m), Newline>>) = {m}
<1>1. m # 0 /\ Head1(m).n = m /\ Tail1(m).n = m /\ Newline.n = 0
  BY PipeAssumption DEF Head1, Tail1, Newline
<1>2. Messages(<<Head1(m), Tail1(m)>>) = {m}
  BY <1>1 DEF Messages
<1>3. Messages(<<Head1(m), Tail1(m), Newline>>) = {m}
  BY <1>1 DEF Messages
<1> QED
  BY <1>2, <1>3

(* The messages that are somewhere. *)
Present ==
    gone \cup ToSet(telemetry_queue) \cup ToSet(json_queue) \cup ToSet(stored)
         \cup Messages(pipe) \cup Messages(rbuf) \cup Messages(line)

(* No message is lost if all are somewhere. *)
LEMMA PresentMeans ==
    ASSUME PipeTypeOK PROVE LostOnlyByFault <=> \A m \in 1..reported : m \in Present
<1>1. \A m : /\ Contains(telemetry_queue, m) <=> m \in ToSet(telemetry_queue)
             /\ Contains(json_queue, m) <=> m \in ToSet(json_queue)
             /\ Contains(stored, m) <=> m \in ToSet(stored)
  BY ContainsToSet DEF PipeTypeOK
<1> QED
  BY <1>1, Zenon DEF LostOnlyByFault, Present

(* No step lets a message disappear. *)
LEMMA LostStep ==
    PipeTypeOK /\ PipeTypeOK' /\ Rest /\ LostOnlyByFault /\ [PipeNext]_pipeVars
        => LostOnlyByFault'
<1> SUFFICES ASSUME PipeTypeOK, PipeTypeOK', Rest, LostOnlyByFault, [PipeNext]_pipeVars
             PROVE  LostOnlyByFault'
  OBVIOUS
<1> USE DEF writerVars, readerVars
<1>p. \A m \in 1..reported : m \in Present
  BY PresentMeans
<1>q. (\A m \in 1..reported' : m \in Present') => LostOnlyByFault'
  <2>1. \A m : /\ Contains(telemetry_queue', m) <=> m \in ToSet(telemetry_queue')
               /\ Contains(json_queue', m) <=> m \in ToSet(json_queue')
               /\ Contains(stored', m) <=> m \in ToSet(stored')
    BY ContainsToSet DEF PipeTypeOK
  <2> QED
    BY <2>1, Zenon DEF LostOnlyByFault, Present
<1>r. (Present \subseteq Present' /\ UNCHANGED reported) => LostOnlyByFault'
  BY <1>p, <1>q
<1>v. /\ line \in Seq(Token) /\ rbuf \in Seq(Token) /\ pipe \in Seq(Token)
      /\ json_queue \in Seq(1..MaxReports) /\ telemetry_queue \in Seq(1..MaxReports)
      /\ stored \in Seq(1..MaxReports)
  BY DEF PipeTypeOK
<1>1. CASE Start \/ PubWake \/ PubOpen \/ Launch \/ TeleOpen \/ UNCHANGED pipeVars
  <2>1. UNCHANGED <<line, rbuf, pipe, json_queue, telemetry_queue, stored, reported, gone>>
    BY <1>1 DEF Start, PubWake, PubOpen, Launch, TeleOpen, pipeVars
  <2> QED
    BY <1>r, <2>1 DEF Present
<1>2. CASE ControllerExit
  <2>1. Present \subseteq Present' /\ UNCHANGED reported
    BY <1>2, Zenon DEF ControllerExit, Present
  <2> QED
    BY <1>r, <2>1
<1>3. CASE Report
  <2>1. /\ UNCHANGED <<line, rbuf, pipe, json_queue, stored, gone>>
        /\ telemetry_queue' = Append(telemetry_queue, reported + 1)
        /\ reported' = reported + 1 /\ reported + 1 \in 1..MaxReports
        /\ reported \in Nat
    BY <1>3, PipeAssumption DEF Report, PipeTypeOK
  <2>2. ToSet(telemetry_queue') = ToSet(telemetry_queue) \cup {reported + 1}
    BY <1>v, <2>1, AppendToSet
  <2>3. Present' = Present \cup {reported + 1}
    BY <2>1, <2>2, Zenon DEF Present
  <2>4. \A m \in 1..reported' : m \in 1..reported \/ m = reported + 1
    BY <2>1
  <2> QED
    BY <1>p, <1>q, <2>3, <2>4, Zenon
<1>4. CASE queue_parser
  <2>1. /\ UNCHANGED <<line, rbuf, pipe, stored, gone, reported>>
        /\ telemetry_queue # <<>>
        /\ json_queue' = Append(json_queue, Head(telemetry_queue))
        /\ telemetry_queue' = Tail(telemetry_queue)
    BY <1>4 DEF queue_parser
  <2>2. /\ ToSet(json_queue') = ToSet(json_queue) \cup {Head(telemetry_queue)}
        /\ ToSet(telemetry_queue) = {Head(telemetry_queue)} \cup ToSet(telemetry_queue')
    BY <1>v, <2>1, AppendToSet, HeadToSet
  <2>3. Present \subseteq Present'
    BY <2>1, <2>2, Zenon DEF Present
  <2> QED
    BY <1>r, <2>1, <2>3
<1>5. CASE PubWrite
  <2>1. UNCHANGED <<line, rbuf, stored, reported, telemetry_queue>>
    BY <1>5 DEF PubWrite
  <2>2. CASE UNCHANGED <<json_queue, pipe, gone>>
    BY <1>r, <2>1, <2>2 DEF Present
  <2>3. CASE /\ ~BatchOver /\ UNCHANGED gone
             /\ pipe' = pipe \o Written(Head(json_queue))
             /\ json_queue' = Tail(json_queue)
    <3> DEFINE m == Head(json_queue)
    <3>1. json_queue # <<>>
      BY <2>3 DEF BatchOver
    <3>2. m \in 1..MaxReports /\ ToSet(json_queue) = {m} \cup ToSet(json_queue')
      BY <1>v, <2>3, <3>1, HeadToSet
    <3>3. Messages(Written(m)) = {m} /\ Written(m) \in Seq(Token)
      <4> HIDE DEF m
      <4>1. <<Head1(m), Tail1(m)>> \in Seq(Token)
        BY <3>2, TokenTypes
      <4> QED
        BY <3>2, <4>1, OneMessage, Zenon DEF Written
    <3>4. Messages(pipe') = Messages(pipe) \cup {m}
      BY <1>v, <2>3, <3>3, ConcatMessages
    <3> HIDE DEF m
    <3>5. Present \subseteq Present'
      BY <2>1, <2>3, <3>2, <3>4, Zenon DEF Present
    <3> QED
      BY <1>r, <2>1, <3>5
  <2>4. CASE ~BatchOver /\ GiveUp /\ UNCHANGED pipe
    <3>1. ToSet(json_queue) = {Head(json_queue)} \cup ToSet(json_queue')
      BY <1>v, <2>4, HeadToSet DEF BatchOver, GiveUp
    <3>2. Present \subseteq Present'
      BY <2>1, <2>4, <3>1, Zenon DEF Present, GiveUp
    <3> QED
      BY <1>r, <2>1, <3>2
  <2> QED
    BY <1>5, <2>2, <2>3, <2>4 DEF PubWrite
<1>6. CASE PubNewline
  <2>1. UNCHANGED <<line, rbuf, stored, reported, telemetry_queue, json_queue, gone>>
    BY <1>6 DEF PubNewline
  <2>2. Messages(pipe') = Messages(pipe)
    BY <1>6, <1>v, NewlineNoMessage DEF PubNewline
  <2>3. Present' = Present
    BY <2>1, <2>2 DEF Present
  <2> QED
    BY <1>r, <2>1, <2>3
<1>7. CASE PubClose
  <2>1. UNCHANGED <<line, rbuf, stored, reported, telemetry_queue, json_queue>>
    BY <1>7 DEF PubClose
  <2>2. \/ UNCHANGED <<pipe, gone>>
        \/ gone' = gone \cup Messages(pipe)
    BY <1>7 DEF PubClose
  <2>3. Present \subseteq Present'
    BY <2>1, <2>2, Zenon DEF Present
  <2> QED
    BY <1>r, <2>1, <2>3
<1>8. CASE TeleFill
  <2>1. PICK k \in 1..Len(pipe) :
           /\ rbuf' = rbuf \o SubSeq(pipe, 1, k)
           /\ pipe' = SubSeq(pipe, k + 1, Len(pipe))
    BY <1>8 DEF TeleFill
  <2>2. UNCHANGED <<line, stored, reported, telemetry_queue, json_queue, gone>>
    BY <1>8 DEF TeleFill
  <2>3. /\ SubSeq(pipe, 1, k) \in Seq(Token) /\ pipe' \in Seq(Token)
        /\ SubSeq(pipe, 1, k) \o pipe' = pipe
    <3>1. k \in 0..Len(pipe)
      OBVIOUS
    <3> QED
      BY <1>v, <2>1, <3>1, CutFacts, Zenon
  <2>4. /\ Messages(rbuf') = Messages(rbuf) \cup Messages(SubSeq(pipe, 1, k))
        /\ Messages(pipe) = Messages(SubSeq(pipe, 1, k)) \cup Messages(pipe')
    BY <1>v, <2>1, <2>3, ConcatMessages
  <2>5. Present \subseteq Present'
    BY <2>2, <2>4, Zenon DEF Present
  <2> QED
    BY <1>r, <2>2, <2>5
<1>9. CASE TeleLine
  <2>1. /\ UNCHANGED <<pipe, stored, reported, telemetry_queue, json_queue, gone>>
        /\ line = <<>>
    BY <1>9 DEF TeleLine, Rest
  <2>2. Messages(rbuf) = Messages(line') \cup Messages(rbuf')
    <3>1. CASE \E k \in DOMAIN rbuf :
                /\ line' = SubSeq(rbuf, 1, k)
                /\ rbuf' = SubSeq(rbuf, k + 1, Len(rbuf))
      <4>1. \A k \in DOMAIN rbuf : k \in 0..Len(rbuf)
        BY <1>v
      <4>2. line' \in Seq(Token) /\ rbuf' \in Seq(Token) /\ line' \o rbuf' = rbuf
        <5>1. PICK k \in DOMAIN rbuf :
                /\ line' = SubSeq(rbuf, 1, k)
                /\ rbuf' = SubSeq(rbuf, k + 1, Len(rbuf))
          BY <3>1
        <5> QED
          BY <1>v, <4>1, <5>1, CutFacts
      <4> QED
        BY <4>2, ConcatMessages
    <3>2. CASE line' = rbuf /\ rbuf' = <<>>
      BY <3>2, NoMessages
    <3> QED
      BY <1>9, <3>1, <3>2 DEF TeleLine
  <2>3. Messages(line) = {}
    BY <2>1, NoMessages
  <2>4. Present \subseteq Present'
    BY <2>1, <2>2, <2>3, Zenon DEF Present
  <2> QED
    BY <1>r, <2>1, <2>4
<1>10. CASE TeleSend
  <2>1. UNCHANGED <<rbuf, pipe, reported, telemetry_queue, json_queue>>
    BY <1>10 DEF TeleSend
  <2>2. CASE gone' = gone \cup Messages(line) /\ UNCHANGED stored
    <3>1. Present \subseteq Present'
      BY <2>1, <2>2, Zenon DEF Present
    <3> QED
      BY <1>r, <2>1, <3>1
  <2>3. CASE \E m \in 1..MaxReports :
                /\ line \in {<<Head1(m), Tail1(m)>>,
                             <<Head1(m), Tail1(m), Newline>>}
                /\ stored' = Append(stored, m)
                /\ UNCHANGED gone
    <3>1. PICK m \in 1..MaxReports :
                /\ line \in {<<Head1(m), Tail1(m)>>,
                             <<Head1(m), Tail1(m), Newline>>}
                /\ stored' = Append(stored, m)
                /\ UNCHANGED gone
      BY <2>3
    <3>2. Messages(line) = {m}
      BY <3>1, OneMessage
    <3>3. ToSet(stored') = ToSet(stored) \cup {m}
      BY <1>v, <3>1, AppendToSet
    <3>4. Present \subseteq Present'
      BY <2>1, <3>1, <3>2, <3>3, Zenon DEF Present
    <3> QED
      BY <1>r, <2>1, <3>4
  <2> QED
    BY <1>10, <2>2, <2>3 DEF TeleSend
<1>11. CASE TeleClose
  <2>1. UNCHANGED <<line, stored, reported, telemetry_queue, json_queue>>
    BY <1>11 DEF TeleClose
  <2>2. CASE HasWriter
    <3>1. pipe' = pipe /\ Messages(rbuf) \subseteq gone' /\ gone \subseteq gone'
      BY <1>11, <2>2 DEF TeleClose
    <3>2. Present \subseteq Present'
      BY <2>1, <3>1, Zenon DEF Present
    <3> QED
      BY <1>r, <2>1, <3>2
  <2>3. CASE ~HasWriter
    <3>1. Messages(pipe) \cup Messages(rbuf) \subseteq gone' /\ gone \subseteq gone'
      BY <1>11, <2>3 DEF TeleClose
    <3>2. Present \subseteq Present'
      BY <2>1, <3>1, Zenon DEF Present
    <3> QED
      BY <1>r, <2>1, <3>2
  <2> QED
    BY <2>2, <2>3
<1> QED
  BY <1>1, <1>2, <1>3, <1>4, <1>5, <1>6, <1>7, <1>8, <1>9, <1>10, <1>11 DEF PipeNext

----------------------------------------------------------------------------
(* The invariant holds before either process is started. *)
LEMMA PipeInitInv == PipeInit => PipeInv
<1> SUFFICES ASSUME PipeInit PROVE PipeInv
  OBVIOUS
<1>1. PipeTypeOK
  BY PipeAssumption DEF PipeInit, PipeTypeOK
<1>2. Rest
  BY DEF PipeInit, Rest
<1>3. Stream = <<>> /\ Waiting = <<>> /\ stored = <<>>
  BY DEF PipeInit, Stream, Waiting
<1>4. Straight
  BY <1>3 DEF Straight, InLine, Whole, Framed, Rising, Increasing
<1>5. LostOnlyByFault
  BY DEF PipeInit, LostOnlyByFault
<1> QED
  BY <1>1, <1>2, <1>4, <1>5 DEF PipeInv

(***************************************************************************)
(* The invariant of the telemetry pipe holds in every state.               *)
(***************************************************************************)
THEOREM PipeInvariant == PipeSpec => []PipeInv
<1>1. PipeInit => PipeInv
  BY PipeInitInv
<1>2. PipeInv /\ [PipeNext]_pipeVars => PipeInv'
  BY PipeTypeStep, StraightStep, LostStep DEF PipeInv
<1> QED
  BY <1>1, <1>2, PTL DEF PipeSpec

(***************************************************************************)
(* pub_telemetry, queue_parser and telemetry.py keep their queues, their   *)
(* counters and the FIFO within their types and limits.                    *)
(***************************************************************************)
THEOREM PipeTypes == PipeSpec => []PipeTypeOK
<1>1. PipeInv => PipeTypeOK
  BY DEF PipeInv
<1> QED
  BY <1>1, PipeInvariant, PTL

(***************************************************************************)
(* The server takes each message at most once and in the order of the      *)
(* drone, however writes fail, reads cut the stream and files are closed.  *)
(***************************************************************************)
THEOREM PipeKeepsOrder == PipeSpec => []StoredInOrder
<1>1. ASSUME PipeInv PROVE StoredInOrder
  <2>1. Increasing(stored) /\ DOMAIN stored = 1..Len(stored) /\ Len(stored) \in Nat
    BY <1>1 DEF PipeInv, Straight, InLine, PipeTypeOK
  <2>2. \A j \in 2..Len(stored) : j - 1 \in DOMAIN stored /\ j \in DOMAIN stored /\ j - 1 < j
    BY <2>1
  <2> QED
    BY <2>1, <2>2 DEF StoredInOrder, Increasing
<1> QED
  BY <1>1, PipeInvariant, PTL

(***************************************************************************)
(* A line that telemetry.py sends never joins the beginning of one message *)
(* to the end of another.                                                  *)
(***************************************************************************)
THEOREM LinesNeverMix == PipeSpec => []NoMixture
<1>1. ASSUME PipeInv PROVE NoMixture
  <2>1. PipeTypeOK /\ Whole(Stream) /\ line \in Seq(Token) /\ rbuf \o pipe \in Seq(Token)
    BY <1>1, StreamTypes DEF PipeInv, Straight, InLine, PipeTypeOK
  <2>2. /\ DOMAIN Stream = 1..(Len(line) + Len(rbuf \o pipe))
        /\ \A k \in 1..Len(line) : Stream[k] = line[k]
        /\ Len(line) \in Nat /\ Len(rbuf \o pipe) \in Nat
    BY <2>1, ConcatFacts DEF Stream
  <2> SUFFICES ASSUME NEW k \in 1..Len(line) - 1, line[k].part = "head"
               PROVE  line[k + 1] = Tail1(line[k].n)
    BY DEF NoMixture
  <2>3. k \in 1..Len(line) /\ k + 1 \in 1..Len(line) /\ k \in DOMAIN Stream
    BY <2>2
  <2> QED
    BY <2>1, <2>2, <2>3 DEF Whole
<1> QED
  BY <1>1, PipeInvariant, PTL

(***************************************************************************)
(* A message that is neither queued, nor on its way, nor stored was given  *)
(* up by a failed write, a close, a failed request or the controller's     *)
(* end.                                                                    *)
(***************************************************************************)
THEOREM OnlyFaultsLose == PipeSpec => []LostOnlyByFault
<1>1. PipeInv => LostOnlyByFault
  BY DEF PipeInv
<1> QED
  BY <1>1, PipeInvariant, PTL
=============================================================================
