------------------------- MODULE EventStream_proofs -------------------------
(***************************************************************************)
(* Theorems about EventStream for any number of jobs, streams and steps,   *)
(* and any number of messages under way.                                   *)
(*                                                                         *)
(* What a client will hold is a fold over the messages under way.  The     *)
(* invariant says it without the fold: by the last message of each field.  *)
(***************************************************************************)
EXTENDS EventStream, SequenceTheorems, TLAPS

Pictures == [state : JobStates \cup {"unknown"}, progress : Progresses,
             results : BOOLEAN, error : BOOLEAN]

\* One of the first n messages of w is of this type.
Carries(w, n, type) == \E k \in 1..n : w[k].type = type

\* The last message of w of this type has this value; when w has none, what the
\* client holds is that value already.
Newest(w, type, holds, value) ==
  /\ \A i \in 1..Len(w) :
       w[i].type = type /\ (\A k \in 1..Len(w) : k > i => w[k].type # type)
         => w[i].value = value
  /\ ~Carries(w, Len(w), type) => holds = value

\* A client that holds c and receives all of w holds x, except for a field of x
\* that became empty.
Reaches(w, c, x) ==
  /\ Newest(w, "state", c.state, x.state)
  /\ x.progress # NoProgress => Newest(w, "progress", c.progress, x.progress)
  /\ x.results => c.results \/ Carries(w, Len(w), "result")
  /\ x.error => c.error \/ Carries(w, Len(w), "error")

\* A message with an outcome finds its payload in front of it, or at the client.
Ordered(w, c) ==
  \A i \in 1..Len(w) : w[i].type = "state" =>
    /\ w[i].value = "completed" => c.results \/ Carries(w, i - 1, "result")
    /\ w[i].value = "failed" => c.error \/ Carries(w, i - 1, "error")

Whole(c) ==
  /\ c.state = "completed" => c.results
  /\ c.state = "failed" => c.error

ViewOK ==
  /\ view \in [Jobs -> Snapshots \cup {NoSnapshot}]
  /\ \A j \in Jobs : Coherent(view[j])

IInv ==
  /\ StreamTypeOK /\ ViewOK
  /\ \A s \in Streams :
       /\ Whole(client[s]) /\ Ordered(wire[s], client[s])
       /\ ~gone[s] => Reaches(wire[s], client[s], sent[s])
       /\ phase[s] = "wait" /\ ~moved[s] => sent[s] = view[watched[s]]
       /\ phase[s] # "none" => view[watched[s]] # NoSnapshot

(***************************************************************************)
(* The messages of one change.                                             *)
(***************************************************************************)

LEMMA TwoInARow ==
  ASSUME NEW u \in Seq(Message), NEW v \in Seq(Message)
  PROVE  /\ u \o v \in Seq(Message)
         /\ Len(u) \in Nat /\ Len(v) \in Nat /\ Len(u \o v) = Len(u) + Len(v)
         /\ \A i \in 1..Len(u \o v) :
              (u \o v)[i] = IF i <= Len(u) THEN u[i] ELSE v[i - Len(u)]
  BY ConcatProperties

\* What Deltas puts out: a message for each field that changed, with the new
\* value, and the state at the end.
LEMMA DeltasFacts ==
  ASSUME NEW p \in Pictures, NEW q \in Pictures, q.state \in JobStates
  PROVE  LET d == Deltas(p, q)
         IN  /\ d \in Seq(Message)
             /\ \A i \in 1..Len(d) :
                  /\ d[i].type = "state" => i = Len(d) /\ d[i].value = q.state
                  /\ d[i].type = "progress" => d[i].value = q.progress
             /\ q.state # p.state => Len(d) > 0 /\ d[Len(d)].type = "state"
             /\ q.progress \notin {NoProgress, p.progress} => Carries(d, Len(d), "progress")
             /\ q.results /\ ~p.results => Carries(d, Len(d), "result")
             /\ q.error /\ ~p.error => Carries(d, Len(d), "error")
<1> DEFINE a == IF q.progress \notin {NoProgress, p.progress}
                THEN <<[type |-> "progress", value |-> q.progress]>> ELSE <<>>
           b == IF q.results /\ ~p.results
                THEN <<[type |-> "result", value |-> NoProgress]>> ELSE <<>>
           c == IF q.error /\ ~p.error
                THEN <<[type |-> "error", value |-> NoProgress]>> ELSE <<>>
           e == IF q.state # p.state
                THEN <<[type |-> "state", value |-> q.state]>> ELSE <<>>
           d == a \o b \o c \o e
<1>1. Deltas(p, q) = d
  BY DEF Deltas
<1>2. /\ a \in Seq(Message) /\ b \in Seq(Message) /\ c \in Seq(Message) /\ e \in Seq(Message)
  <2>1. /\ q.progress # NoProgress => [type |-> "progress", value |-> q.progress] \in Message
        /\ [type |-> "result", value |-> NoProgress] \in Message
        /\ [type |-> "error", value |-> NoProgress] \in Message
        /\ [type |-> "state", value |-> q.state] \in Message
    BY DEF Message, Pictures, Progresses
  <2> QED
    BY <2>1
<1>3. /\ Len(a) = IF q.progress \notin {NoProgress, p.progress} THEN 1 ELSE 0
      /\ Len(b) = IF q.results /\ ~p.results THEN 1 ELSE 0
      /\ Len(c) = IF q.error /\ ~p.error THEN 1 ELSE 0
      /\ Len(e) = IF q.state # p.state THEN 1 ELSE 0
  OBVIOUS
<1>4. /\ Len(a) > 0 => a[1].type = "progress" /\ a[1].value = q.progress
      /\ Len(b) > 0 => b[1].type = "result"
      /\ Len(c) > 0 => c[1].type = "error"
      /\ Len(e) > 0 => e[1].type = "state" /\ e[1].value = q.state
  OBVIOUS
<1> HIDE DEF a, b, c, e
<1>5. /\ d \in Seq(Message)
      /\ Len(d) = Len(a) + Len(b) + Len(c) + Len(e)
      /\ \A i \in 1..Len(d) :
           d[i] = IF i <= Len(a) THEN a[i]
                  ELSE IF i <= Len(a) + Len(b) THEN b[i - Len(a)]
                  ELSE IF i <= Len(a) + Len(b) + Len(c) THEN c[i - Len(a) - Len(b)]
                  ELSE e[i - Len(a) - Len(b) - Len(c)]
  <2> DEFINE ab == a \o b
             abc == ab \o c
  <2>1. /\ ab \in Seq(Message) /\ Len(ab) = Len(a) + Len(b)
        /\ \A i \in 1..Len(ab) : ab[i] = IF i <= Len(a) THEN a[i] ELSE b[i - Len(a)]
    BY <1>2, TwoInARow
  <2> HIDE DEF ab
  <2>2. /\ abc \in Seq(Message) /\ Len(abc) = Len(ab) + Len(c)
        /\ \A i \in 1..Len(abc) : abc[i] = IF i <= Len(ab) THEN ab[i] ELSE c[i - Len(ab)]
    BY <1>2, <2>1, TwoInARow
  <2> HIDE DEF abc
  <2>3. /\ d \in Seq(Message) /\ Len(d) = Len(abc) + Len(e)
        /\ \A i \in 1..Len(d) : d[i] = IF i <= Len(abc) THEN abc[i] ELSE e[i - Len(abc)]
    BY <1>2, <2>2, TwoInARow DEF ab, abc
  <2> HIDE DEF d
  <2>4. Len(a) \in Nat /\ Len(b) \in Nat /\ Len(c) \in Nat /\ Len(e) \in Nat
    BY <1>2
  <2> QED
    BY <2>1, <2>2, <2>3, <2>4
<1> HIDE DEF d
<1>6. \A i \in 1..Len(d) :
        /\ d[i].type = "state" => i = Len(d) /\ d[i].value = q.state
        /\ d[i].type = "progress" => d[i].value = q.progress
  BY <1>3, <1>4, <1>5
<1>7. q.state # p.state => Len(d) > 0 /\ d[Len(d)].type = "state"
  BY <1>3, <1>4, <1>5
<1>8. q.progress \notin {NoProgress, p.progress} => Carries(d, Len(d), "progress")
  <2> SUFFICES ASSUME q.progress \notin {NoProgress, p.progress}
               PROVE  1 \in 1..Len(d) /\ d[1].type = "progress"
    BY DEF Carries
  <2> QED
    BY <1>3, <1>4, <1>5
<1>9. q.results /\ ~p.results => Carries(d, Len(d), "result")
  <2> SUFFICES ASSUME q.results /\ ~p.results
               PROVE  Len(a) + 1 \in 1..Len(d) /\ d[Len(a) + 1].type = "result"
    BY DEF Carries
  <2> QED
    BY <1>3, <1>4, <1>5
<1>10. q.error /\ ~p.error => Carries(d, Len(d), "error")
  <2> DEFINE at == Len(a) + Len(b) + 1
  <2> SUFFICES ASSUME q.error /\ ~p.error
               PROVE  at \in 1..Len(d) /\ d[at].type = "error"
    BY DEF Carries
  <2> QED
    BY <1>3, <1>4, <1>5
<1> QED
  BY <1>1, <1>5, <1>6, <1>7, <1>8, <1>9, <1>10

(***************************************************************************)
(* Messages are added at one end of the wire and taken at the other.       *)
(***************************************************************************)

LEMMA CarriesAdded ==
  ASSUME NEW w \in Seq(Message), NEW d \in Seq(Message), NEW type
  PROVE  /\ \A n \in 0..Len(w) : Carries(w \o d, n, type) <=> Carries(w, n, type)
         /\ \A n \in Len(w)..(Len(w) + Len(d)) :
              Carries(w \o d, n, type)
                <=> Carries(w, Len(w), type) \/ Carries(d, n - Len(w), type)
<1>1. \A n \in 0..Len(w) : Carries(w \o d, n, type) <=> Carries(w, n, type)
  BY TwoInARow DEF Carries
<1>2. ASSUME NEW n \in 0..Len(d), Carries(w \o d, Len(w) + n, type)
      PROVE  Carries(w, Len(w), type) \/ Carries(d, n, type)
  <2>1. PICK k \in 1..(Len(w) + n) : (w \o d)[k].type = type
    BY <1>2 DEF Carries
  <2>2. CASE k <= Len(w)
    BY <2>1, <2>2, TwoInARow DEF Carries
  <2>3. CASE k > Len(w)
    <3>1. k - Len(w) \in 1..n /\ d[k - Len(w)].type = type
      BY <2>1, <2>3, TwoInARow
    <3> QED
      BY <3>1 DEF Carries
  <2> QED
    BY <2>2, <2>3, TwoInARow
<1>3. ASSUME NEW n \in 0..Len(d), Carries(w, Len(w), type) \/ Carries(d, n, type)
      PROVE  Carries(w \o d, Len(w) + n, type)
  <2>1. CASE Carries(w, Len(w), type)
    BY <2>1, TwoInARow DEF Carries
  <2>2. CASE Carries(d, n, type)
    <3>1. PICK k \in 1..n : d[k].type = type
      BY <2>2 DEF Carries
    <3>2. Len(w) + k \in 1..(Len(w) + n) /\ (w \o d)[Len(w) + k].type = type
      BY <3>1, TwoInARow
    <3> QED
      BY <3>2 DEF Carries
  <2> QED
    BY <1>3, <2>1, <2>2
<1>4. \A n \in Len(w)..(Len(w) + Len(d)) :
        n - Len(w) \in 0..Len(d) /\ Len(w) + (n - Len(w)) = n
  BY TwoInARow
<1> QED
  BY <1>1, <1>2, <1>3, <1>4

LEMMA NewestAdded ==
  ASSUME NEW w \in Seq(Message), NEW d \in Seq(Message), NEW type, NEW holds, NEW value,
         \A i \in 1..Len(d) : d[i].type = type => d[i].value = value,
         Carries(d, Len(d), type) \/ Newest(w, type, holds, value)
  PROVE  Newest(w \o d, type, holds, value)
<1> DEFINE all == w \o d
<1>1. ASSUME NEW i \in 1..Len(all), all[i].type = type,
             \A k \in 1..Len(all) : k > i => all[k].type # type
      PROVE  all[i].value = value
  <2>1. CASE i > Len(w)
    <3>1. i - Len(w) \in 1..Len(d) /\ all[i] = d[i - Len(w)]
      BY <2>1, TwoInARow
    <3> QED
      BY <1>1, <3>1
  <2>2. CASE i <= Len(w)
    <3>1. ~Carries(d, Len(d), type)
      <4> SUFFICES ASSUME NEW k \in 1..Len(d) PROVE d[k].type # type
        BY DEF Carries
      <4>1. Len(w) + k \in 1..Len(all) /\ Len(w) + k > i /\ all[Len(w) + k] = d[k]
        BY <2>2, TwoInARow
      <4> QED
        BY <1>1, <4>1
    <3>2. all[i] = w[i] /\ \A k \in 1..Len(w) : k \in 1..Len(all) /\ all[k] = w[k]
      BY <2>2, TwoInARow
    <3> QED
      BY <1>1, <2>2, <3>1, <3>2 DEF Newest
  <2> QED
    BY <2>1, <2>2, TwoInARow
<1>2. ~Carries(all, Len(all), type) => holds = value
  <2>1. Len(all) \in Len(w)..(Len(w) + Len(d)) /\ Len(all) - Len(w) = Len(d)
    BY TwoInARow
  <2>2. \A n \in Len(w)..(Len(w) + Len(d)) :
          Carries(all, n, type) <=> Carries(w, Len(w), type) \/ Carries(d, n - Len(w), type)
    BY CarriesAdded
  <2> QED
    BY <2>1, <2>2 DEF Newest
<1> QED
  BY <1>1, <1>2 DEF Newest

LEMMA Taken ==
  ASSUME NEW w \in Seq(Message), w # <<>>
  PROVE  /\ Head(w) \in Message /\ Head(w) = w[1] /\ Tail(w) \in Seq(Message)
         /\ Len(w) \in Nat \ {0} /\ Len(Tail(w)) = Len(w) - 1
         /\ \A i \in 1..Len(Tail(w)) : Tail(w)[i] = w[i + 1]
  BY HeadTailProperties

LEMMA CarriesTaken ==
  ASSUME NEW w \in Seq(Message), w # <<>>, NEW type, NEW n \in 1..Len(w)
  PROVE  Carries(w, n, type) <=> Head(w).type = type \/ Carries(Tail(w), n - 1, type)
<1>1. ASSUME Carries(w, n, type), Head(w).type # type
      PROVE  Carries(Tail(w), n - 1, type)
  <2>1. PICK k \in 1..n : w[k].type = type
    BY <1>1 DEF Carries
  <2>2. k - 1 \in 1..(n - 1) /\ Tail(w)[k - 1].type = type
    BY <1>1, <2>1, Taken
  <2> QED
    BY <2>2 DEF Carries
<1>2. ASSUME Carries(Tail(w), n - 1, type) PROVE Carries(w, n, type)
  <2>1. PICK k \in 1..(n - 1) : Tail(w)[k].type = type
    BY <1>2 DEF Carries
  <2>2. k + 1 \in 1..n /\ w[k + 1].type = type
    BY <2>1, Taken
  <2> QED
    BY <2>2 DEF Carries
<1>3. Head(w).type = type => Carries(w, n, type)
  BY Taken DEF Carries
<1> QED
  BY <1>1, <1>2, <1>3

LEMMA NewestTaken ==
  ASSUME NEW w \in Seq(Message), w # <<>>, NEW type, NEW holds, NEW value,
         Newest(w, type, holds, value)
  PROVE  Newest(Tail(w), type, IF Head(w).type = type THEN Head(w).value ELSE holds, value)
<1> DEFINE t == Tail(w)
<1>1. ASSUME NEW i \in 1..Len(t), t[i].type = type,
             \A k \in 1..Len(t) : k > i => t[k].type # type
      PROVE  t[i].value = value
  <2>1. i + 1 \in 1..Len(w) /\ w[i + 1] = t[i]
    BY Taken
  <2>2. ASSUME NEW k \in 1..Len(w), k > i + 1 PROVE w[k].type # type
    <3>1. k - 1 \in 1..Len(t) /\ k - 1 > i /\ t[k - 1] = w[k]
      BY <2>2, Taken
    <3> QED
      BY <1>1, <3>1
  <2> QED
    BY <1>1, <2>1, <2>2 DEF Newest
<1>2. ASSUME ~Carries(t, Len(t), type)
      PROVE  (IF Head(w).type = type THEN Head(w).value ELSE holds) = value
  <2>1. CASE Head(w).type = type
    <3>1. ASSUME NEW k \in 1..Len(w), k > 1 PROVE w[k].type # type
      <4>1. k - 1 \in 1..Len(t) /\ t[k - 1] = w[k]
        BY <3>1, Taken
      <4> QED
        BY <1>2, <4>1 DEF Carries
    <3> QED
      BY <2>1, <3>1, Taken DEF Newest
  <2>2. CASE Head(w).type # type
    BY <1>2, <2>2, Taken, CarriesTaken DEF Newest
  <2> QED
    BY <2>1, <2>2
<1> QED
  BY <1>1, <1>2 DEF Newest

(***************************************************************************)
(* What sending a change, and receiving a message, do to the picture.      *)
(***************************************************************************)

LEMMA SendReaches ==
  ASSUME NEW w \in Seq(Message), NEW c \in Pictures, NEW p \in Pictures, NEW q \in Pictures,
         q.state \in JobStates, Reaches(w, c, p)
  PROVE  Reaches(w \o Deltas(p, q), c, q)
<1> DEFINE d == Deltas(p, q)
<1>1. /\ d \in Seq(Message)
      /\ \A i \in 1..Len(d) :
           /\ d[i].type = "state" => i = Len(d) /\ d[i].value = q.state
           /\ d[i].type = "progress" => d[i].value = q.progress
      /\ q.state # p.state => Len(d) > 0 /\ d[Len(d)].type = "state"
      /\ q.progress \notin {NoProgress, p.progress} => Carries(d, Len(d), "progress")
      /\ q.results /\ ~p.results => Carries(d, Len(d), "result")
      /\ q.error /\ ~p.error => Carries(d, Len(d), "error")
  BY DeltasFacts
<1> HIDE DEF d
<1>2. q.state # p.state => Carries(d, Len(d), "state")
  BY <1>1 DEF Carries
<1>3. Newest(w \o d, "state", c.state, q.state)
  BY <1>1, <1>2, NewestAdded DEF Reaches
<1>4. q.progress # NoProgress => Newest(w \o d, "progress", c.progress, q.progress)
  BY <1>1, NewestAdded DEF Reaches
<1>5. \A type : Carries(w \o d, Len(w \o d), type)
                  <=> Carries(w, Len(w), type) \/ Carries(d, Len(d), type)
  <2>1. Len(w \o d) \in Len(w)..(Len(w) + Len(d)) /\ Len(w \o d) - Len(w) = Len(d)
    BY <1>1, TwoInARow
  <2> QED
    BY <1>1, <2>1, CarriesAdded
<1> QED
  BY <1>1, <1>3, <1>4, <1>5 DEF Reaches, d, Pictures

LEMMA SendOrdered ==
  ASSUME NEW w \in Seq(Message), NEW c \in Pictures, NEW p \in Pictures, NEW q \in Pictures,
         q.state \in JobStates, Coherent(q), Reaches(w, c, p), Ordered(w, c)
  PROVE  Ordered(w \o Deltas(p, q), c)
<1> DEFINE d == Deltas(p, q)
           all == w \o d
<1>1. /\ d \in Seq(Message)
      /\ \A i \in 1..Len(d) :
           d[i].type = "state" => i = Len(d) /\ d[i].value = q.state
      /\ q.results /\ ~p.results => Carries(d, Len(d), "result")
      /\ q.error /\ ~p.error => Carries(d, Len(d), "error")
  BY DeltasFacts
<1> HIDE DEF d
<1> SUFFICES ASSUME NEW i \in 1..Len(all), all[i].type = "state"
             PROVE  /\ all[i].value = "completed" => c.results \/ Carries(all, i - 1, "result")
                    /\ all[i].value = "failed" => c.error \/ Carries(all, i - 1, "error")
  BY DEF Ordered, d
<1>2. CASE i <= Len(w)
  <2>1. all[i] = w[i] /\ i \in 1..Len(w) /\ i - 1 \in 0..Len(w)
    BY <1>1, <1>2, TwoInARow
  <2>2. \A type : Carries(all, i - 1, type) <=> Carries(w, i - 1, type)
    BY <1>1, <2>1, CarriesAdded
  <2> QED
    BY <2>1, <2>2 DEF Ordered
<1>3. CASE i > Len(w)
  <2>1. i - Len(w) \in 1..Len(d) /\ all[i] = d[i - Len(w)]
    BY <1>1, <1>3, TwoInARow
  <2>2. i - Len(w) = Len(d) /\ all[i].value = q.state
    BY <1>1, <2>1
  <2>3. i - 1 \in Len(w)..(Len(w) + Len(d)) /\ (i - 1) - Len(w) = Len(d) - 1
    BY <1>1, <2>1, <2>2, TwoInARow
  <2>4. \A type : Carries(all, i - 1, type)
                    <=> Carries(w, Len(w), type) \/ Carries(d, Len(d) - 1, type)
    <3>1. \A n \in Len(w)..(Len(w) + Len(d)) : \A type :
            Carries(all, n, type)
              <=> Carries(w, Len(w), type) \/ Carries(d, n - Len(w), type)
      BY <1>1, CarriesAdded
    <3> HIDE DEF all
    <3> QED
      BY <2>3, <3>1
  \* The last of the new messages is the state itself.
  <2>5. \A type : type # "state" /\ Carries(d, Len(d), type) => Carries(d, Len(d) - 1, type)
    <3> SUFFICES ASSUME NEW type, type # "state", Carries(d, Len(d), type)
                 PROVE  Carries(d, Len(d) - 1, type)
      OBVIOUS
    <3>1. PICK k \in 1..Len(d) : d[k].type = type
      BY DEF Carries
    <3>2. k # Len(d)
      BY <2>1, <2>2, <3>1
    <3>3. k \in 1..(Len(d) - 1)
      BY <1>1, <3>2, TwoInARow
    <3> QED
      BY <3>1, <3>3 DEF Carries
  <2>6. CASE q.state = "completed"
    <3>1. q.results
      BY <2>6 DEF Coherent, Terminal, Pictures
    <3> QED
      BY <1>1, <2>2, <2>4, <2>5, <2>6, <3>1 DEF Reaches, Pictures
  <2>7. CASE q.state = "failed"
    <3>1. q.error
      BY <2>7 DEF Coherent, Terminal, Pictures
    <3> QED
      BY <1>1, <2>2, <2>4, <2>5, <2>7, <3>1 DEF Reaches, Pictures
  <2> QED
    BY <2>2, <2>6, <2>7
<1> QED
  BY <1>1, <1>2, <1>3, TwoInARow

LEMMA ReceiveFacts ==
  ASSUME NEW w \in Seq(Message), w # <<>>, NEW c \in Pictures, Ordered(w, c), Whole(c)
  PROVE  /\ Whole(Fold(c, Head(w))) /\ Ordered(Tail(w), Fold(c, Head(w)))
         /\ \A x \in Pictures : Reaches(w, c, x) => Reaches(Tail(w), Fold(c, Head(w)), x)
<1> DEFINE m == Head(w)
           n == Fold(c, m)
           t == Tail(w)
<1>1. /\ m \in Message /\ m = w[1] /\ t \in Seq(Message)
      /\ Len(w) \in Nat \ {0} /\ Len(t) = Len(w) - 1
      /\ \A i \in 1..Len(t) : t[i] = w[i + 1]
  BY Taken
<1>2. \A type, k : k \in 1..Len(w) =>
        (Carries(w, k, type) <=> m.type = type \/ Carries(t, k - 1, type))
  BY CarriesTaken
<1>3. /\ n.state = IF m.type = "state" THEN m.value ELSE c.state
      /\ n.progress = IF m.type = "progress" THEN m.value ELSE c.progress
      /\ n.results = IF m.type = "result" THEN TRUE ELSE c.results
      /\ n.error = IF m.type = "error" THEN TRUE ELSE c.error
  BY <1>1 DEF Fold, Message, Pictures
<1> HIDE DEF m, n, t
<1>4. Whole(n)
  <2>1. ~Carries(w, 0, "result") /\ ~Carries(w, 0, "error")
    BY DEF Carries
  <2>2. m.type = "state" => /\ m.value = "completed" => c.results
                            /\ m.value = "failed" => c.error
    BY <1>1, <2>1 DEF Ordered
  <2> QED
    BY <1>3, <2>2 DEF Whole
<1>5. Ordered(t, n)
  <2> SUFFICES ASSUME NEW i \in 1..Len(t), t[i].type = "state"
               PROVE  /\ t[i].value = "completed" => n.results \/ Carries(t, i - 1, "result")
                      /\ t[i].value = "failed" => n.error \/ Carries(t, i - 1, "error")
    BY DEF Ordered
  <2>1. i + 1 \in 1..Len(w) /\ i \in 1..Len(w) /\ t[i] = w[i + 1] /\ (i + 1) - 1 = i
    BY <1>1
  <2>2. /\ t[i].value = "completed" => c.results \/ Carries(w, i, "result")
        /\ t[i].value = "failed" => c.error \/ Carries(w, i, "error")
    BY <2>1 DEF Ordered
  <2> QED
    BY <1>2, <1>3, <2>1, <2>2
<1>6. ASSUME NEW x \in Pictures, Reaches(w, c, x) PROVE Reaches(t, n, x)
  <2>1. Newest(t, "state", n.state, x.state)
    BY <1>3, <1>6, NewestTaken DEF Reaches, m, t
  <2>2. x.progress # NoProgress => Newest(t, "progress", n.progress, x.progress)
    BY <1>3, <1>6, NewestTaken DEF Reaches, m, t
  <2>3. \A type : Carries(w, Len(w), type) <=> m.type = type \/ Carries(t, Len(t), type)
    BY <1>1, <1>2
  <2> QED
    BY <1>3, <1>6, <2>1, <2>2, <2>3 DEF Reaches
<1> QED
  BY <1>4, <1>5, <1>6 DEF m, n, t

(***************************************************************************)
(* The invariant.                                                          *)
(***************************************************************************)

LEMMA SnapshotsArePictures ==
  /\ Snapshots \cup {NoSnapshot} \subseteq Pictures
  /\ \A x \in Snapshots : x.state \in JobStates
  /\ Coherent(NoSnapshot) /\ QueuedSnapshot \in Snapshots /\ Coherent(QueuedSnapshot)
<1>1. Snapshots \subseteq Pictures
  BY DEF Snapshots, Pictures
<1>2. NoSnapshot \in Pictures
  BY DEF NoSnapshot, Pictures, Progresses
<1>3. \A x \in Snapshots : x.state \in JobStates
  BY DEF Snapshots
<1>4. Coherent(NoSnapshot) /\ Coherent(QueuedSnapshot)
  BY DEF NoSnapshot, QueuedSnapshot, Coherent, Terminal
<1>5. QueuedSnapshot \in Snapshots
  BY DEF QueuedSnapshot, Snapshots, JobStates, Progresses
<1> QED
  BY <1>1, <1>2, <1>3, <1>4, <1>5

LEMMA FoldIsAPicture ==
  ASSUME NEW c \in Pictures, NEW m \in Message
  PROVE  Fold(c, m) \in Pictures
<1>1. CASE m \in [type : {"progress"}, value : Steps]
  BY <1>1 DEF Fold, Pictures, Progresses
<1>2. CASE m \in [type : {"result", "error"}, value : {NoProgress}]
  BY <1>2 DEF Fold, Pictures
<1>3. CASE m \in [type : {"state"}, value : JobStates]
  BY <1>3 DEF Fold, Pictures
<1> QED
  BY <1>1, <1>2, <1>3 DEF Message

LEMMA InitIInv == Init => IInv
<1> SUFFICES ASSUME Init PROVE IInv
  OBVIOUS
<1>1. ViewOK
  BY SnapshotsArePictures DEF Init, ViewInit, ViewOK
<1>2. StreamTypeOK
  BY SnapshotsArePictures, EmptySeq DEF Init, StreamInit, StreamTypeOK, Phases, Pictures
<1>3. ASSUME NEW s \in Streams
      PROVE  /\ client[s] = NoSnapshot /\ sent[s] = NoSnapshot
             /\ wire[s] = <<>> /\ phase[s] = "none"
  BY DEF Init, StreamInit
<1>4. \A n : n \notin 1..Len(<<>>)
  OBVIOUS
<1>5. Whole(NoSnapshot) /\ Ordered(<<>>, NoSnapshot) /\ Reaches(<<>>, NoSnapshot, NoSnapshot)
  BY <1>4 DEF Whole, Ordered, Reaches, Newest, NoSnapshot
<1> QED
  BY <1>1, <1>2, <1>3, <1>5 DEF IInv

\* The steps of a stream that send and receive nothing.
AnyOpening(s) == \E j \in Jobs : Open(s, j)

LEMMA QuietStep ==
  ASSUME IInv, NEW s \in Streams,
         Refreshed(s) \/ Woken(s) \/ WaitTimesOut(s) \/ AnyOpening(s)
  PROVE  IInv'
<1>1. /\ UNCHANGED <<view, sent, wire, client, gone>>
      /\ \E p \in Phases \ {"wait"} : phase' = [phase EXCEPT ![s] = p]
      /\ watched' \in [Streams -> Jobs] /\ moved' \in [Streams -> BOOLEAN]
      /\ \A r \in Streams \ {s} : watched'[r] = watched[r] /\ moved'[r] = moved[r]
      /\ view[watched'[s]] # NoSnapshot
  <2> USE DEF IInv, StreamTypeOK, Goto, Phases, viewVars
  <2>1. CASE Refreshed(s)
    BY <2>1 DEF Refreshed
  <2>2. CASE Woken(s)
    BY <2>2 DEF Woken
  <2>3. CASE WaitTimesOut(s)
    BY <2>3 DEF WaitTimesOut
  <2>4. CASE AnyOpening(s)
    <3>1. PICK j \in Jobs : Open(s, j)
      BY <2>4 DEF AnyOpening
    <3>2. /\ UNCHANGED <<view, sent, wire, client, gone>>
          /\ phase' = [phase EXCEPT ![s] = "opening"]
          /\ watched' = [watched EXCEPT ![s] = j] /\ moved' = [moved EXCEPT ![s] = FALSE]
          /\ view[j] # NoSnapshot
      BY <3>1 DEF Open
    <3> QED
      BY <3>2
  <2> QED
    BY <2>1, <2>2, <2>3, <2>4
<1>2. StreamTypeOK'
  BY <1>1 DEF IInv, StreamTypeOK
<1>3. ViewOK'
  BY <1>1 DEF IInv, ViewOK
<1>4. \A r \in Streams :
        phase'[r] = "wait" /\ ~moved'[r] => sent'[r] = view'[watched'[r]]
  BY <1>1 DEF IInv, StreamTypeOK
<1>5. \A r \in Streams : phase'[r] # "none" => view'[watched'[r]] # NoSnapshot
  BY <1>1 DEF IInv, StreamTypeOK
<1> QED
  BY <1>1, <1>2, <1>3, <1>4, <1>5 DEF IInv

LEMMA ReadPublishedStep ==
  ASSUME IInv, NEW s \in Streams, ReadPublished(s)
  PROVE  IInv'
<1> DEFINE current == view[watched[s]]
           d == Deltas(sent[s], current)
<1>1. /\ UNCHANGED <<view, watched, client, gone>>
      /\ wire' = [wire EXCEPT ![s] = IF gone[s] THEN <<>> ELSE @ \o d]
      /\ sent' = [sent EXCEPT ![s] = current]
      /\ moved' = [moved EXCEPT ![s] = FALSE]
      /\ \E p \in Phases : phase' = [phase EXCEPT ![s] = p]
  BY DEF ReadPublished, Goto, Phases, viewVars
<1>2. /\ phase[s] = "read" /\ watched[s] \in Jobs /\ sent[s] \in Pictures
      /\ current \in Snapshots /\ current \in Pictures /\ current.state \in JobStates
      /\ Coherent(current) /\ wire[s] \in Seq(Message) /\ client[s] \in Pictures
  BY SnapshotsArePictures DEF ReadPublished, IInv, StreamTypeOK, ViewOK, Pictures
<1>3. d \in Seq(Message)
  BY <1>2, DeltasFacts
<1> DEFINE after == IF gone[s] THEN <<>> ELSE wire[s] \o d
<1>4. after \in Seq(Message)
  BY <1>2, <1>3, TwoInARow, EmptySeq
<1>5. Ordered(after, client[s])
  <2>1. CASE gone[s]
    BY <2>1 DEF Ordered
  <2>2. CASE ~gone[s]
    BY <2>2, <1>2, SendOrdered DEF IInv
  <2> QED
    BY <2>1, <2>2
<1>6. ~gone[s] => Reaches(after, client[s], current)
  BY <1>2, SendReaches DEF IInv
<1> HIDE DEF d, after, current
<1>7. /\ wire' = [wire EXCEPT ![s] = after]
      /\ wire'[s] = after /\ sent'[s] = current /\ moved'[s] = FALSE
      /\ \A r \in Streams \ {s} : /\ wire'[r] = wire[r] /\ sent'[r] = sent[r]
                                  /\ moved'[r] = moved[r] /\ phase'[r] = phase[r]
  BY <1>1 DEF IInv, StreamTypeOK, after
<1>8. StreamTypeOK'
  <2>1. wire' \in [Streams -> Seq(Message)]
    BY <1>4, <1>7 DEF IInv, StreamTypeOK
  <2>2. sent' \in [Streams -> Snapshots \cup {NoSnapshot}]
    BY <1>1, <1>2 DEF IInv, StreamTypeOK
  <2>3. phase' \in [Streams -> Phases] /\ moved' \in [Streams -> BOOLEAN]
    BY <1>1 DEF IInv, StreamTypeOK
  <2> QED
    BY <1>1, <2>1, <2>2, <2>3 DEF IInv, StreamTypeOK
<1>9. ViewOK'
  BY <1>1 DEF IInv, ViewOK
<1>10. \A r \in Streams : Whole(client'[r]) /\ Ordered(wire'[r], client'[r])
  BY <1>1, <1>5, <1>7 DEF IInv
<1>11. \A r \in Streams : ~gone'[r] => Reaches(wire'[r], client'[r], sent'[r])
  BY <1>1, <1>6, <1>7 DEF IInv
<1>12. \A r \in Streams :
         /\ phase'[r] = "wait" /\ ~moved'[r] => sent'[r] = view'[watched'[r]]
         /\ phase'[r] # "none" => view'[watched'[r]] # NoSnapshot
  BY <1>1, <1>2, <1>7 DEF IInv, current
<1> QED
  BY <1>8, <1>9, <1>10, <1>11, <1>12 DEF IInv

LEMMA ReceiveStep ==
  ASSUME IInv, NEW s \in Streams, Receive(s)
  PROVE  IInv'
<1>1. /\ UNCHANGED <<view, phase, watched, moved, sent, gone>>
      /\ wire[s] # <<>> /\ wire[s] \in Seq(Message) /\ client[s] \in Pictures
      /\ wire' = [wire EXCEPT ![s] = Tail(wire[s])]
      /\ client' = [client EXCEPT ![s] = Fold(client[s], Head(wire[s]))]
  BY DEF Receive, viewVars, IInv, StreamTypeOK, Pictures
<1>2. /\ Tail(wire[s]) \in Seq(Message) /\ Fold(client[s], Head(wire[s])) \in Pictures
      /\ Whole(Fold(client[s], Head(wire[s])))
      /\ Ordered(Tail(wire[s]), Fold(client[s], Head(wire[s])))
  BY <1>1, Taken, FoldIsAPicture, ReceiveFacts DEF IInv
<1>3. ~gone[s] => Reaches(Tail(wire[s]), Fold(client[s], Head(wire[s])), sent[s])
  <2>1. sent[s] \in Pictures
    BY SnapshotsArePictures DEF IInv, StreamTypeOK
  <2> QED
    BY <1>1, <2>1, ReceiveFacts DEF IInv
<1>4. \A r \in Streams : /\ wire'[r] = IF r = s THEN Tail(wire[s]) ELSE wire[r]
                         /\ client'[r] = IF r = s THEN Fold(client[s], Head(wire[s]))
                                         ELSE client[r]
  BY <1>1 DEF IInv, StreamTypeOK
<1>5. StreamTypeOK'
  BY <1>1, <1>2 DEF IInv, StreamTypeOK, Pictures
<1>6. ViewOK'
  BY <1>1 DEF IInv, ViewOK
<1> QED
  BY <1>1, <1>2, <1>3, <1>4, <1>5, <1>6 DEF IInv

LEMMA DisconnectStep ==
  ASSUME IInv, NEW s \in Streams, Disconnect(s)
  PROVE  IInv'
<1>1. /\ UNCHANGED <<view, phase, watched, moved, sent, client>>
      /\ \A r \in Streams : wire'[r] = IF r = s THEN <<>> ELSE wire[r]
      /\ \A r \in Streams : gone'[r] = IF r = s THEN TRUE ELSE gone[r]
  BY DEF Disconnect, viewVars, IInv, StreamTypeOK
<1>2. StreamTypeOK'
  BY EmptySeq DEF Disconnect, viewVars, IInv, StreamTypeOK
<1>3. ViewOK'
  BY <1>1 DEF IInv, ViewOK
<1>4. \A c : Ordered(<<>>, c)
  BY DEF Ordered
<1> QED
  BY <1>1, <1>2, <1>3, <1>4 DEF IInv

LEMMA StorePublishesStep ==
  ASSUME IInv, StorePublishes
  PROVE  IInv'
<1>1. /\ UNCHANGED <<phase, watched, sent, wire, client, gone>>
      /\ moved' = [r \in Streams |-> moved[r] \/ view'[watched[r]] # view[watched[r]]]
  BY DEF StorePublishes
<1>2. /\ view' \in [Jobs -> Snapshots \cup {NoSnapshot}]
      /\ \A j \in Jobs : /\ Coherent(view'[j])
                         /\ view[j] # NoSnapshot => view'[j] # NoSnapshot
  <2> USE SnapshotsArePictures DEF IInv, ViewOK
  <2>1. NoSnapshot \notin Snapshots
    BY DEF NoSnapshot, Snapshots, JobStates
  <2>2. ASSUME NEW j \in Jobs, Appear(j)
        PROVE  view' \in [Jobs -> Snapshots \cup {NoSnapshot}]
               /\ \A k \in Jobs : Coherent(view'[k]) /\ (view[k] # NoSnapshot => view'[k] # NoSnapshot)
    BY <2>2 DEF Appear
  <2>3. ASSUME NEW j \in Jobs, NEW x \in Snapshots, Publish(j, x)
        PROVE  view' \in [Jobs -> Snapshots \cup {NoSnapshot}]
               /\ \A k \in Jobs : Coherent(view'[k]) /\ (view[k] # NoSnapshot => view'[k] # NoSnapshot)
    BY <2>1, <2>3 DEF Publish
  <2>4. CASE view' = view
    BY <2>4
  <2> QED
    BY <2>2, <2>3, <2>4 DEF StorePublishes, ViewNext, AskToCancel, End
<1>3. ViewOK'
  BY <1>2 DEF ViewOK
<1>4. StreamTypeOK'
  BY <1>1 DEF IInv, StreamTypeOK
<1>5. \A r \in Streams :
        /\ phase'[r] = "wait" /\ ~moved'[r] => sent'[r] = view'[watched'[r]]
        /\ phase'[r] # "none" => view'[watched'[r]] # NoSnapshot
  <2> SUFFICES ASSUME NEW r \in Streams
               PROVE  /\ phase'[r] = "wait" /\ ~moved'[r] => sent'[r] = view'[watched'[r]]
                      /\ phase'[r] # "none" => view'[watched'[r]] # NoSnapshot
    OBVIOUS
  <2>1. moved'[r] <=> moved[r] \/ view'[watched[r]] # view[watched[r]]
    BY <1>1
  <2>2. watched[r] \in Jobs
    BY DEF IInv, StreamTypeOK
  <2> QED
    BY <1>1, <1>2, <2>1, <2>2 DEF IInv
<1> QED
  BY <1>1, <1>3, <1>4, <1>5 DEF IInv

THEOREM Invariant == Spec => []IInv
<1>1. IInv /\ [Next]_vars => IInv'
  <2> SUFFICES ASSUME IInv, [Next]_vars PROVE IInv'
    OBVIOUS
  <2>1. ASSUME NEW s \in Streams, Handle(s) PROVE IInv'
    BY <2>1, QuietStep, ReadPublishedStep DEF Handle
  <2>2. ASSUME NEW s \in Streams, NEW j \in Jobs, Open(s, j) PROVE IInv'
    BY <2>2, QuietStep DEF AnyOpening
  <2>3. CASE UNCHANGED vars
    BY <2>3 DEF vars, viewVars, streamVars, IInv, StreamTypeOK, ViewOK
  <2> QED
    BY <2>1, <2>2, <2>3, ReceiveStep, DisconnectStep, StorePublishesStep DEF Next
<1> QED
  BY InitIInv, <1>1, PTL DEF Spec

(***************************************************************************)
(* What it is for.                                                         *)
(***************************************************************************)

\* Every variable keeps its type, and a message carries a value of its field.
THEOREM StreamTypes == Spec => []StreamTypeOK
  BY Invariant, PTL DEF IInv

\* Whatever the store publishes, and at whatever message a connection is cut, a
\* client that acts on an outcome holds what the outcome comes with.
THEOREM OutcomesArriveWhole == Spec => []OutcomeArrivesWhole
<1>1. IInv => OutcomeArrivesWhole
  BY DEF IInv, Whole, OutcomeArrivesWhole
<1> QED
  BY Invariant, <1>1, PTL

\* A client that has received everything holds what is published, or the stream
\* is about to be woken: no publication falls between a read and the next wait.
THEOREM NothingIsMissed == Spec => []NothingMissed
<1>1. IInv => NothingMissed
  <2> SUFFICES ASSUME IInv, NEW s \in Streams, phase[s] = "wait", ~gone[s],
                      wire[s] = <<>>, ~moved[s]
               PROVE  LET current == view[watched[s]]
                      IN  /\ client[s].state = current.state
                          /\ current.progress # NoProgress
                               => client[s].progress = current.progress
                          /\ current.results => client[s].results
                          /\ current.error => client[s].error
    BY DEF NothingMissed
  <2>1. sent[s] = view[watched[s]] /\ Reaches(<<>>, client[s], sent[s])
    BY DEF IInv
  <2>2. \A type : ~Carries(<<>>, Len(<<>>), type)
    BY DEF Carries
  <2> QED
    BY <2>1, <2>2 DEF Reaches, Newest
<1> QED
  BY Invariant, <1>1, PTL
=============================================================================
