-------------------------- MODULE ClientStreamProofs -------------------------
(***************************************************************************)
(* Proofs about ClientStream, for any number of handles, sender threads    *)
(* and requests.  Sender threads are numbered from 0, an extent has a size.*)
(***************************************************************************)
EXTENDS ClientStream, FiniteSetTheorems, TLAPS

Sizes ==
  /\ \E n \in Nat \ {0} : Senders = 0..(n - 1)
  /\ ExtentSize \in Nat \ {0} /\ RingCap \in Nat /\ MaxIo \in Nat

InCall == {"submit", "signal", "post"}
AppRecs == [pc : {"new", "idle", "closing", "closed"} \cup InCall, k : 0..MaxIo, n : 0..2, i : 0..2]
ReqRecs == [n : 0..2, ref : 0..2, status : {"none", "ok", "fail", "crc"},
            pc : {"none", "live", "told", "gone"}, bad : BOOLEAN]

Typed ==
  /\ app \in [Handles -> AppRecs] /\ ureq \in [Ios -> ReqRecs]
  /\ inflight \in [Handles -> Int] /\ freed \in [Handles -> BOOLEAN]
  /\ ring \in [Senders -> Seq(Parts)] /\ event \in [Senders -> BOOLEAN] /\ sem \in [Senders -> Nat]
  /\ stop \in [Senders -> BOOLEAN]
  /\ sender \in [Senders -> {"check", "wait", "sleep", "drain", "expire", "exit"}]
  /\ rpc \subseteq Parts /\ final \in {"new", "no", "stop", "done"}
  /\ \A s \in Senders : Len(ring[s]) <= RingCap

(* A thread in a call is at one of the request's parts.                    *)
AppOK == \A h \in Handles : app[h].pc \in InCall => app[h].k >= 1 /\ app[h].i >= 1 /\ app[h].i <= app[h].n

Elems(q) == {q[j] : j \in 1..Len(q)}
Distinct(q) == \A i, j \in 1..Len(q) : q[i] = q[j] => i = j

(* Where a part that is not done may be: with the thread of its handle, in *)
(* the ring of its sender, or on its way.                                  *)
Ahead(a, i) ==
  /\ i <= a.n
  /\ \/ a.pc = "submit" /\ i >= a.i
     \/ a.pc \in {"signal", "post"} /\ i > a.i
ToSend(r, i) == app[r[1]].k = r[2] /\ Ahead(app[r[1]], i)
InRing(p) == p \in Elems(ring[SenderOf(p)])
Out(r, i) == ToSend(r, i) \/ InRing(<<r, i>>) \/ <<r, i>> \in rpc

(* It is in one of these places only, and there once.                      *)
OncePlaced ==
  /\ \A s \in Senders : Distinct(ring[s]) /\ \A p \in Elems(ring[s]) : SenderOf(p) = s
  /\ \A r \in Ios, i \in {1, 2} : /\ ~(ToSend(r, i) /\ InRing(<<r, i>>))
                                  /\ ~(ToSend(r, i) /\ <<r, i>> \in rpc)
                                  /\ ~(InRing(<<r, i>>) /\ <<r, i>> \in rpc)

(* A request is live as long as a part of it is out, and counts these      *)
(* parts.                                                                  *)
One(b) == IF b THEN 1 ELSE 0
Counted(r) ==
  /\ ureq[r].pc # "live" => ~Out(r, 1) /\ ~Out(r, 2)
  /\ ureq[r].pc = "live" => ureq[r].ref = One(Out(r, 1)) + One(Out(r, 2)) /\ ureq[r].ref # 0
  /\ r[2] > app[r[1]].k => ureq[r].pc = "none"
RefsOK == \A r \in Ios : Counted(r)

(* ioInflight_ counts the requests that are live or being called back.     *)
OpenIos(h) == {r \in Ios : r[1] = h /\ ureq[r].pc \in {"live", "told"}}
InflightOK == \A h \in Handles : inflight[h] = Cardinality(OpenIos(h))

(* A handle is freed when it has none of them.                             *)
FreedOK == \A h \in Handles : freed[h] => app[h].pc = "closed" /\ OpenIos(h) = {}

(* A sender ends only after every thread has left the library.             *)
StopOK ==
  /\ final \in {"stop", "done"} => \A h \in Handles : app[h].pc \notin InCall
  /\ \A s \in Senders : stop[s] => final \in {"stop", "done"}
  /\ \A s \in Senders : sender[s] \in {"expire", "exit"} => stop[s]

TruthOK == \A r \in Ios : ureq[r].status = "ok" => ~ureq[r].bad

Inv == Typed /\ AppOK /\ OncePlaced /\ RefsOK /\ InflightOK /\ FreedOK /\ StopOK /\ RingsEmptied /\ TruthOK

-----------------------------------------------------------------------------
(* Requests and parts, and what they are made of.                          *)
LEMMA IoFacts ==
  /\ \A r \in Ios : r[1] \in Handles /\ r[2] \in 1..MaxIo /\ r = <<r[1], r[2]>>
  /\ \A p \in Parts : p[1] \in Ios /\ p[2] \in {1, 2} /\ p = <<p[1], p[2]>>
  /\ \A h \in Handles, k \in 1..MaxIo : <<h, k>> \in Ios
  /\ \A r \in Ios, i \in {1, 2} : <<r, i>> \in Parts
BY DEF Ios, Parts

(* Every part has a sender.                                                *)
LEMMA SenderIn ==
  ASSUME Sizes, NEW p \in Parts
  PROVE  SenderOf(p) \in Senders
<1>1. PICK n \in Nat \ {0} : Senders = 0..(n - 1)
  BY DEF Sizes
<1>2. Cardinality(Senders) = n
  <2>1. 0 \in Int /\ n - 1 \in Int
    BY <1>1
  <2>2. Cardinality(0..(n - 1)) = IF 0 > n - 1 THEN 0 ELSE (n - 1) - 0 + 1
    BY <2>1, FS_Interval
  <2> QED
    BY <1>1, <2>2
<1>3. PICK x \in Nat : x = p[1][2] + p[2]
  <2>1. p[1] \in Ios /\ p[2] \in {1, 2}
    BY IoFacts
  <2>2. p[1][2] \in 1..MaxIo
    BY <2>1, IoFacts
  <2> QED
    BY <2>1, <2>2 DEF Sizes
<1>4. x % n \in 0..(n - 1)
  BY <1>1, <1>3
<1> QED
  BY <1>1, <1>2, <1>3, <1>4 DEF SenderOf

(* A part at the end of a queue.                                           *)
LEMMA AppendFacts ==
  ASSUME NEW S, NEW q \in Seq(S), NEW x \in S
  PROVE  /\ Append(q, x) \in Seq(S) /\ Len(Append(q, x)) = Len(q) + 1
         /\ Elems(Append(q, x)) = Elems(q) \cup {x}
         /\ Distinct(q) /\ x \notin Elems(q) => Distinct(Append(q, x))
<1>1. PICK n \in Nat : n = Len(q)
  OBVIOUS
<1>2. PICK z : z = Append(q, x)
  OBVIOUS
<1>3. z \in Seq(S) /\ Len(z) = n + 1 /\ z[n + 1] = x /\ \A j \in 1..n : z[j] = q[j]
  BY <1>1, <1>2
<1>4. Elems(z) = Elems(q) \cup {x}
  <2>1. ASSUME NEW e \in Elems(z)
        PROVE  e \in Elems(q) \cup {x}
    <3>1. PICK j \in 1..(n + 1) : e = z[j]
      BY <1>3, <2>1 DEF Elems
    <3>2. j = n + 1 \/ j \in 1..n
      OBVIOUS
    <3> QED
      BY <1>1, <1>3, <3>1, <3>2 DEF Elems
  <2>2. ASSUME NEW e \in Elems(q)
        PROVE  e \in Elems(z)
    <3>1. PICK j \in 1..n : e = q[j]
      BY <1>1, <2>2 DEF Elems
    <3>2. j \in 1..(n + 1) /\ z[j] = e
      BY <1>3, <3>1
    <3> QED
      BY <1>3, <3>2 DEF Elems
  <2>3. x \in Elems(z)
    <3>1. n + 1 \in 1..(n + 1)
      OBVIOUS
    <3> QED
      BY <1>3, <3>1 DEF Elems
  <2> QED
    BY <2>1, <2>2, <2>3
<1>5. ASSUME Distinct(q), x \notin Elems(q)
      PROVE  Distinct(z)
  <2> SUFFICES ASSUME NEW i \in 1..(n + 1), NEW j \in 1..(n + 1), z[i] = z[j]
               PROVE  i = j
    BY <1>3 DEF Distinct
  <2>1. ASSUME NEW a \in 1..n
        PROVE  z[a] # x
    BY <1>1, <1>3, <1>5, <2>1 DEF Elems
  <2>2. CASE i \in 1..n /\ j \in 1..n
    BY <1>1, <1>3, <1>5, <2>2 DEF Distinct
  <2>3. CASE i = n + 1 \/ j = n + 1
    <3>1. i \in 1..n \/ i = n + 1
      OBVIOUS
    <3>2. j \in 1..n \/ j = n + 1
      OBVIOUS
    <3> QED
      BY <1>3, <2>1, <2>3, <3>1, <3>2
  <2> QED
    BY <2>2, <2>3
<1> QED
  BY <1>1, <1>2, <1>3, <1>4, <1>5

(* The first of a queue is taken.                                          *)
LEMMA TailFacts ==
  ASSUME NEW S, NEW q \in Seq(S), q # <<>>
  PROVE  /\ Head(q) \in S /\ Head(q) \in Elems(q)
         /\ Tail(q) \in Seq(S) /\ Len(Tail(q)) = Len(q) - 1
         /\ Distinct(q) => Distinct(Tail(q)) /\ Elems(Tail(q)) = Elems(q) \ {Head(q)}
<1>1. PICK n \in Nat : n = Len(q)
  OBVIOUS
<1>2. n # 0 /\ Head(q) = q[1] /\ 1 \in 1..n
  BY <1>1
<1>3. PICK z : z = Tail(q)
  OBVIOUS
<1>4. z \in Seq(S) /\ Len(z) = n - 1 /\ \A j \in 1..(n - 1) : z[j] = q[j + 1]
  BY <1>1, <1>2, <1>3
<1>5. Head(q) \in S /\ Head(q) \in Elems(q)
  BY <1>1, <1>2 DEF Elems
<1>6. ASSUME Distinct(q)
      PROVE  Distinct(z)
  <2> SUFFICES ASSUME NEW i \in 1..(n - 1), NEW j \in 1..(n - 1), z[i] = z[j]
               PROVE  i = j
    BY <1>4 DEF Distinct
  <2>1. i + 1 \in 1..n /\ j + 1 \in 1..n /\ q[i + 1] = q[j + 1]
    BY <1>4
  <2>2. i + 1 = j + 1
    BY <1>1, <1>6, <2>1 DEF Distinct
  <2> QED
    BY <2>2
<1>7. ASSUME Distinct(q)
      PROVE  Elems(z) = Elems(q) \ {Head(q)}
  <2>1. ASSUME NEW e \in Elems(z)
        PROVE  e \in Elems(q) /\ e # Head(q)
    <3>1. PICK j \in 1..(n - 1) : e = z[j]
      BY <1>4, <2>1 DEF Elems
    <3>2. j + 1 \in 1..n /\ e = q[j + 1] /\ j + 1 # 1
      BY <1>4, <3>1
    <3>3. e # q[1]
      BY <1>1, <1>2, <1>7, <3>2 DEF Distinct
    <3> QED
      BY <1>1, <1>2, <3>2, <3>3 DEF Elems
  <2>2. ASSUME NEW e \in Elems(q), e # Head(q)
        PROVE  e \in Elems(z)
    <3>1. PICK j \in 1..n : e = q[j]
      BY <1>1, <2>2 DEF Elems
    <3>2. j # 1
      BY <1>2, <2>2, <3>1
    <3>3. PICK i \in 1..(n - 1) : j = i + 1
      BY <3>2
    <3> QED
      BY <1>4, <3>1, <3>3 DEF Elems
  <2> QED
    BY <2>1, <2>2
<1> QED
  BY <1>1, <1>3, <1>4, <1>5, <1>6, <1>7

(* A thread goes on to the next part.                                      *)
LEMMA NextPartFacts ==
  ASSUME NEW a \in AppRecs, a.pc \in InCall, a.i >= 1, a.i <= a.n
  PROVE  /\ NextPart(a) \in AppRecs /\ NextPart(a).k = a.k
         /\ NextPart(a).pc \in {"idle", "submit"}
         /\ NextPart(a).pc = "submit" => NextPart(a).i >= 1 /\ NextPart(a).i <= NextPart(a).n
         /\ \A j \in {1, 2} : Ahead(NextPart(a), j) <=> (j > a.i /\ j <= a.n)
<1>0. a.i \in 0..2 /\ a.n \in 0..2
  BY DEF AppRecs
<1>1. CASE a.i = a.n
  <2>1. NextPart(a) = [a EXCEPT !.pc = "idle", !.n = 0, !.i = 0]
    BY <1>1 DEF NextPart
  <2>2. 0 \in 0..2 /\ "idle" \in {"new", "idle", "closing", "closed"} \cup InCall
    OBVIOUS
  <2>3. NextPart(a) \in AppRecs /\ NextPart(a).k = a.k /\ NextPart(a).pc = "idle"
    BY <2>1, <2>2 DEF AppRecs
  <2> QED
    BY <1>0, <1>1, <2>3 DEF Ahead
<1>2. CASE a.i # a.n
  <2>1. NextPart(a) = [a EXCEPT !.pc = "submit", !.i = a.i + 1]
    BY <1>2 DEF NextPart
  <2>2. a.i + 1 \in 0..2 /\ a.i + 1 <= a.n
    BY <1>0, <1>2
  <2>3. /\ NextPart(a) \in AppRecs /\ NextPart(a).k = a.k /\ NextPart(a).pc = "submit"
        /\ NextPart(a).i = a.i + 1 /\ NextPart(a).n = a.n
    BY <2>1, <2>2 DEF AppRecs, InCall
  <2> QED
    BY <1>0, <1>2, <2>2, <2>3 DEF Ahead
<1> QED
  BY <1>1, <1>2

(* A part of a request is done.                                            *)
LEMMA AfterPartFacts ==
  ASSUME Typed, NEW r \in Ios, NEW st \in {"ok", "fail", "crc"}, ureq[r].ref # 0
  PROVE  /\ AfterPart(r, st) \in ReqRecs
         /\ AfterPart(r, st).ref = ureq[r].ref - 1
         /\ AfterPart(r, st).pc = IF ureq[r].ref = 1 THEN "told" ELSE ureq[r].pc
         /\ (ureq[r].status = "ok" => ~ureq[r].bad) =>
              (AfterPart(r, st).status = "ok" => ~AfterPart(r, st).bad)
<1>1. PICK q \in ReqRecs : q = ureq[r] /\ q.ref # 0
  BY DEF Typed
<1>2. /\ onWriteDone(q, st) \in ReqRecs
      /\ onWriteDone(q, st).ref = q.ref - 1
      /\ onWriteDone(q, st).pc = (IF q.ref = 1 THEN "told" ELSE q.pc)
      /\ onWriteDone(q, st).status = (IF q.status = "ok" THEN st ELSE q.status)
      /\ onWriteDone(q, st).bad = (q.bad \/ st # "ok")
  <2>1. q.ref - 1 \in 0..2 /\ (q.bad \/ st # "ok") \in BOOLEAN
    BY <1>1 DEF ReqRecs
  <2> QED
    BY <1>1, <2>1 DEF onWriteDone, ReqRecs
<1>3. PICK w \in ReqRecs : w = onWriteDone(q, st)
  BY <1>2
<1>4. /\ onReadDone(q, st) \in ReqRecs
      /\ onReadDone(q, st).ref = q.ref - 1
      /\ onReadDone(q, st).pc = (IF q.ref = 1 THEN "told" ELSE q.pc)
      /\ onReadDone(q, st).status = (IF st = "crc" THEN "crc" ELSE w.status)
      /\ onReadDone(q, st).bad = w.bad
  BY <1>2, <1>3 DEF onReadDone, ReqRecs
<1>5. CASE r[1] \in Readers
  BY <1>1, <1>2, <1>3, <1>4, <1>5 DEF AfterPart
<1>6. CASE r[1] \notin Readers
  BY <1>1, <1>2, <1>6 DEF AfterPart
<1> QED
  BY <1>5, <1>6

-----------------------------------------------------------------------------
(* The counts stand while the same parts are out ...                       *)
LEMMA RefsSame ==
  ASSUME RefsOK, \A r \in Ios, i \in {1, 2} : Out(r, i)' <=> Out(r, i),
         ureq' = ureq, \A h \in Handles : app'[h].k = app[h].k
  PROVE  RefsOK'
<1> SUFFICES ASSUME NEW r \in Ios
             PROVE  Counted(r)'
  BY DEF RefsOK
<1>1. (Out(r, 1)' <=> Out(r, 1)) /\ (Out(r, 2)' <=> Out(r, 2))
  OBVIOUS
<1>2. One(Out(r, 1))' = One(Out(r, 1)) /\ One(Out(r, 2))' = One(Out(r, 2))
  BY <1>1 DEF One
<1>3. r[1] \in Handles
  BY IoFacts
<1> QED
  BY <1>1, <1>2, <1>3 DEF RefsOK, Counted

(* ... and when a part is done they go down together.                      *)
LEMMA RefsDone ==
  ASSUME Typed, RefsOK, TruthOK, NEW q \in Ios, NEW j \in {1, 2}, NEW st \in {"ok", "fail", "crc"}, Out(q, j),
         ureq' = [ureq EXCEPT ![q] = AfterPart(q, st)],
         \A r \in Ios, i \in {1, 2} : Out(r, i)' <=> (Out(r, i) /\ ~(r = q /\ i = j)),
         \A h \in Handles : app'[h].k = app[h].k
  PROVE  /\ RefsOK' /\ TruthOK' /\ ureq' \in [Ios -> ReqRecs]
         /\ \A r \in Ios : ureq'[r].pc \in {"live", "told"} <=> ureq[r].pc \in {"live", "told"}
<1>1. /\ ureq[q].pc = "live" /\ ureq[q].ref = One(Out(q, 1)) + One(Out(q, 2)) /\ ureq[q].ref # 0
  BY DEF RefsOK, Counted
<1>2. PICK x : x = AfterPart(q, st)
  OBVIOUS
<1>3. /\ x \in ReqRecs /\ x.ref = ureq[q].ref - 1
      /\ x.pc = IF ureq[q].ref = 1 THEN "told" ELSE ureq[q].pc
      /\ x.status = "ok" => ~x.bad
  BY <1>1, <1>2, AfterPartFacts DEF TruthOK
<1>4. /\ ureq' \in [Ios -> ReqRecs] /\ ureq'[q] = x /\ \A r \in Ios : r # q => ureq'[r] = ureq[r]
  BY <1>2, <1>3 DEF Typed
<1>5. TruthOK'
  BY <1>3, <1>4 DEF TruthOK
<1>6. \A r \in Ios : ureq'[r].pc \in {"live", "told"} <=> ureq[r].pc \in {"live", "told"}
  BY <1>1, <1>3, <1>4
<1>7. ASSUME NEW r \in Ios
      PROVE  Counted(r)'
  <2>0. r[1] \in Handles
    BY IoFacts
  <2>1. CASE r # q
    <3>1. (Out(r, 1)' <=> Out(r, 1)) /\ (Out(r, 2)' <=> Out(r, 2))
      BY <2>1
    <3>2. One(Out(r, 1))' = One(Out(r, 1)) /\ One(Out(r, 2))' = One(Out(r, 2))
      BY <3>1 DEF One
    <3> QED
      BY <1>4, <2>0, <2>1, <3>1, <3>2 DEF RefsOK, Counted
  <2>2. CASE r = q
    <3>1. (Out(q, 1)' <=> (Out(q, 1) /\ 1 # j)) /\ (Out(q, 2)' <=> (Out(q, 2) /\ 2 # j))
      OBVIOUS
    <3>2. PICK a \in {0, 1}, b \in {0, 1} : a = One(Out(q, 1)) /\ b = One(Out(q, 2))
      BY DEF One
    <3>3. PICK a1 \in {0, 1}, b1 \in {0, 1} : a1 = One(Out(q, 1))' /\ b1 = One(Out(q, 2))'
      BY DEF One
    <3>4. (a = 1 <=> Out(q, 1)) /\ (b = 1 <=> Out(q, 2)) /\ (a1 = 1 <=> Out(q, 1)') /\ (b1 = 1 <=> Out(q, 2)')
      BY <3>2, <3>3 DEF One
    <3>5. a1 + b1 = (a + b) - 1
      <4>1. CASE j = 1
        BY <3>1, <3>4, <4>1
      <4>2. CASE j = 2
        BY <3>1, <3>4, <4>2
      <4> QED
        BY <4>1, <4>2
    <3>6. x.ref = a1 + b1
      BY <1>1, <1>3, <3>2, <3>5
    <3>7. CASE ureq[q].ref = 1
      <4>1. x.pc = "told" /\ a1 + b1 = 0
        BY <1>1, <1>3, <3>6, <3>7
      <4>2. ~Out(q, 1)' /\ ~Out(q, 2)'
        BY <3>4, <4>1
      <4> QED
        BY <1>1, <1>4, <2>0, <2>2, <4>1, <4>2 DEF RefsOK, Counted
    <3>8. CASE ureq[q].ref # 1
      <4>1. x.pc = "live" /\ x.ref # 0
        BY <1>1, <1>3, <3>2, <3>8
      <4> QED
        BY <1>1, <1>4, <2>0, <2>2, <3>3, <3>6, <4>1 DEF RefsOK, Counted
    <3> QED
      BY <3>7, <3>8
  <2> QED
    BY <2>1, <2>2
<1> QED
  BY <1>4, <1>5, <1>6, <1>7 DEF RefsOK

(* What does not touch the requests' states leaves ioInflight_ right.      *)
LEMMA OpenSame ==
  ASSUME \A r \in Ios : ureq'[r].pc \in {"live", "told"} <=> ureq[r].pc \in {"live", "told"}
  PROVE  \A h \in Handles : OpenIos(h)' = OpenIos(h)
BY DEF OpenIos

-----------------------------------------------------------------------------
(* A thread moves on within its call, or into or out of one, while rings   *)
(* and calls stay: parts are only taken from what it has to send.          *)
LEMMA AppPlaces ==
  ASSUME OncePlaced, UNCHANGED <<ring, rpc>>,
         \A r \in Ios, i \in {1, 2} : ToSend(r, i)' => ToSend(r, i)
  PROVE  OncePlaced'
<1>1. \A r \in Ios, i \in {1, 2} : InRing(<<r, i>>)' <=> InRing(<<r, i>>)
  BY DEF InRing, Elems
<1>2. \A s \in Senders : Distinct(ring'[s]) /\ \A p \in Elems(ring'[s]) : SenderOf(p) = s
  BY DEF OncePlaced
<1> QED
  BY <1>1, <1>2 DEF OncePlaced, Distinct, Elems

(* The thread of h goes from a to b, and no other moves.                   *)
LEMMA ThreadMoves ==
  ASSUME Typed, NEW h \in Handles, NEW b \in AppRecs, app' = [app EXCEPT ![h] = b]
  PROVE  /\ app' \in [Handles -> AppRecs] /\ app'[h] = b
         /\ \A g \in Handles : g # h => app'[g] = app[g]
         /\ \A r \in Ios, i \in {1, 2} : r[1] # h => (ToSend(r, i)' <=> ToSend(r, i))
         /\ \A r \in Ios, i \in {1, 2} : r[1] = h => (ToSend(r, i)' <=> (b.k = r[2] /\ Ahead(b, i)))
<1>1. /\ app' \in [Handles -> AppRecs] /\ app'[h] = b
      /\ \A g \in Handles : g # h => app'[g] = app[g]
  BY DEF Typed
<1>2. ASSUME NEW r \in Ios, NEW i \in {1, 2}, r[1] # h
      PROVE  ToSend(r, i)' <=> ToSend(r, i)
  <2>1. app'[r[1]] = app[r[1]]
    BY <1>1, <1>2, IoFacts
  <2> QED
    BY <2>1 DEF ToSend, Ahead
<1>3. ASSUME NEW r \in Ios, NEW i \in {1, 2}, r[1] = h
      PROVE  ToSend(r, i)' <=> (b.k = r[2] /\ Ahead(b, i))
  BY <1>1, <1>3 DEF ToSend, Ahead
<1> QED
  BY <1>1, <1>2, <1>3

(* What a step leaves when it changes neither a thread, a ring, a call nor *)
(* a request: senders wake, sleep or are stopped.                          *)
LEMMA SenderKeeps ==
  ASSUME Inv, UNCHANGED <<app, ureq, inflight, freed, ring, rpc>>,
         event' \in [Senders -> BOOLEAN], sem' \in [Senders -> Nat], stop' \in [Senders -> BOOLEAN],
         sender' \in [Senders -> {"check", "wait", "sleep", "drain", "expire", "exit"}],
         final' \in {"new", "no", "stop", "done"}, StopOK', RingsEmptied'
  PROVE  Inv'
<1>1. Typed'
  BY DEF Inv, Typed
<1>2. \A r \in Ios, i \in {1, 2} : ToSend(r, i)' <=> ToSend(r, i)
  BY DEF ToSend
<1>3. OncePlaced'
  BY <1>2, AppPlaces DEF Inv
<1>4. \A r \in Ios, i \in {1, 2} : Out(r, i)' <=> Out(r, i)
  BY <1>2 DEF Out, InRing, Elems
<1>5. RefsOK'
  BY <1>4, RefsSame DEF Inv
<1>6. AppOK' /\ InflightOK' /\ FreedOK' /\ TruthOK'
  BY DEF Inv, AppOK, InflightOK, FreedOK, TruthOK, OpenIos
<1> QED
  BY <1>1, <1>3, <1>5, <1>6 DEF Inv

(* The life of the cluster object and of the sender threads.               *)
LEMMA SendersKeep ==
  ASSUME Inv,
         \/ StartSenderWorker \/ FinalizeBegins \/ JoinSenders
         \/ \E s \in Senders : SenderChecks(s) \/ SenderWaits(s) \/ SenderWakes(s) \/ StopSender(s)
  PROVE  Inv'
<1> USE DEF Inv
<1>1. CASE StartSenderWorker
  <2>1. StopOK' /\ RingsEmptied'
    BY <1>1 DEF StartSenderWorker, senders, StopOK, RingsEmptied
  <2> QED
    BY <1>1, <2>1, SenderKeeps DEF StartSenderWorker, senders, Typed
<1>2. CASE FinalizeBegins
  <2>1. StopOK' /\ RingsEmptied'
    BY <1>2 DEF FinalizeBegins, senders, StopOK, RingsEmptied, InCall
  <2> QED
    BY <1>2, <2>1, SenderKeeps DEF FinalizeBegins, senders, Typed
<1>3. CASE JoinSenders
  <2>1. StopOK' /\ RingsEmptied'
    BY <1>3 DEF JoinSenders, senders, StopOK, RingsEmptied
  <2> QED
    BY <1>3, <2>1, SenderKeeps DEF JoinSenders, senders, Typed
<1>4. ASSUME NEW s \in Senders, SenderChecks(s)
      PROVE  Inv'
  <2>1. PICK x \in {"expire", "wait"} : sender' = [sender EXCEPT ![s] = x] /\ (x = "expire" => stop[s])
    BY <1>4 DEF SenderChecks
  <2>2. /\ sender' \in [Senders -> {"check", "wait", "sleep", "drain", "expire", "exit"}]
        /\ sender'[s] = x /\ \A u \in Senders : u # s => sender'[u] = sender[u]
    BY <2>1 DEF Typed
  <2>3. StopOK' /\ RingsEmptied'
    BY <1>4, <2>1, <2>2 DEF SenderChecks, StopOK, RingsEmptied
  <2> QED
    BY <1>4, <2>2, <2>3, SenderKeeps DEF SenderChecks, Typed
<1>5. ASSUME NEW s \in Senders, SenderWaits(s)
      PROVE  Inv'
  <2>1. PICK x \in {"drain", "sleep"} : sender' = [sender EXCEPT ![s] = x]
    BY <1>5 DEF SenderWaits
  <2>2. /\ sender' \in [Senders -> {"check", "wait", "sleep", "drain", "expire", "exit"}]
        /\ sender'[s] = x /\ \A u \in Senders : u # s => sender'[u] = sender[u]
    BY <2>1 DEF Typed
  <2>3. StopOK' /\ RingsEmptied'
    BY <1>5, <2>1, <2>2 DEF SenderWaits, StopOK, RingsEmptied
  <2>4. event' \in [Senders -> BOOLEAN]
    BY <1>5 DEF SenderWaits, Typed
  <2> QED
    BY <1>5, <2>2, <2>3, <2>4, SenderKeeps DEF SenderWaits, Typed
<1>6. ASSUME NEW s \in Senders, SenderWakes(s)
      PROVE  Inv'
  <2>1. /\ sender' \in [Senders -> {"check", "wait", "sleep", "drain", "expire", "exit"}]
        /\ sender'[s] = "drain" /\ \A u \in Senders : u # s => sender'[u] = sender[u]
    BY <1>6 DEF SenderWakes, Typed
  <2>2. StopOK' /\ RingsEmptied'
    BY <1>6, <2>1 DEF SenderWakes, StopOK, RingsEmptied
  <2>3. sem' \in [Senders -> Nat]
    <3>1. PICK x \in Nat : x = sem[s] /\ x > 0
      BY <1>6 DEF SenderWakes, Typed
    <3>2. x - 1 \in Nat
      BY <3>1
    <3>3. sem' = [sem EXCEPT ![s] = x - 1]
      BY <1>6, <3>1 DEF SenderWakes
    <3> QED
      BY <3>2, <3>3 DEF Typed
  <2> QED
    BY <1>6, <2>1, <2>2, <2>3, SenderKeeps DEF SenderWakes, Typed
<1>7. ASSUME NEW s \in Senders, StopSender(s)
      PROVE  Inv'
  <2>1. /\ stop' \in [Senders -> BOOLEAN] /\ sem' \in [Senders -> Nat]
        /\ \A u \in Senders : u # s => stop'[u] = stop[u]
        /\ stop'[s] = TRUE
    BY <1>7 DEF StopSender, Typed
  <2>2. StopOK' /\ RingsEmptied'
    BY <1>7, <2>1 DEF StopSender, StopOK, RingsEmptied
  <2> QED
    BY <1>7, <2>1, <2>2, SenderKeeps DEF StopSender, Typed
<1> QED
  BY <1>1, <1>2, <1>3, <1>4, <1>5, <1>6, <1>7

-----------------------------------------------------------------------------
(* The open requests of a handle are finitely many, at most MaxIo.         *)
LEMMA OpenFinite ==
  ASSUME Sizes, NEW h \in Handles
  PROVE  IsFiniteSet(OpenIos(h)) /\ Cardinality(OpenIos(h)) \in 0..MaxIo
<1>1. IsFiniteSet(1..MaxIo) /\ Cardinality(1..MaxIo) = MaxIo
  <2>1. 1 \in Int /\ MaxIo \in Nat
    BY DEF Sizes
  <2>2. IsFiniteSet(1..MaxIo) /\ Cardinality(1..MaxIo) = IF 1 > MaxIo THEN 0 ELSE MaxIo - 1 + 1
    BY <2>1, FS_Interval
  <2> QED
    BY <2>1, <2>2
<1>2. PICK f : f = [k \in 1..MaxIo |-> <<h, k>>]
  OBVIOUS
<1>3. PICK T : T = {<<h, k>> : k \in 1..MaxIo}
  OBVIOUS
<1>4. f \in Surjection(1..MaxIo, T)
  BY <1>2, <1>3 DEF Surjection
<1>5. IsFiniteSet(T) /\ Cardinality(T) <= MaxIo
  BY <1>1, <1>4, FS_Surjection
<1>6. OpenIos(h) \subseteq T
  BY <1>3, IoFacts DEF OpenIos
<1>7. IsFiniteSet(OpenIos(h)) /\ Cardinality(OpenIos(h)) <= Cardinality(T)
  BY <1>5, <1>6, FS_Subset
<1>8. Cardinality(OpenIos(h)) \in Nat /\ Cardinality(T) \in Nat
  BY <1>5, <1>7, FS_CardinalityType
<1> QED
  BY <1>5, <1>7, <1>8 DEF Sizes

(* The thread of h moves and has the same parts to send.                   *)
LEMMA ThreadKeeps ==
  ASSUME Inv, NEW h \in Handles, NEW b \in AppRecs, app' = [app EXCEPT ![h] = b],
         b.k = app[h].k, \A i \in {1, 2} : Ahead(b, i) <=> Ahead(app[h], i),
         b.pc \in InCall => app[h].pc \in InCall /\ b.i >= 1 /\ b.i <= b.n,
         UNCHANGED <<ureq, inflight, ring, stop, sender, rpc, final>>,
         event' \in [Senders -> BOOLEAN], sem' \in [Senders -> Nat],
         freed' \in [Handles -> BOOLEAN], \A g \in Handles : g # h => freed'[g] = freed[g],
         freed'[h] => b.pc = "closed" /\ OpenIos(h) = {}
  PROVE  Inv'
<1> USE DEF Inv
<1>1. /\ app' \in [Handles -> AppRecs] /\ app'[h] = b
      /\ \A g \in Handles : g # h => app'[g] = app[g]
      /\ \A r \in Ios, i \in {1, 2} : r[1] # h => (ToSend(r, i)' <=> ToSend(r, i))
      /\ \A r \in Ios, i \in {1, 2} : r[1] = h => (ToSend(r, i)' <=> (b.k = r[2] /\ Ahead(b, i)))
  BY ThreadMoves
<1>2. Typed'
  BY <1>1 DEF Typed
<1>3. AppOK'
  <2> SUFFICES ASSUME NEW g \in Handles, app'[g].pc \in InCall
               PROVE  app'[g].k >= 1 /\ app'[g].i >= 1 /\ app'[g].i <= app'[g].n
    BY DEF AppOK
  <2> QED
    BY <1>1 DEF AppOK
<1>4. ASSUME NEW r \in Ios, NEW i \in {1, 2}
      PROVE  ToSend(r, i)' <=> ToSend(r, i)
  <2>1. CASE r[1] = h
    BY <1>1, <2>1 DEF ToSend
  <2> QED
    BY <1>1, <2>1
<1>5. OncePlaced'
  BY <1>4, AppPlaces
<1>6. \A r \in Ios, i \in {1, 2} : Out(r, i)' <=> Out(r, i)
  BY <1>4 DEF Out, InRing, Elems
<1>7. \A g \in Handles : app'[g].k = app[g].k
  BY <1>1
<1>8. RefsOK'
  BY <1>6, <1>7, RefsSame
<1>9. InflightOK' /\ TruthOK' /\ RingsEmptied'
  BY DEF InflightOK, TruthOK, OpenIos, RingsEmptied
<1>10. FreedOK'
  <2> SUFFICES ASSUME NEW g \in Handles, freed'[g]
               PROVE  app'[g].pc = "closed" /\ OpenIos(g)' = {}
    BY DEF FreedOK
  <2>1. OpenIos(g)' = OpenIos(g)
    BY DEF OpenIos
  <2>2. CASE g = h
    BY <1>1, <2>1, <2>2
  <2>3. CASE g # h
    BY <1>1, <2>1, <2>3 DEF FreedOK
  <2> QED
    BY <2>2, <2>3
<1>11. StopOK'
  <2>1. ASSUME final \in {"stop", "done"}, NEW g \in Handles
        PROVE  app'[g].pc \notin InCall
    BY <1>1, <2>1 DEF StopOK
  <2> QED
    BY <2>1 DEF StopOK
<1> QED
  BY <1>2, <1>3, <1>5, <1>8, <1>9, <1>10, <1>11

(* A handle is opened, and closed when ioInflight_ is 0.                   *)
LEMMA HandleKeeps ==
  ASSUME Inv, Sizes, NEW h \in Handles, Open(h) \/ CloseBegins(h) \/ CloseEnds(h)
  PROVE  Inv'
<1> USE DEF Inv
<1>0. PICK a \in AppRecs : a = app[h]
  BY DEF Typed
<1>1. ASSUME NEW x \in {"idle", "closing", "closed"}, a.pc \in {"new", "idle", "closing"}
      PROVE  LET b == [a EXCEPT !.pc = x]
             IN  b \in AppRecs /\ b.pc = x /\ b.k = a.k /\ \A i \in {1, 2} : Ahead(b, i) <=> Ahead(a, i)
  BY <1>1 DEF AppRecs, Ahead
<1>2. ~freed[h] \/ a.pc = "closed"
  BY <1>0 DEF FreedOK
<1>3. CASE Open(h) \/ CloseBegins(h)
  <2>1. PICK x \in {"idle", "closing"} : app' = [app EXCEPT ![h].pc = x]
    BY <1>3 DEF Open, CloseBegins
  <2>2. PICK b : b = [a EXCEPT !.pc = x]
    OBVIOUS
  <2>3. a.pc \in {"new", "idle"}
    BY <1>0, <1>3 DEF Open, CloseBegins
  <2>4. b \in AppRecs /\ b.pc = x /\ b.k = a.k /\ \A i \in {1, 2} : Ahead(b, i) <=> Ahead(a, i)
    BY <1>1, <2>2, <2>3
  <2>5. app' = [app EXCEPT ![h] = b]
    BY <1>0, <2>1, <2>2
  <2>6. UNCHANGED <<ureq, inflight, freed, ring, event, sem, stop, sender, rpc, final>>
    BY <1>3 DEF Open, CloseBegins, senders
  <2>7. ~freed'[h] /\ b.pc \notin InCall
    BY <1>2, <2>3, <2>4, <2>6 DEF InCall
  <2>8. /\ event' \in [Senders -> BOOLEAN] /\ sem' \in [Senders -> Nat]
        /\ freed' \in [Handles -> BOOLEAN] /\ \A g \in Handles : g # h => freed'[g] = freed[g]
    BY <2>6 DEF Typed
  <2> QED
    BY <1>0, <2>4, <2>5, <2>6, <2>7, <2>8, ThreadKeeps
<1>4. CASE CloseEnds(h)
  <2>1. app' = [app EXCEPT ![h].pc = "closed"] /\ a.pc = "closing" /\ inflight[h] = 0
    BY <1>0, <1>4 DEF CloseEnds
  <2>2. PICK b : b = [a EXCEPT !.pc = "closed"]
    OBVIOUS
  <2>4. b \in AppRecs /\ b.pc = "closed" /\ b.k = a.k /\ \A i \in {1, 2} : Ahead(b, i) <=> Ahead(a, i)
    BY <1>1, <2>1, <2>2
  <2>5. app' = [app EXCEPT ![h] = b]
    BY <1>0, <2>1, <2>2
  <2>6. UNCHANGED <<ureq, inflight, ring, event, sem, stop, sender, rpc, final>>
    BY <1>4 DEF CloseEnds, senders
  <2>7. OpenIos(h) = {}
    BY <2>1, OpenFinite, FS_EmptySet DEF InflightOK
  <2>8. /\ event' \in [Senders -> BOOLEAN] /\ sem' \in [Senders -> Nat]
        /\ freed' \in [Handles -> BOOLEAN] /\ \A g \in Handles : g # h => freed'[g] = freed[g]
    BY <1>4, <2>6 DEF CloseEnds, Typed
  <2>9. b.pc \notin InCall
    BY <2>4 DEF InCall
  <2> QED
    BY <1>0, <2>4, <2>5, <2>6, <2>7, <2>8, <2>9, ThreadKeeps
<1> QED
  BY <1>3, <1>4

(* The sender is signalled.                                                *)
LEMMA SignalKeeps ==
  ASSUME Inv, Sizes, NEW h \in Handles, Signal(h) \/ Post(h)
  PROVE  Inv'
<1> USE DEF Inv
<1>0. PICK a \in AppRecs : a = app[h]
  BY DEF Typed
<1>1. a.pc \in {"signal", "post"} /\ a.i >= 1 /\ a.i <= a.n /\ a.k >= 1
  BY <1>0 DEF Signal, Post, AppOK, InCall
<1>2. PICK i \in {1, 2}, k \in 1..MaxIo : i = a.i /\ k = a.k
  BY <1>1 DEF AppRecs, Sizes
<1>3. PICK s \in Senders : s = SenderOf(Part(h))
  <2>1. <<<<h, k>>, i>> \in Parts
    BY <1>2, IoFacts
  <2> QED
    BY <1>0, <1>2, <2>1, SenderIn DEF Part, Io
<1>4. ~freed[h]
  BY <1>0, <1>1 DEF FreedOK
<1>5. PICK b \in AppRecs : b \in {NextPart(a), [a EXCEPT !.pc = "post"]} /\ app' = [app EXCEPT ![h] = b]
  <2>1. [a EXCEPT !.pc = "post"] \in AppRecs
    BY DEF AppRecs, InCall
  <2>2. NextPart(a) \in AppRecs
    BY <1>1, NextPartFacts DEF InCall
  <2>3. app' = [app EXCEPT ![h] = NextPart(a)] \/ app' = [app EXCEPT ![h] = [a EXCEPT !.pc = "post"]]
    BY <1>0, <1>3 DEF Signal, Post
  <2> QED
    BY <2>1, <2>2, <2>3
<1>6. /\ b.k = a.k /\ \A j \in {1, 2} : Ahead(b, j) <=> Ahead(a, j)
      /\ b.pc \in InCall => a.pc \in InCall /\ b.i >= 1 /\ b.i <= b.n
  <2>1. CASE b = NextPart(a)
    <3>1. \A j \in {1, 2} : Ahead(a, j) <=> (j > a.i /\ j <= a.n)
      BY <1>1, <1>2 DEF Ahead
    <3> QED
      BY <1>1, <2>1, <3>1, NextPartFacts DEF InCall
  <2>2. CASE b = [a EXCEPT !.pc = "post"]
    BY <1>1, <2>2 DEF AppRecs, Ahead, InCall
  <2> QED
    BY <1>5, <2>1, <2>2
<1>7. UNCHANGED <<ureq, inflight, freed, ring, stop, sender, rpc, final>>
  BY DEF Signal, Post
<1>8. event' \in [Senders -> BOOLEAN] /\ sem' \in [Senders -> Nat]
  <2>1. event' = event \/ event' = [event EXCEPT ![s] = TRUE]
    BY <1>3 DEF Signal, Post
  <2>2. PICK x \in Nat : x = sem[s]
    BY DEF Typed
  <2>3. sem' = sem \/ sem' = [sem EXCEPT ![s] = x + 1]
    BY <1>3, <2>2 DEF Signal, Post
  <2>4. x + 1 \in Nat
    OBVIOUS
  <2> QED
    BY <2>1, <2>3, <2>4 DEF Typed
<1>9. freed' \in [Handles -> BOOLEAN]
  BY <1>7 DEF Typed
<1> QED
  BY <1>0, <1>4, <1>5, <1>6, <1>7, <1>8, <1>9, ThreadKeeps

-----------------------------------------------------------------------------
(* A request has one part or two, when it is not refused.                  *)
LEMMA SplitFacts ==
  ASSUME Sizes, NEW off \in 0..(ExtentSize - 1), NEW len \in 1..(ExtentSize * 2)
  PROVE  splitUserRequest(off, len) \in Int /\ splitUserRequest(off, len) >= 1
<1>1. PICK E \in Nat \ {0} : E = ExtentSize
  BY DEF Sizes
<1>2. off \in Nat /\ off < E /\ len \in Nat /\ len >= 1
  BY <1>1
<1>3. ASSUME NEW x \in Nat
      PROVE  x \div E \in Nat
  BY <1>1, <1>3
<1>4. off \div E = 0
  BY <1>1, <1>2
<1>5. off + len - 1 \in Nat
  BY <1>2
<1> QED
  BY <1>1, <1>3, <1>4, <1>5 DEF splitUserRequest

(* What a new request of h finds: none of it is out, nothing of h is to be *)
(* sent, and h is not freed.                                               *)
LEMMA NewRequest ==
  ASSUME Inv, Sizes, NEW h \in Handles, MayCall(h), NEW r0, r0 = <<h, app[h].k + 1>>
  PROVE  /\ r0 \in Ios /\ app[h].k \in Nat /\ app[h].k + 1 \in 1..MaxIo /\ ureq[r0].pc = "none"
         /\ \A i \in {1, 2} : ~Out(r0, i)
         /\ \A r \in Ios, i \in {1, 2} : r[1] = h => ~ToSend(r, i)
         /\ ~freed[h] /\ final = "no" /\ app[h].pc = "idle"
<1> USE DEF Inv
<1>1. PICK k \in Nat : k = app[h].k /\ k < MaxIo
  BY DEF MayCall, Typed, AppRecs, Sizes
<1>2. r0 \in Ios /\ k + 1 \in 1..MaxIo /\ r0[1] = h /\ r0[2] = k + 1
  <2>1. k + 1 \in 1..MaxIo
    BY <1>1 DEF Sizes
  <2> QED
    BY <1>1, <2>1, IoFacts
<1>3. ureq[r0].pc = "none"
  BY <1>1, <1>2 DEF RefsOK, Counted
<1>4. \A i \in {1, 2} : ~Out(r0, i)
  BY <1>2, <1>3 DEF RefsOK, Counted
<1>5. app[h].pc = "idle" /\ final = "no"
  BY DEF MayCall
<1>6. \A r \in Ios, i \in {1, 2} : r[1] = h => ~ToSend(r, i)
  BY <1>5 DEF ToSend, Ahead
<1>7. ~freed[h]
  BY <1>5 DEF FreedOK
<1> QED
  BY <1>1, <1>2, <1>3, <1>4, <1>5, <1>6, <1>7

(* A request that is gone.                                                 *)
LEMMA GoneFacts == Gone \in ReqRecs /\ Gone.pc = "gone" /\ Gone.status = "none"
<1>1. PICK z : z = [n |-> 0, ref |-> 0, status |-> "none", pc |-> "none", bad |-> FALSE]
  OBVIOUS
<1>2. z \in ReqRecs /\ z.status = "none"
  <2>1. 0 \in 0..2
    OBVIOUS
  <2> QED
    BY <1>1, <2>1 DEF ReqRecs
<1>3. Gone = [z EXCEPT !.pc = "gone"]
  BY <1>1 DEF Gone, NoIo
<1> QED
  BY <1>2, <1>3 DEF ReqRecs

(* A request is refused, or made and awaited within the call.              *)
LEMMA RefusedKeeps ==
  ASSUME Inv, Sizes, NEW h \in Handles, MayCall(h),
         ureq' = [ureq EXCEPT ![<<h, app[h].k + 1>>] = Gone], app' = [app EXCEPT ![h].k = @ + 1],
         UNCHANGED <<inflight, freed, senders, rpc, final>>
  PROVE  Inv'
<1> USE DEF Inv
<1>0. PICK r0 : r0 = <<h, app[h].k + 1>>
  OBVIOUS
<1>1. /\ r0 \in Ios /\ app[h].k \in Nat /\ app[h].k + 1 \in 1..MaxIo /\ ureq[r0].pc = "none"
      /\ \A i \in {1, 2} : ~Out(r0, i)
      /\ \A r \in Ios, i \in {1, 2} : r[1] = h => ~ToSend(r, i)
      /\ ~freed[h] /\ final = "no" /\ app[h].pc = "idle"
  BY <1>0, NewRequest
<1>2. PICK a \in AppRecs, k \in Nat : a = app[h] /\ k = a.k /\ k + 1 \in 1..MaxIo /\ a.pc = "idle"
  BY <1>1 DEF Typed
<1>3. PICK b \in AppRecs : b = [a EXCEPT !.k = k + 1] /\ b.pc = "idle" /\ b.k = k + 1
  <2>1. PICK m \in 0..MaxIo : m = k + 1
    BY <1>2
  <2>2. [a EXCEPT !.k = m] \in AppRecs /\ [a EXCEPT !.k = m].pc = a.pc /\ [a EXCEPT !.k = m].k = m
    BY DEF AppRecs
  <2> QED
    BY <1>2, <2>1, <2>2
<1>4. app' = [app EXCEPT ![h] = b]
  BY <1>2, <1>3
<1>5. /\ app' \in [Handles -> AppRecs] /\ app'[h] = b
      /\ \A g \in Handles : g # h => app'[g] = app[g]
      /\ \A r \in Ios, i \in {1, 2} : r[1] # h => (ToSend(r, i)' <=> ToSend(r, i))
      /\ \A r \in Ios, i \in {1, 2} : r[1] = h => (ToSend(r, i)' <=> (b.k = r[2] /\ Ahead(b, i)))
  BY <1>4, ThreadMoves, ZenonT(30)
<1>6. Gone \in ReqRecs /\ Gone.pc = "gone" /\ Gone.status = "none"
  BY GoneFacts
<1>7. ureq' \in [Ios -> ReqRecs] /\ ureq'[r0] = Gone /\ \A r \in Ios : r # r0 => ureq'[r] = ureq[r]
  BY <1>0, <1>1, <1>6 DEF Typed
<1>8. UNCHANGED <<inflight, freed, ring, event, sem, stop, sender, rpc, final>>
  BY DEF senders
<1>9. Typed'
  BY <1>5, <1>7, <1>8 DEF Typed
<1>10. AppOK'
  <2> SUFFICES ASSUME NEW g \in Handles, app'[g].pc \in InCall
               PROVE  app'[g].k >= 1 /\ app'[g].i >= 1 /\ app'[g].i <= app'[g].n
    BY DEF AppOK
  <2>1. g # h
    BY <1>3, <1>5 DEF InCall
  <2> QED
    BY <1>5, <2>1 DEF AppOK
<1>11. \A r \in Ios, i \in {1, 2} : ToSend(r, i)' <=> ToSend(r, i)
  <2>1. \A i \in {1, 2} : ~Ahead(b, i)
    BY <1>3 DEF Ahead
  <2> QED
    BY <1>1, <1>5, <2>1
<1>12. OncePlaced'
  BY <1>8, <1>11, AppPlaces
<1>13. \A r \in Ios, i \in {1, 2} : Out(r, i)' <=> Out(r, i)
  BY <1>8, <1>11 DEF Out, InRing, Elems
<1>14. ASSUME NEW r \in Ios
       PROVE  Counted(r)'
  <2>1. (Out(r, 1)' <=> Out(r, 1)) /\ (Out(r, 2)' <=> Out(r, 2))
    BY <1>13
  <2>2. One(Out(r, 1))' = One(Out(r, 1)) /\ One(Out(r, 2))' = One(Out(r, 2))
    BY <2>1 DEF One
  <2>3. r[1] \in Handles /\ r[2] \in Nat
    BY IoFacts DEF Sizes
  <2>4. CASE r = r0
    <3>1. r0[1] = h /\ r0[2] = k + 1
      BY <1>0, <1>2
    <3>2. ~(r[2] > app'[r[1]].k)
      BY <1>2, <1>3, <1>5, <2>4, <3>1
    <3>3. ureq'[r].pc = "gone" /\ ~Out(r, 1)' /\ ~Out(r, 2)'
      BY <1>1, <1>6, <1>7, <2>1, <2>4
    <3> QED
      BY <3>2, <3>3 DEF Counted
  <2>5. CASE r # r0
    <3>1. r[2] > app'[r[1]].k => r[2] > app[r[1]].k
      <4>1. CASE r[1] = h
        BY <1>2, <1>3, <1>5, <2>3, <4>1
      <4> QED
        BY <1>5, <2>3, <4>1
    <3> QED
      BY <1>7, <2>1, <2>2, <2>5, <3>1 DEF RefsOK, Counted
  <2> QED
    BY <2>4, <2>5
<1>15. RefsOK'
  BY <1>14 DEF RefsOK
<1>16. \A g \in Handles : OpenIos(g)' = OpenIos(g)
  <2>1. \A r \in Ios : ureq'[r].pc \in {"live", "told"} <=> ureq[r].pc \in {"live", "told"}
    BY <1>1, <1>6, <1>7
  <2> QED
    BY <2>1, OpenSame
<1>17. InflightOK' /\ RingsEmptied'
  BY <1>8, <1>16 DEF InflightOK, RingsEmptied
<1>18. TruthOK'
  BY <1>6, <1>7 DEF TruthOK
<1>19. FreedOK'
  BY <1>1, <1>5, <1>8, <1>16 DEF FreedOK
<1>20. StopOK'
  BY <1>1, <1>8 DEF StopOK
<1> QED
  BY <1>9, <1>10, <1>12, <1>15, <1>17, <1>18, <1>19, <1>20

(* A request is accepted: live, counted, and all of it still to be sent.   *)
LEMMA AcceptedKeeps ==
  ASSUME Inv, Sizes, NEW h \in Handles, MayCall(h), NEW n \in {1, 2},
         ureq' = [ureq EXCEPT ![<<h, app[h].k + 1>>] =
                    [NoIo EXCEPT !.n = n, !.ref = n, !.status = "ok", !.pc = "live"]],
         inflight' = [inflight EXCEPT ![h] = @ + 1],
         app' = [app EXCEPT ![h] = [pc |-> "submit", k |-> @.k + 1, n |-> n, i |-> 1]],
         UNCHANGED <<freed, senders, rpc, final>>
  PROVE  Inv'
<1> USE DEF Inv
<1>0. PICK r0 : r0 = <<h, app[h].k + 1>>
  OBVIOUS
<1>1. /\ r0 \in Ios /\ app[h].k \in Nat /\ app[h].k + 1 \in 1..MaxIo /\ ureq[r0].pc = "none"
      /\ \A i \in {1, 2} : ~Out(r0, i)
      /\ \A r \in Ios, i \in {1, 2} : r[1] = h => ~ToSend(r, i)
      /\ ~freed[h] /\ final = "no" /\ app[h].pc = "idle"
  BY <1>0, NewRequest
<1>2. PICK k \in Nat : k = app[h].k /\ k + 1 \in 1..MaxIo
  BY <1>1
<1>3. PICK b : b = [pc |-> "submit", k |-> k + 1, n |-> n, i |-> 1]
  OBVIOUS
<1>4. b \in AppRecs /\ b.pc = "submit" /\ b.k = k + 1 /\ b.n = n /\ b.i = 1
  <2>1. PICK m \in 0..MaxIo : m = k + 1
    BY <1>2
  <2>2. n \in 0..2 /\ 1 \in 0..2
    OBVIOUS
  <2> QED
    BY <1>3, <2>1, <2>2 DEF AppRecs, InCall
<1>5. app' = [app EXCEPT ![h] = b]
  BY <1>2, <1>3
<1>6. /\ app' \in [Handles -> AppRecs] /\ app'[h] = b
      /\ \A g \in Handles : g # h => app'[g] = app[g]
      /\ \A r \in Ios, i \in {1, 2} : r[1] # h => (ToSend(r, i)' <=> ToSend(r, i))
      /\ \A r \in Ios, i \in {1, 2} : r[1] = h => (ToSend(r, i)' <=> (b.k = r[2] /\ Ahead(b, i)))
  BY <1>4, <1>5, ThreadMoves, ZenonT(30)
<1>7. PICK q : q = [NoIo EXCEPT !.n = n, !.ref = n, !.status = "ok", !.pc = "live"]
  OBVIOUS
<1>8. q \in ReqRecs /\ q.pc = "live" /\ q.ref = n /\ ~q.bad
  <2>1. n \in 0..2 /\ 0 \in 0..2
    OBVIOUS
  <2>2. PICK z : z = [n |-> 0, ref |-> 0, status |-> "none", pc |-> "none", bad |-> FALSE]
    OBVIOUS
  <2>4. z \in ReqRecs /\ z.bad = FALSE
    BY <2>1, <2>2 DEF ReqRecs
  <2>3. q = [z EXCEPT !.n = n, !.ref = n, !.status = "ok", !.pc = "live"]
    BY <1>7, <2>2 DEF NoIo
  <2> QED
    BY <2>1, <2>3, <2>4 DEF ReqRecs
<1>9. ureq' \in [Ios -> ReqRecs] /\ ureq'[r0] = q /\ \A r \in Ios : r # r0 => ureq'[r] = ureq[r]
  <2>1. ureq' = [ureq EXCEPT ![r0] = q]
    BY <1>0, <1>7
  <2> QED
    BY <1>1, <1>8, <2>1, ZenonT(30) DEF Typed
<1>10. UNCHANGED <<freed, ring, event, sem, stop, sender, rpc, final>>
  BY DEF senders
<1>11. PICK m \in Int : m = inflight[h]
  BY DEF Typed
<1>12. /\ inflight' \in [Handles -> Int] /\ inflight'[h] = m + 1
       /\ \A g \in Handles : g # h => inflight'[g] = inflight[g]
  <2>1. inflight' = [inflight EXCEPT ![h] = m + 1] /\ m + 1 \in Int
    BY <1>11
  <2> QED
    BY <2>1 DEF Typed
<1>13. Typed'
  BY <1>6, <1>9, <1>10, <1>12 DEF Typed
<1>14. AppOK'
  <2> SUFFICES ASSUME NEW g \in Handles, app'[g].pc \in InCall
               PROVE  app'[g].k >= 1 /\ app'[g].i >= 1 /\ app'[g].i <= app'[g].n
    BY DEF AppOK
  <2>1. CASE g = h
    BY <1>2, <1>4, <1>6, <2>1
  <2>2. CASE g # h
    BY <1>6, <2>2 DEF AppOK
  <2> QED
    BY <2>1, <2>2
<1>15. r0[1] = h /\ r0[2] = k + 1
  BY <1>0, <1>2
<1>16. ASSUME NEW r \in Ios, NEW i \in {1, 2}
       PROVE  ToSend(r, i)' <=> (IF r = r0 THEN i <= n ELSE ToSend(r, i))
  <2>1. Ahead(b, i) <=> i <= n
    BY <1>4 DEF Ahead
  <2>2. CASE r[1] # h
    BY <1>6, <1>15, <2>2
  <2>3. CASE r[1] = h
    <3>1. r = r0 <=> r[2] = k + 1
      BY <1>15, <2>3, <1>1, IoFacts
    <3>2. ToSend(r, i)' <=> (r[2] = k + 1 /\ i <= n)
      BY <1>4, <1>6, <2>1, <2>3
    <3>3. ~ToSend(r, i)
      BY <1>1, <2>3
    <3> QED
      BY <3>1, <3>2, <3>3
  <2> QED
    BY <2>2, <2>3
<1>17. ASSUME NEW r \in Ios, NEW i \in {1, 2}
       PROVE  (InRing(<<r, i>>)' <=> InRing(<<r, i>>)) /\ (<<r, i>> \in rpc' <=> <<r, i>> \in rpc)
  BY <1>10 DEF InRing, Elems
<1>18. ASSUME NEW i \in {1, 2}
       PROVE  ~InRing(<<r0, i>>) /\ <<r0, i>> \notin rpc
  BY <1>1 DEF Out
<1>19. OncePlaced'
  <2>1. ASSUME NEW r \in Ios, NEW i \in {1, 2}
        PROVE  /\ ~(ToSend(r, i)' /\ InRing(<<r, i>>)')
               /\ ~(ToSend(r, i)' /\ <<r, i>> \in rpc')
               /\ ~(InRing(<<r, i>>)' /\ <<r, i>> \in rpc')
    <3>1. CASE r = r0
      BY <1>17, <1>18, <3>1
    <3>2. CASE r # r0
      BY <1>16, <1>17, <3>2 DEF OncePlaced
    <3> QED
      BY <3>1, <3>2
  <2>2. \A s \in Senders : Distinct(ring'[s]) /\ \A p \in Elems(ring'[s]) : SenderOf(p) = s
    BY <1>10 DEF OncePlaced
  <2> QED
    BY <2>1, <2>2 DEF OncePlaced, Distinct, Elems
<1>20. ASSUME NEW r \in Ios
       PROVE  Counted(r)'
  <2>1. CASE r = r0
    <3>1. Out(r, 1)' /\ (Out(r, 2)' <=> n = 2)
      BY <1>16, <1>17, <1>18, <2>1 DEF Out
    <3>2. One(Out(r, 1))' = 1 /\ One(Out(r, 2))' = n - 1
      BY <3>1 DEF One
    <3>3. ~(r[2] > app'[r[1]].k)
      BY <1>2, <1>4, <1>6, <1>15, <2>1
    <3>4. ureq'[r].pc = "live" /\ ureq'[r].ref = n
      BY <1>8, <1>9, <2>1
    <3>5. ureq'[r].ref = One(Out(r, 1))' + One(Out(r, 2))' /\ ureq'[r].ref # 0
      BY <3>2, <3>4
    <3> QED
      BY <3>3, <3>4, <3>5 DEF Counted
  <2>2. CASE r # r0
    <3>1. (Out(r, 1)' <=> Out(r, 1)) /\ (Out(r, 2)' <=> Out(r, 2))
      BY <1>16, <1>17, <2>2 DEF Out
    <3>2. One(Out(r, 1))' = One(Out(r, 1)) /\ One(Out(r, 2))' = One(Out(r, 2))
      BY <3>1 DEF One
    <3>3. r[1] \in Handles /\ r[2] \in Nat
      BY IoFacts DEF Sizes
    <3>4. r[2] > app'[r[1]].k => r[2] > app[r[1]].k
      <4>1. CASE r[1] = h
        BY <1>2, <1>4, <1>6, <3>3, <4>1
      <4> QED
        BY <1>6, <3>3, <4>1
    <3> QED
      BY <1>9, <2>2, <3>1, <3>2, <3>4 DEF RefsOK, Counted
  <2> QED
    BY <2>1, <2>2
<1>21. RefsOK'
  BY <1>20 DEF RefsOK
<1>22. OpenIos(h)' = OpenIos(h) \cup {r0} /\ r0 \notin OpenIos(h)
  BY <1>1, <1>8, <1>9, <1>15 DEF OpenIos
<1>23. \A g \in Handles : g # h => OpenIos(g)' = OpenIos(g)
  BY <1>9, <1>15 DEF OpenIos
<1>24. InflightOK'
  <2>1. Cardinality(OpenIos(h) \cup {r0}) = Cardinality(OpenIos(h)) + 1
    BY <1>22, OpenFinite, FS_AddElement
  <2>2. inflight'[h] = Cardinality(OpenIos(h)')
    BY <1>11, <1>12, <1>22, <2>1 DEF InflightOK
  <2>3. ASSUME NEW g \in Handles
        PROVE  inflight'[g] = Cardinality(OpenIos(g)')
    BY <1>12, <1>23, <2>2 DEF InflightOK
  <2> QED
    BY <2>3 DEF InflightOK
<1>25. RingsEmptied' /\ TruthOK'
  BY <1>8, <1>9, <1>10 DEF RingsEmptied, TruthOK
<1>26. FreedOK'
  BY <1>1, <1>6, <1>10, <1>23 DEF FreedOK
<1>27. StopOK'
  BY <1>1, <1>10 DEF StopOK
<1> QED
  BY <1>13, <1>14, <1>19, <1>21, <1>24, <1>25, <1>26, <1>27

(* The calls of the user's thread.                                         *)
LEMMA CallKeeps ==
  ASSUME Inv, Sizes, NEW h \in Handles, AsyncRead(h) \/ AsyncWrite(h) \/ Read(h) \/ Write(h)
  PROVE  Inv'
<1>1. CASE SyncIo(h)
  BY <1>1, RefusedKeeps DEF SyncIo
<1>2. CASE doUserRequest(h)
  <2>0. MayCall(h)
    BY DEF AsyncRead, AsyncWrite, Read, Write, SyncIo
  <2>1. PICK off \in 0..(ExtentSize - 1), len \in 1..(ExtentSize * 2) :
          LET r == <<h, app[h].k + 1>>
              n == splitUserRequest(off, len)
          IN  IF n > 2
              THEN /\ ureq' = [ureq EXCEPT ![r] = Gone]
                   /\ app' = [app EXCEPT ![h].k = @ + 1]
                   /\ UNCHANGED inflight
              ELSE /\ ureq' = [ureq EXCEPT ![r] = [NoIo EXCEPT !.n = n, !.ref = n,
                                                               !.status = "ok", !.pc = "live"]]
                   /\ inflight' = [inflight EXCEPT ![h] = @ + 1]
                   /\ app' = [app EXCEPT ![h] = [pc |-> "submit", k |-> @.k + 1, n |-> n, i |-> 1]]
    BY <1>2 DEF doUserRequest
  <2>2. PICK n \in Int : n = splitUserRequest(off, len) /\ n >= 1
    BY SplitFacts
  <2>3. UNCHANGED <<freed, senders, rpc, final>>
    BY <1>2 DEF doUserRequest
  <2>4. CASE n > 2
    BY <2>0, <2>1, <2>2, <2>3, <2>4, RefusedKeeps
  <2>5. CASE ~(n > 2)
    <3>1. n \in {1, 2}
      BY <2>2, <2>5
    <3> QED
      BY <2>0, <2>1, <2>2, <2>3, <2>5, <3>1, AcceptedKeeps
  <2> QED
    BY <2>4, <2>5
<1> QED
  BY <1>1, <1>2 DEF AsyncRead, AsyncWrite, Read, Write

-----------------------------------------------------------------------------
(* The ring of one sender changes.                                         *)
LEMMA RingMoves ==
  ASSUME Typed, Sizes, NEW s \in Senders, NEW q \in Seq(Parts), ring' = [ring EXCEPT ![s] = q]
  PROVE  /\ ring' \in [Senders -> Seq(Parts)] /\ ring'[s] = q
         /\ \A u \in Senders : u # s => ring'[u] = ring[u]
         /\ \A p \in Parts : SenderOf(p) # s => (InRing(p)' <=> InRing(p))
         /\ \A p \in Parts : SenderOf(p) = s => (InRing(p)' <=> p \in Elems(q))
<1>1. /\ ring' \in [Senders -> Seq(Parts)] /\ ring'[s] = q
      /\ \A u \in Senders : u # s => ring'[u] = ring[u]
  BY DEF Typed
<1>2. ASSUME NEW p \in Parts, SenderOf(p) # s
      PROVE  InRing(p)' <=> InRing(p)
  <2>1. ring'[SenderOf(p)] = ring[SenderOf(p)]
    BY <1>1, <1>2, SenderIn
  <2> QED
    BY <2>1 DEF InRing, Elems, SenderOf
<1>3. ASSUME NEW p \in Parts, SenderOf(p) = s
      PROVE  InRing(p)' <=> p \in Elems(q)
  BY <1>1, <1>3 DEF InRing, Elems, SenderOf
<1> QED
  BY <1>1, <1>2, <1>3

(* The first part is taken from a ring.                                    *)
LEMMA Taken ==
  ASSUME Inv, Sizes, NEW s \in Senders, ring[s] # <<>>, ring' = [ring EXCEPT ![s] = Tail(@)],
         NEW x, x = Head(ring[s])
  PROVE  /\ x \in Parts /\ InRing(x)
         /\ ring' \in [Senders -> Seq(Parts)] /\ \A u \in Senders : Len(ring'[u]) <= RingCap
         /\ \A u \in Senders : Distinct(ring'[u]) /\ \A p \in Elems(ring'[u]) : SenderOf(p) = u
         /\ \A u \in Senders : ring[u] = <<>> => ring'[u] = <<>>
         /\ \A p \in Parts : InRing(p)' <=> InRing(p) /\ p # x
<1> USE DEF Inv
<1>1. PICK q \in Seq(Parts) : q = ring[s] /\ q # <<>>
  BY DEF Typed
<1>2. Distinct(q) /\ \A p \in Elems(q) : SenderOf(p) = s
  BY <1>1 DEF OncePlaced
<1>3. PICK z : z = Tail(q)
  OBVIOUS
<1>4. /\ x \in Parts /\ x \in Elems(q) /\ z \in Seq(Parts) /\ Len(z) = Len(q) - 1
      /\ Distinct(z) /\ Elems(z) = Elems(q) \ {x}
  BY <1>1, <1>2, <1>3, TailFacts
<1>5. SenderOf(x) = s
  BY <1>2, <1>4
<1>6. InRing(x)
  BY <1>1, <1>4, <1>5 DEF InRing
<1>7. ring' = [ring EXCEPT ![s] = z]
  BY <1>1, <1>3
<1>8. /\ ring' \in [Senders -> Seq(Parts)] /\ ring'[s] = z
      /\ \A u \in Senders : u # s => ring'[u] = ring[u]
      /\ \A p \in Parts : SenderOf(p) # s => (InRing(p)' <=> InRing(p))
      /\ \A p \in Parts : SenderOf(p) = s => (InRing(p)' <=> p \in Elems(z))
  BY <1>4, <1>7, RingMoves
<1>9. Len(z) <= RingCap
  BY <1>1, <1>4 DEF Typed, Sizes
<1>10. \A u \in Senders : Len(ring'[u]) <= RingCap
  BY <1>8, <1>9 DEF Typed
<1>11. \A u \in Senders : Distinct(ring'[u]) /\ \A p \in Elems(ring'[u]) : SenderOf(p) = u
  BY <1>2, <1>4, <1>8 DEF OncePlaced
<1>12. ASSUME NEW p \in Parts
       PROVE  InRing(p)' <=> InRing(p) /\ p # x
  <2>1. CASE SenderOf(p) = s
    BY <1>1, <1>4, <1>8, <2>1 DEF InRing
  <2>2. CASE SenderOf(p) # s
    BY <1>5, <1>8, <2>2
  <2> QED
    BY <2>1, <2>2
<1> QED
  BY <1>1, <1>4, <1>6, <1>8, <1>10, <1>11, <1>12

(* What a part's end leaves, wherever the part was.                        *)
LEMMA PartDone ==
  ASSUME Inv, NEW q \in Ios, NEW j \in {1, 2}, NEW st \in {"ok", "fail", "crc"}, Out(q, j),
         ureq' = [ureq EXCEPT ![q] = AfterPart(q, st)],
         \A r \in Ios, i \in {1, 2} : Out(r, i)' <=> (Out(r, i) /\ ~(r = q /\ i = j)),
         \A h \in Handles : app'[h].k = app[h].k,
         \A h \in Handles : app[h].pc = "closed" => app'[h] = app[h],
         UNCHANGED <<inflight, freed>>
  PROVE  RefsOK' /\ TruthOK' /\ ureq' \in [Ios -> ReqRecs] /\ InflightOK' /\ FreedOK'
<1> USE DEF Inv
<1>1. /\ RefsOK' /\ TruthOK' /\ ureq' \in [Ios -> ReqRecs]
      /\ \A r \in Ios : ureq'[r].pc \in {"live", "told"} <=> ureq[r].pc \in {"live", "told"}
  BY RefsDone
<1>2. \A h \in Handles : OpenIos(h)' = OpenIos(h)
  BY <1>1, OpenSame
<1> QED
  BY <1>1, <1>2 DEF InflightOK, FreedOK

(* A sender sends a part.                                                  *)
LEMMA DrainKeeps ==
  ASSUME Inv, Sizes, NEW s \in Senders, SenderDrains(s)
  PROVE  Inv'
<1> USE DEF Inv
<1>1. CASE ring[s] = <<>>
  <2>1. /\ sender' \in [Senders -> {"check", "wait", "sleep", "drain", "expire", "exit"}]
        /\ sender'[s] = "check" /\ \A u \in Senders : u # s => sender'[u] = sender[u]
    BY <1>1 DEF SenderDrains, Typed
  <2>2. UNCHANGED <<app, ureq, inflight, freed, ring, event, sem, stop, rpc, final>>
    BY <1>1 DEF SenderDrains
  <2>3. StopOK' /\ RingsEmptied'
    BY <2>1, <2>2 DEF StopOK, RingsEmptied
  <2> QED
    BY <2>1, <2>2, <2>3, SenderKeeps DEF Typed
<1>2. CASE ring[s] # <<>>
  <2>1. PICK x : x = Head(ring[s])
    OBVIOUS
  <2>2. /\ ring' = [ring EXCEPT ![s] = Tail(@)] /\ rpc' = rpc \cup {x}
        /\ UNCHANGED <<app, ureq, inflight, freed, event, sem, stop, sender, final>>
    BY <1>2, <2>1 DEF SenderDrains, AsyncCall
  <2>3. /\ x \in Parts /\ InRing(x)
        /\ ring' \in [Senders -> Seq(Parts)] /\ \A u \in Senders : Len(ring'[u]) <= RingCap
        /\ \A u \in Senders : Distinct(ring'[u]) /\ \A p \in Elems(ring'[u]) : SenderOf(p) = u
        /\ \A u \in Senders : ring[u] = <<>> => ring'[u] = <<>>
        /\ \A p \in Parts : InRing(p)' <=> InRing(p) /\ p # x
    BY <1>2, <2>1, <2>2, Taken
  <2>4. Typed'
    BY <2>2, <2>3 DEF Typed
  <2>5. \A r \in Ios, i \in {1, 2} : ToSend(r, i)' <=> ToSend(r, i)
    BY <2>2 DEF ToSend
  <2>6. x[1] \in Ios /\ x[2] \in {1, 2} /\ x = <<x[1], x[2]>>
    BY <2>3, IoFacts
  <2>7. ~ToSend(x[1], x[2]) /\ x \notin rpc
    BY <2>3, <2>6 DEF OncePlaced
  <2>8. ASSUME NEW r \in Ios, NEW i \in {1, 2}
        PROVE  /\ ~(ToSend(r, i)' /\ InRing(<<r, i>>)')
               /\ ~(ToSend(r, i)' /\ <<r, i>> \in rpc')
               /\ ~(InRing(<<r, i>>)' /\ <<r, i>> \in rpc')
               /\ Out(r, i)' <=> Out(r, i)
    <3>1. <<r, i>> \in Parts /\ (<<r, i>> = x => r = x[1] /\ i = x[2])
      BY IoFacts
    <3>2. /\ ~(ToSend(r, i) /\ InRing(<<r, i>>)) /\ ~(ToSend(r, i) /\ <<r, i>> \in rpc)
          /\ ~(InRing(<<r, i>>) /\ <<r, i>> \in rpc)
      BY DEF OncePlaced
    <3>3. InRing(<<r, i>>)' <=> InRing(<<r, i>>) /\ <<r, i>> # x
      BY <2>3, <3>1
    <3>4. <<r, i>> \in rpc' <=> <<r, i>> \in rpc \/ <<r, i>> = x
      BY <2>2
    <3>5. ToSend(r, i)' <=> ToSend(r, i)
      BY <2>5
    <3>6. CASE <<r, i>> = x
      BY <2>3, <2>7, <3>1, <3>2, <3>3, <3>4, <3>5, <3>6 DEF Out
    <3>7. CASE <<r, i>> # x
      BY <3>2, <3>3, <3>4, <3>5, <3>7 DEF Out
    <3> QED
      BY <3>6, <3>7
  <2>9. OncePlaced'
    BY <2>3, <2>8 DEF OncePlaced, Distinct, Elems
  <2>10. RefsOK'
    BY <2>2, <2>8, RefsSame
  <2>11. AppOK' /\ InflightOK' /\ FreedOK' /\ StopOK' /\ TruthOK'
    BY <2>2 DEF AppOK, InflightOK, FreedOK, StopOK, TruthOK, OpenIos
  <2>12. RingsEmptied'
    BY <2>2, <2>3 DEF RingsEmptied
  <2> QED
    BY <2>4, <2>9, <2>10, <2>11, <2>12
<1> QED
  BY <1>1, <1>2

(* A stopped sender expires a part.                                        *)
LEMMA ExpireKeeps ==
  ASSUME Inv, Sizes, NEW s \in Senders, SenderExpires(s)
  PROVE  Inv'
<1> USE DEF Inv
<1>1. CASE ring[s] = <<>>
  <2>1. /\ sender' \in [Senders -> {"check", "wait", "sleep", "drain", "expire", "exit"}]
        /\ sender'[s] = "exit" /\ \A u \in Senders : u # s => sender'[u] = sender[u]
    BY <1>1 DEF SenderExpires, Typed
  <2>2. /\ UNCHANGED <<app, ureq, inflight, freed, ring, event, sem, stop, rpc, final>>
        /\ sender[s] = "expire"
    BY <1>1 DEF SenderExpires
  <2>3. StopOK' /\ RingsEmptied'
    BY <1>1, <2>1, <2>2 DEF StopOK, RingsEmptied
  <2> QED
    BY <2>1, <2>2, <2>3, SenderKeeps DEF Typed
<1>2. CASE ring[s] # <<>>
  <2>1. PICK x : x = Head(ring[s])
    OBVIOUS
  <2>2. /\ ring' = [ring EXCEPT ![s] = Tail(@)] /\ ureq' = [ureq EXCEPT ![x[1]] = AfterPart(x[1], "fail")]
        /\ UNCHANGED <<app, inflight, freed, event, sem, stop, sender, rpc, final>>
    BY <1>2, <2>1 DEF SenderExpires, SetExpired
  <2>3. /\ x \in Parts /\ InRing(x)
        /\ ring' \in [Senders -> Seq(Parts)] /\ \A u \in Senders : Len(ring'[u]) <= RingCap
        /\ \A u \in Senders : Distinct(ring'[u]) /\ \A p \in Elems(ring'[u]) : SenderOf(p) = u
        /\ \A u \in Senders : ring[u] = <<>> => ring'[u] = <<>>
        /\ \A p \in Parts : InRing(p)' <=> InRing(p) /\ p # x
    BY <1>2, <2>1, <2>2, Taken
  <2>5. \A r \in Ios, i \in {1, 2} : ToSend(r, i)' <=> ToSend(r, i)
    BY <2>2 DEF ToSend
  <2>6. PICK q \in Ios, j \in {1, 2} : x = <<q, j>> /\ x[1] = q
    BY <2>3, IoFacts
  <2>7. ~ToSend(q, j) /\ x \notin rpc /\ Out(q, j)
    BY <2>3, <2>6 DEF OncePlaced, Out
  <2>8. ASSUME NEW r \in Ios, NEW i \in {1, 2}
        PROVE  /\ ~(ToSend(r, i)' /\ InRing(<<r, i>>)')
               /\ ~(ToSend(r, i)' /\ <<r, i>> \in rpc')
               /\ ~(InRing(<<r, i>>)' /\ <<r, i>> \in rpc')
               /\ Out(r, i)' <=> Out(r, i) /\ ~(r = q /\ i = j)
    <3>1. <<r, i>> \in Parts /\ (<<r, i>> = x <=> r = q /\ i = j)
      BY <2>6, IoFacts
    <3>2. /\ ~(ToSend(r, i) /\ InRing(<<r, i>>)) /\ ~(ToSend(r, i) /\ <<r, i>> \in rpc)
          /\ ~(InRing(<<r, i>>) /\ <<r, i>> \in rpc)
      BY DEF OncePlaced
    <3>3. InRing(<<r, i>>)' <=> InRing(<<r, i>>) /\ <<r, i>> # x
      BY <2>3, <3>1
    <3>4. <<r, i>> \in rpc' <=> <<r, i>> \in rpc
      BY <2>2
    <3>5. ToSend(r, i)' <=> ToSend(r, i)
      BY <2>5
    <3>6. CASE <<r, i>> = x
      BY <2>7, <3>1, <3>2, <3>3, <3>4, <3>5, <3>6 DEF Out
    <3>7. CASE <<r, i>> # x
      BY <3>1, <3>2, <3>3, <3>4, <3>5, <3>7 DEF Out
    <3> QED
      BY <3>6, <3>7
  <2>9. OncePlaced'
    BY <2>3, <2>8 DEF OncePlaced, Distinct, Elems
  <2>10. RefsOK' /\ TruthOK' /\ ureq' \in [Ios -> ReqRecs] /\ InflightOK' /\ FreedOK'
    <3>1. ureq' = [ureq EXCEPT ![q] = AfterPart(q, "fail")]
      BY <2>2, <2>6
    <3>2. \A r \in Ios, i \in {1, 2} : Out(r, i)' <=> (Out(r, i) /\ ~(r = q /\ i = j))
      BY <2>8
    <3> QED
      BY <2>2, <2>7, <3>1, <3>2, PartDone, ZenonT(30)
  <2>11. Typed'
    BY <2>2, <2>3, <2>10 DEF Typed
  <2>12. AppOK' /\ StopOK'
    BY <2>2 DEF AppOK, StopOK
  <2>13. RingsEmptied'
    BY <2>2, <2>3 DEF RingsEmptied
  <2> QED
    BY <2>9, <2>10, <2>11, <2>12, <2>13
<1> QED
  BY <1>1, <1>2

(* A thread at the submission of a part: the part, its sender, and what is *)
(* known of them.                                                          *)
LEMMA AtPart ==
  ASSUME Inv, Sizes, NEW h \in Handles, app[h].pc = "submit", NEW q, q = Io(h), NEW j, j = app[h].i
  PROVE  /\ q \in Ios /\ q[1] = h /\ q[2] = app[h].k /\ j \in {1, 2} /\ Part(h) = <<q, j>> /\ <<q, j>> \in Parts
         /\ ToSend(q, j) /\ ~InRing(<<q, j>>) /\ <<q, j>> \notin rpc
         /\ SenderOf(<<q, j>>) \in Senders
         /\ ~freed[h] /\ app[h].i >= 1 /\ app[h].i <= app[h].n
<1> USE DEF Inv
<1>1. PICK a \in AppRecs : a = app[h] /\ a.pc = "submit" /\ a.k >= 1 /\ a.i >= 1 /\ a.i <= a.n
  BY DEF Typed, AppOK, InCall
<1>2. a.k \in 1..MaxIo /\ a.i \in {1, 2} /\ a.n \in 0..2
  BY <1>1 DEF AppRecs, Sizes
<1>3. q = <<h, a.k>> /\ q \in Ios /\ <<q, j>> \in Parts /\ Part(h) = <<q, j>> /\ q[1] = h /\ q[2] = a.k
  BY <1>1, <1>2, IoFacts DEF Io, Part
<1>4. ToSend(q, j)
  BY <1>1, <1>2, <1>3 DEF ToSend, Ahead
<1>5. ~InRing(<<q, j>>) /\ <<q, j>> \notin rpc
  BY <1>1, <1>2, <1>3, <1>4 DEF OncePlaced
<1>6. ~freed[h]
  BY <1>1 DEF FreedOK
<1> QED
  BY <1>1, <1>2, <1>3, <1>4, <1>5, <1>6, SenderIn

(* No router is found for a part.                                          *)
LEMMA NoRouterKeeps ==
  ASSUME Inv, Sizes, NEW h \in Handles, NoRouter(h)
  PROVE  Inv'
<1> USE DEF Inv
<1>0. PICK q, j : q = Io(h) /\ j = app[h].i
  OBVIOUS
<1>1. /\ q \in Ios /\ q[1] = h /\ q[2] = app[h].k /\ j \in {1, 2} /\ <<q, j>> \in Parts
      /\ ToSend(q, j) /\ ~InRing(<<q, j>>) /\ <<q, j>> \notin rpc
      /\ ~freed[h] /\ app[h].i >= 1 /\ app[h].i <= app[h].n
  BY <1>0, AtPart DEF NoRouter
<1>2. PICK a \in AppRecs : a = app[h] /\ a.pc = "submit" /\ a.i = j
  BY <1>0 DEF NoRouter, Typed
<1>3. PICK b : b = NextPart(a)
  OBVIOUS
<1>4. /\ b \in AppRecs /\ b.k = a.k /\ b.pc \in {"idle", "submit"}
      /\ b.pc = "submit" => b.i >= 1 /\ b.i <= b.n
      /\ \A i \in {1, 2} : Ahead(b, i) <=> (i > a.i /\ i <= a.n)
  BY <1>1, <1>2, <1>3, NextPartFacts DEF InCall
<1>5. app' = [app EXCEPT ![h] = b] /\ b \in AppRecs /\ Typed
  BY <1>2, <1>3, <1>4 DEF NoRouter
<1>6. /\ app' \in [Handles -> AppRecs] /\ app'[h] = b
      /\ \A g \in Handles : g # h => app'[g] = app[g]
      /\ \A r \in Ios, i \in {1, 2} : r[1] # h => (ToSend(r, i)' <=> ToSend(r, i))
      /\ \A r \in Ios, i \in {1, 2} : r[1] = h => (ToSend(r, i)' <=> (b.k = r[2] /\ Ahead(b, i)))
  BY <1>5, ThreadMoves, ZenonT(30)
<1>7. /\ ureq' = [ureq EXCEPT ![q] = AfterPart(q, "fail")]
      /\ UNCHANGED <<inflight, freed, ring, event, sem, stop, sender, rpc, final>>
  BY <1>0 DEF NoRouter, senders
<1>8. ASSUME NEW r \in Ios, NEW i \in {1, 2}
      PROVE  ToSend(r, i)' <=> (ToSend(r, i) /\ ~(r = q /\ i = j))
  <2>1. CASE r[1] # h
    BY <1>1, <1>6, <2>1
  <2>2. CASE r[1] = h
    <3>1. r = q <=> r[2] = a.k
      BY <1>1, <1>2, <2>2, IoFacts
    <3>2. ToSend(r, i) <=> r = q /\ i >= j /\ i <= a.n
      BY <1>2, <2>2, <3>1 DEF ToSend, Ahead
    <3>3. ToSend(r, i)' <=> r = q /\ i > j /\ i <= a.n
      BY <1>2, <1>4, <1>6, <2>2, <3>1
    <3>4. i > j <=> i >= j /\ i # j
      BY <1>1
    <3> QED
      BY <3>2, <3>3, <3>4
  <2> QED
    BY <2>1, <2>2
<1>9. OncePlaced'
  BY <1>7, <1>8, AppPlaces
<1>10. \A r \in Ios, i \in {1, 2} : Out(r, i)' <=> (Out(r, i) /\ ~(r = q /\ i = j))
  <2> SUFFICES ASSUME NEW r \in Ios, NEW i \in {1, 2}
               PROVE  Out(r, i)' <=> (Out(r, i) /\ ~(r = q /\ i = j))
    OBVIOUS
  <2>1. (InRing(<<r, i>>)' <=> InRing(<<r, i>>)) /\ (<<r, i>> \in rpc' <=> <<r, i>> \in rpc)
    BY <1>7 DEF InRing, Elems
  <2> QED
    BY <1>1, <1>8, <2>1 DEF Out
<1>11. (\A g \in Handles : app'[g].k = app[g].k) /\ \A g \in Handles : app[g].pc = "closed" => app'[g] = app[g]
  BY <1>2, <1>4, <1>6
<1>12. RefsOK' /\ TruthOK' /\ ureq' \in [Ios -> ReqRecs] /\ InflightOK' /\ FreedOK'
  <2>1. Out(q, j)
    BY <1>1 DEF Out
  <2> QED
    BY <1>1, <1>7, <1>10, <1>11, <2>1, PartDone
<1>13. Typed'
  BY <1>6, <1>7, <1>12 DEF Typed
<1>14. AppOK'
  <2> SUFFICES ASSUME NEW g \in Handles, app'[g].pc \in InCall
               PROVE  app'[g].k >= 1 /\ app'[g].i >= 1 /\ app'[g].i <= app'[g].n
    BY DEF AppOK
  <2>1. CASE g = h
    <3>1. b.pc = "submit"
      BY <1>4, <1>6, <2>1 DEF InCall
    <3>2. a.k >= 1
      BY <1>2 DEF AppOK, InCall
    <3> QED
      BY <1>4, <1>6, <2>1, <3>1, <3>2
  <2>2. CASE g # h
    BY <1>6, <2>2 DEF AppOK
  <2> QED
    BY <2>1, <2>2
<1>15. StopOK'
  <2>1. final \notin {"stop", "done"}
    BY <1>2 DEF StopOK, InCall
  <2> QED
    BY <1>7, <2>1 DEF StopOK
<1>16. RingsEmptied'
  BY <1>7 DEF RingsEmptied
<1> QED
  BY <1>9, <1>12, <1>13, <1>14, <1>15, <1>16

(* A part is pushed: no sender has ended, as a thread is in a call.        *)
LEMMA PushKeeps ==
  ASSUME Inv, Sizes, NEW h \in Handles, Push(h)
  PROVE  Inv'
<1> USE DEF Inv
<1>0. PICK q, j : q = Io(h) /\ j = app[h].i
  OBVIOUS
<1>1. /\ q \in Ios /\ q[1] = h /\ q[2] = app[h].k /\ j \in {1, 2} /\ Part(h) = <<q, j>> /\ <<q, j>> \in Parts
      /\ ToSend(q, j) /\ ~InRing(<<q, j>>) /\ <<q, j>> \notin rpc
      /\ SenderOf(<<q, j>>) \in Senders
      /\ ~freed[h] /\ app[h].i >= 1 /\ app[h].i <= app[h].n
  BY <1>0, AtPart DEF Push
<1>2. PICK a \in AppRecs : a = app[h] /\ a.pc = "submit" /\ a.i = j
  BY <1>0 DEF Push, Typed
<1>3. PICK x \in Parts, s \in Senders : x = <<q, j>> /\ s = SenderOf(x)
  BY <1>1
<1>4. PICK b : b = [a EXCEPT !.pc = "signal"]
  OBVIOUS
<1>5. b \in AppRecs /\ b.k = a.k /\ b.pc = "signal" /\ b.i = a.i /\ b.n = a.n
  BY <1>4 DEF AppRecs, InCall
<1>6. app' = [app EXCEPT ![h] = b]
  BY <1>2, <1>4 DEF Push
<1>7. /\ app' \in [Handles -> AppRecs] /\ app'[h] = b
      /\ \A g \in Handles : g # h => app'[g] = app[g]
      /\ \A r \in Ios, i \in {1, 2} : r[1] # h => (ToSend(r, i)' <=> ToSend(r, i))
      /\ \A r \in Ios, i \in {1, 2} : r[1] = h => (ToSend(r, i)' <=> (b.k = r[2] /\ Ahead(b, i)))
  BY <1>5, <1>6, ThreadMoves, ZenonT(30)
<1>8. PICK c \in Seq(Parts) : c = ring[s]
  BY DEF Typed
<1>9. Distinct(c) /\ (\A p \in Elems(c) : SenderOf(p) = s) /\ x \notin Elems(c)
  BY <1>1, <1>3, <1>8 DEF OncePlaced, InRing
<1>10. PICK z : z = Append(c, x)
  OBVIOUS
<1>11. z \in Seq(Parts) /\ Len(z) = Len(c) + 1 /\ Elems(z) = Elems(c) \cup {x} /\ Distinct(z)
  BY <1>9, <1>10, AppendFacts
<1>12. /\ ring' = [ring EXCEPT ![s] = z] /\ Len(c) < RingCap
       /\ UNCHANGED <<ureq, inflight, freed, event, sem, stop, sender, rpc, final>>
  BY <1>1, <1>3, <1>8, <1>10 DEF Push
<1>13. /\ ring' \in [Senders -> Seq(Parts)] /\ ring'[s] = z
       /\ \A u \in Senders : u # s => ring'[u] = ring[u]
       /\ \A p \in Parts : SenderOf(p) # s => (InRing(p)' <=> InRing(p))
       /\ \A p \in Parts : SenderOf(p) = s => (InRing(p)' <=> p \in Elems(z))
  BY <1>11, <1>12, RingMoves
<1>14. Len(z) <= RingCap
  BY <1>11, <1>12 DEF Sizes
<1>15. Typed'
  <2>1. \A u \in Senders : Len(ring'[u]) <= RingCap
    BY <1>13, <1>14 DEF Typed
  <2> QED
    BY <1>7, <1>12, <1>13, <2>1 DEF Typed
<1>16. ASSUME NEW r \in Ios, NEW i \in {1, 2}
       PROVE  ToSend(r, i)' <=> (ToSend(r, i) /\ ~(r = q /\ i = j))
  <2>1. CASE r[1] # h
    BY <1>1, <1>7, <2>1
  <2>2. CASE r[1] = h
    <3>1. r = q <=> r[2] = a.k
      BY <1>1, <1>2, <2>2, IoFacts
    <3>2. ToSend(r, i) <=> r = q /\ i >= j /\ i <= a.n
      BY <1>2, <2>2, <3>1 DEF ToSend, Ahead
    <3>3. ToSend(r, i)' <=> r = q /\ i > j /\ i <= a.n
      BY <1>2, <1>5, <1>7, <2>2, <3>1 DEF Ahead
    <3>4. i > j <=> i >= j /\ i # j
      BY <1>1
    <3> QED
      BY <3>2, <3>3, <3>4
  <2> QED
    BY <2>1, <2>2
<1>17. ASSUME NEW r \in Ios, NEW i \in {1, 2}
       PROVE  InRing(<<r, i>>)' <=> (InRing(<<r, i>>) \/ (r = q /\ i = j))
  <2>1. <<r, i>> \in Parts /\ (<<r, i>> = x <=> (r = q /\ i = j))
    BY <1>3, IoFacts
  <2>2. CASE SenderOf(<<r, i>>) = s
    BY <1>8, <1>11, <1>13, <2>1, <2>2 DEF InRing
  <2>3. CASE SenderOf(<<r, i>>) # s
    BY <1>3, <1>13, <2>1, <2>3
  <2> QED
    BY <2>2, <2>3
<1>18. \A u \in Senders : Distinct(ring'[u]) /\ \A p \in Elems(ring'[u]) : SenderOf(p) = u
  BY <1>3, <1>9, <1>11, <1>13 DEF OncePlaced
<1>19. ASSUME NEW r \in Ios, NEW i \in {1, 2}
       PROVE  /\ ~(ToSend(r, i)' /\ InRing(<<r, i>>)')
              /\ ~(ToSend(r, i)' /\ <<r, i>> \in rpc')
              /\ ~(InRing(<<r, i>>)' /\ <<r, i>> \in rpc')
              /\ Out(r, i)' <=> Out(r, i)
  <2>1. /\ ~(ToSend(r, i) /\ InRing(<<r, i>>)) /\ ~(ToSend(r, i) /\ <<r, i>> \in rpc)
        /\ ~(InRing(<<r, i>>) /\ <<r, i>> \in rpc)
    BY DEF OncePlaced
  <2>2. <<r, i>> \in rpc' <=> <<r, i>> \in rpc
    BY <1>12
  <2> QED
    BY <1>1, <1>16, <1>17, <2>1, <2>2 DEF Out
<1>20. OncePlaced'
  BY <1>18, <1>19 DEF OncePlaced, Distinct, Elems
<1>21. RefsOK'
  <2>1. \A g \in Handles : app'[g].k = app[g].k
    BY <1>2, <1>5, <1>7
  <2> QED
    BY <1>12, <1>19, <2>1, RefsSame
<1>22. AppOK'
  <2> SUFFICES ASSUME NEW g \in Handles, app'[g].pc \in InCall
               PROVE  app'[g].k >= 1 /\ app'[g].i >= 1 /\ app'[g].i <= app'[g].n
    BY DEF AppOK
  <2>1. CASE g = h
    <3>1. a.k >= 1 /\ a.i >= 1 /\ a.i <= a.n
      BY <1>2 DEF AppOK, InCall
    <3> QED
      BY <1>5, <1>7, <2>1, <3>1
  <2>2. CASE g # h
    BY <1>7, <2>2 DEF AppOK
  <2> QED
    BY <2>1, <2>2
<1>23. InflightOK' /\ TruthOK'
  BY <1>12 DEF InflightOK, TruthOK, OpenIos
<1>24. FreedOK'
  <2>1. \A g \in Handles : OpenIos(g)' = OpenIos(g)
    BY <1>12 DEF OpenIos
  <2> QED
    BY <1>1, <1>7, <1>12, <2>1 DEF FreedOK
<1>25. final \notin {"stop", "done"}
  BY <1>2 DEF StopOK, InCall
<1>26. StopOK'
  BY <1>12, <1>25 DEF StopOK
<1>27. RingsEmptied'
  BY <1>12, <1>25 DEF StopOK, RingsEmptied
<1> QED
  BY <1>15, <1>20, <1>21, <1>22, <1>23, <1>24, <1>26, <1>27

(* A call has come back.                                                   *)
LEMMA RpcKeeps ==
  ASSUME Inv, NEW x \in Parts, ReadDone(x) \/ WriteDone(x)
  PROVE  Inv'
<1> USE DEF Inv
<1>1. PICK q \in Ios, j \in {1, 2} : x = <<q, j>> /\ x[1] = q
  BY IoFacts
<1>2. PICK st \in {"ok", "fail", "crc"} : ureq' = [ureq EXCEPT ![q] = AfterPart(q, st)]
  BY <1>1 DEF ReadDone, WriteDone, RpcDone
<1>3. /\ x \in rpc /\ rpc' = rpc \ {x}
      /\ UNCHANGED <<app, inflight, freed, ring, event, sem, stop, sender, final>>
  BY DEF ReadDone, WriteDone, RpcDone, senders
<1>4. ASSUME NEW r \in Ios, NEW i \in {1, 2}
      PROVE  /\ ToSend(r, i)' <=> ToSend(r, i)
             /\ InRing(<<r, i>>)' <=> InRing(<<r, i>>)
             /\ <<r, i>> \in rpc' <=> (<<r, i>> \in rpc /\ ~(r = q /\ i = j))
  BY <1>1, <1>3 DEF ToSend, InRing, Elems
<1>5. ~ToSend(q, j) /\ ~InRing(<<q, j>>) /\ Out(q, j)
  BY <1>1, <1>3 DEF OncePlaced, Out
<1>6. \A r \in Ios, i \in {1, 2} : Out(r, i)' <=> (Out(r, i) /\ ~(r = q /\ i = j))
  BY <1>4, <1>5 DEF Out
<1>7. OncePlaced'
  <2>1. ASSUME NEW r \in Ios, NEW i \in {1, 2}
        PROVE  /\ ~(ToSend(r, i)' /\ InRing(<<r, i>>)')
               /\ ~(ToSend(r, i)' /\ <<r, i>> \in rpc')
               /\ ~(InRing(<<r, i>>)' /\ <<r, i>> \in rpc')
    BY <1>4 DEF OncePlaced
  <2>2. \A s \in Senders : Distinct(ring'[s]) /\ \A p \in Elems(ring'[s]) : SenderOf(p) = s
    BY <1>3 DEF OncePlaced
  <2> QED
    BY <2>1, <2>2 DEF OncePlaced, Distinct, Elems
<1>8. RefsOK' /\ TruthOK' /\ ureq' \in [Ios -> ReqRecs] /\ InflightOK' /\ FreedOK'
  BY <1>2, <1>3, <1>5, <1>6, PartDone
<1>9. Typed'
  BY <1>3, <1>8 DEF Typed
<1>10. AppOK' /\ StopOK' /\ RingsEmptied'
  BY <1>3 DEF AppOK, StopOK, RingsEmptied
<1> QED
  BY <1>7, <1>8, <1>9, <1>10

(* A request is deleted after the user's callback.                         *)
LEMMA GoneKeeps ==
  ASSUME Inv, Sizes, NEW q \in Ios, RequestGone(q)
  PROVE  Inv'
<1> USE DEF Inv
<1>1. PICK h \in Handles : h = q[1]
  BY IoFacts
<1>2. PICK m \in Int : m = inflight[h]
  BY DEF Typed
<1>3. /\ ureq[q].pc = "told" /\ ureq' = [ureq EXCEPT ![q] = Gone]
      /\ inflight' = [inflight EXCEPT ![h] = m - 1]
      /\ UNCHANGED <<app, freed, ring, event, sem, stop, sender, rpc, final>>
  BY <1>1, <1>2 DEF RequestGone, senders
<1>4. Gone \in ReqRecs /\ Gone.pc = "gone" /\ Gone.status = "none"
  BY GoneFacts
<1>5. ureq' \in [Ios -> ReqRecs] /\ ureq'[q] = Gone /\ \A r \in Ios : r # q => ureq'[r] = ureq[r]
  BY <1>3, <1>4 DEF Typed
<1>6. /\ inflight' \in [Handles -> Int] /\ inflight'[h] = m - 1
      /\ \A g \in Handles : g # h => inflight'[g] = inflight[g]
  <2>1. m - 1 \in Int
    OBVIOUS
  <2> QED
    BY <1>3, <2>1 DEF Typed
<1>7. Typed'
  BY <1>3, <1>5, <1>6 DEF Typed
<1>8. ASSUME NEW r \in Ios, NEW i \in {1, 2}
      PROVE  (ToSend(r, i)' <=> ToSend(r, i)) /\ (Out(r, i)' <=> Out(r, i))
  BY <1>3 DEF ToSend, Out, InRing, Elems
<1>9. OncePlaced'
  BY <1>3, <1>8, AppPlaces
<1>10. ASSUME NEW r \in Ios
       PROVE  Counted(r)'
  <2>1. (Out(r, 1)' <=> Out(r, 1)) /\ (Out(r, 2)' <=> Out(r, 2))
    BY <1>8
  <2>2. One(Out(r, 1))' = One(Out(r, 1)) /\ One(Out(r, 2))' = One(Out(r, 2))
    BY <2>1 DEF One
  <2>3. CASE r = q
    <3>1. ~Out(r, 1)' /\ ~Out(r, 2)' /\ ~(r[2] > app'[r[1]].k)
      BY <1>3, <2>1, <2>3 DEF RefsOK, Counted
    <3>2. ureq'[r].pc = "gone"
      BY <1>4, <1>5, <2>3
    <3> QED
      BY <3>1, <3>2 DEF Counted
  <2>4. CASE r # q
    BY <1>3, <1>5, <2>1, <2>2, <2>4 DEF RefsOK, Counted
  <2> QED
    BY <2>3, <2>4
<1>11. RefsOK'
  BY <1>10 DEF RefsOK
<1>12. OpenIos(h)' = OpenIos(h) \ {q} /\ q \in OpenIos(h)
  BY <1>1, <1>3, <1>4, <1>5 DEF OpenIos
<1>13. \A g \in Handles : g # h => OpenIos(g)' = OpenIos(g)
  BY <1>1, <1>5 DEF OpenIos
<1>14. InflightOK'
  <2>1. Cardinality(OpenIos(h) \ {q}) = Cardinality(OpenIos(h)) - 1
    BY <1>12, OpenFinite, FS_RemoveElement
  <2>2. inflight'[h] = Cardinality(OpenIos(h)')
    BY <1>2, <1>6, <1>12, <2>1 DEF InflightOK
  <2>3. ASSUME NEW g \in Handles
        PROVE  inflight'[g] = Cardinality(OpenIos(g)')
    BY <1>6, <1>13, <2>2 DEF InflightOK
  <2> QED
    BY <2>3 DEF InflightOK
<1>15. FreedOK'
  BY <1>3, <1>12, <1>13 DEF FreedOK
<1>16. TruthOK'
  BY <1>4, <1>5 DEF TruthOK
<1>17. AppOK' /\ StopOK' /\ RingsEmptied'
  BY <1>3 DEF AppOK, StopOK, RingsEmptied
<1> QED
  BY <1>7, <1>9, <1>11, <1>14, <1>15, <1>16, <1>17

-----------------------------------------------------------------------------
(* Nothing is open, pushed or sent at the start.                           *)
LEMMA InitInv ==
  ASSUME Sizes, Init
  PROVE  Inv
<1>1. NotOpen \in AppRecs /\ NotOpen.pc = "new" /\ NotOpen.k = 0
  <2>1. 0 \in 0..MaxIo /\ 0 \in 0..2
    BY DEF Sizes
  <2>2. PICK a : a = [pc |-> "new", k |-> 0, n |-> 0, i |-> 0]
    OBVIOUS
  <2>3. a \in AppRecs /\ a.pc = "new" /\ a.k = 0
    BY <2>1, <2>2 DEF AppRecs
  <2> QED
    BY <2>2, <2>3 DEF NotOpen
<1>2. NoIo \in ReqRecs /\ NoIo.pc = "none" /\ NoIo.status = "none"
  <2>1. 0 \in 0..2
    OBVIOUS
  <2>2. PICK a : a = [n |-> 0, ref |-> 0, status |-> "none", pc |-> "none", bad |-> FALSE]
    OBVIOUS
  <2>3. a \in ReqRecs /\ a.pc = "none" /\ a.status = "none"
    BY <2>1, <2>2 DEF ReqRecs
  <2> QED
    BY <2>2, <2>3 DEF NoIo
<1>3. Typed
  <2>1. <<>> \in Seq(Parts) /\ Len(<<>>) = 0
    OBVIOUS
  <2>2. \A s \in Senders : ring[s] = <<>>
    BY DEF Init
  <2>3. \A s \in Senders : Len(ring[s]) <= RingCap
    BY <2>1, <2>2 DEF Sizes
  <2>4. app \in [Handles -> AppRecs] /\ ureq \in [Ios -> ReqRecs] /\ inflight \in [Handles -> Int]
    BY <1>1, <1>2 DEF Init
  <2>5. ring \in [Senders -> Seq(Parts)] /\ event \in [Senders -> BOOLEAN] /\ sem \in [Senders -> Nat]
    BY <2>1 DEF Init
  <2> QED
    BY <2>3, <2>4, <2>5 DEF Init, Typed
<1>4. \A h \in Handles : app[h] = NotOpen
  BY DEF Init
<1>5. \A r \in Ios : ureq[r] = NoIo
  BY DEF Init
<1>6. \A s \in Senders : ring[s] = <<>> /\ Elems(ring[s]) = {} /\ Distinct(ring[s])
  BY DEF Init, Elems, Distinct
<1>7. ASSUME NEW r \in Ios, NEW i \in {1, 2}
      PROVE  ~ToSend(r, i) /\ ~InRing(<<r, i>>) /\ <<r, i>> \notin rpc
  <2>1. app[r[1]] = NotOpen
    BY <1>4, IoFacts
  <2>2. <<r, i>> \in Parts
    BY IoFacts
  <2>3. SenderOf(<<r, i>>) \in Senders
    BY <2>2, SenderIn
  <2> QED
    BY <1>1, <1>6, <2>1, <2>3 DEF Init, ToSend, Ahead, InRing
<1>8. AppOK /\ OncePlaced
  BY <1>1, <1>4, <1>6, <1>7 DEF AppOK, OncePlaced, InCall
<1>9. RefsOK
  BY <1>2, <1>5, <1>7 DEF RefsOK, Counted, Out
<1>10. \A h \in Handles : OpenIos(h) = {}
  BY <1>2, <1>5 DEF OpenIos
<1>11. InflightOK /\ FreedOK
  BY <1>10, FS_EmptySet DEF Init, InflightOK, FreedOK
<1>12. StopOK
  BY <1>1, <1>4 DEF Init, StopOK
<1>13. RingsEmptied /\ TruthOK
  BY <1>2, <1>5, <1>6 DEF RingsEmptied, TruthOK
<1> QED
  BY <1>3, <1>8, <1>9, <1>11, <1>12, <1>13 DEF Inv

(* Every step keeps the invariant.                                         *)
LEMMA NextInv ==
  ASSUME Sizes, Inv, [Next]_vars
  PROVE  Inv'
<1>1. CASE UNCHANGED vars
  <2>1. UNCHANGED <<app, ureq, inflight, freed, ring, event, sem, stop, sender, rpc, final>>
    BY <1>1 DEF vars, senders
  <2>2. StopOK' /\ RingsEmptied'
    BY <2>1 DEF Inv, StopOK, RingsEmptied
  <2> QED
    BY <2>1, <2>2, SenderKeeps DEF Inv, Typed
<1>2. ASSUME NEW h \in Handles,
             Open(h) \/ AsyncRead(h) \/ AsyncWrite(h) \/ Read(h) \/ Write(h) \/ CloseBegins(h)
      PROVE  Inv'
  BY <1>2, HandleKeeps, CallKeeps
<1>3. ASSUME NEW h \in Handles, App(h)
      PROVE  Inv'
  BY <1>3, NoRouterKeeps, PushKeeps, SignalKeeps, HandleKeeps DEF App
<1>4. ASSUME NEW s \in Senders, Send(s) \/ StopSender(s)
      PROVE  Inv'
  BY <1>4, SendersKeep, DrainKeeps, ExpireKeeps DEF Send
<1>5. ASSUME NEW p \in Parts, ReadDone(p) \/ WriteDone(p)
      PROVE  Inv'
  BY <1>5, RpcKeeps
<1>6. ASSUME NEW r \in Ios, RequestGone(r)
      PROVE  Inv'
  BY <1>6, GoneKeeps
<1>7. CASE JoinSenders \/ StartSenderWorker \/ FinalizeBegins
  BY <1>7, SendersKeep
<1> QED
  BY <1>1, <1>2, <1>3, <1>4, <1>5, <1>6, <1>7 DEF Next, Steps

(* The counts of a request, of a handle and the places of a part agree in  *)
(* every state of the client's I/O path.                                   *)
THEOREM StreamInvariance ==
  ASSUME Sizes
  PROVE  Spec => []Inv
<1>1. Init => Inv
  BY InitInv
<1>2. Inv /\ [Next]_vars => Inv'
  BY NextInv
<1> QED
  BY <1>1, <1>2, PTL DEF Spec

(* When Close has returned and a handle's maps are freed, no part of its   *)
(* requests is in a ring or on its way, and no callback is outstanding.    *)
LEMMA NothingOut ==
  ASSUME Sizes, Inv
  PROVE  NothingOutWhenFreed
<1> SUFFICES ASSUME NEW h \in Handles, freed[h]
             PROVE  /\ \A p \in rpc : p[1][1] # h
                    /\ \A s \in Senders : \A i \in DOMAIN ring[s] : ring[s][i][1][1] # h
                    /\ \A r \in Ios : r[1] = h => ureq[r].pc \in {"none", "gone"}
  BY DEF NothingOutWhenFreed
<1>1. ASSUME NEW r \in Ios, r[1] = h
      PROVE  ureq[r].pc \in {"none", "gone"} /\ ~Out(r, 1) /\ ~Out(r, 2)
  <2>1. ureq[r].pc \notin {"live", "told"}
    BY <1>1 DEF Inv, FreedOK, OpenIos
  <2>2. ureq[r].pc \in {"none", "live", "told", "gone"}
    BY DEF Inv, Typed, ReqRecs
  <2> QED
    BY <2>1, <2>2 DEF Inv, RefsOK, Counted
<1>2. ASSUME NEW p \in rpc
      PROVE  p[1][1] # h
  <2>1. p \in Parts
    BY DEF Inv, Typed
  <2>2. p[1] \in Ios /\ p[2] \in {1, 2} /\ p = <<p[1], p[2]>>
    BY <2>1, IoFacts
  <2>3. Out(p[1], p[2])
    BY <2>2 DEF Out
  <2> QED
    BY <1>1, <2>2, <2>3
<1>3. ASSUME NEW s \in Senders, NEW i \in DOMAIN ring[s]
      PROVE  ring[s][i][1][1] # h
  <2>1. PICK c \in Seq(Parts) : c = ring[s]
    BY DEF Inv, Typed
  <2>2. i \in 1..Len(c)
    BY <1>3, <2>1
  <2>3. PICK p \in Parts : p = c[i] /\ p \in Elems(c)
    BY <2>1, <2>2 DEF Elems
  <2>4. InRing(p)
    BY <2>1, <2>3 DEF Inv, OncePlaced, InRing
  <2>5. p[1] \in Ios /\ p[2] \in {1, 2} /\ p = <<p[1], p[2]>>
    BY <2>3, IoFacts
  <2>6. Out(p[1], p[2])
    BY <2>4, <2>5 DEF Out
  <2> QED
    BY <1>1, <2>1, <2>3, <2>5, <2>6
<1> QED
  BY <1>1, <1>2, <1>3

(* ioInflight_ stays within the requests of a handle, and a request's      *)
(* reference count within its parts: neither falls below zero.             *)
LEMMA StreamTypes ==
  ASSUME Sizes, Inv
  PROVE  TypeOK
<1>1. \A h \in Handles : inflight[h] \in 0..MaxIo
  BY OpenFinite DEF Inv, InflightOK
<1>2. \A r \in Ios : ureq[r].ref \in 0..2 /\ ureq[r].n \in 0..2
  BY DEF Inv, Typed, ReqRecs
<1> QED
  BY <1>1, <1>2 DEF Inv, Typed, TypeOK

(* When Close has returned and a handle's maps are freed, no part of its   *)
(* requests is in a ring or on its way, and no callback is outstanding; no *)
(* part is left behind in the ring of a sender thread that has ended; the  *)
(* user is told OK only when every part of the request was; and the counts *)
(* of requests and parts never fall below zero.                            *)
THEOREM FreedIsQuiet ==
  ASSUME Sizes
  PROVE  Spec => []QuietWhenFreed
<1>1. Inv => QuietWhenFreed
  <2>1. Inv => RingsEmptied /\ ToldTruth
    BY DEF Inv, TruthOK, ToldTruth
  <2> QED
    BY <2>1, NothingOut, StreamTypes DEF QuietWhenFreed
<1> QED
  BY <1>1, StreamInvariance, PTL
=============================================================================
