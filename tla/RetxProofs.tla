----------------------------- MODULE RetxProofs -----------------------------
(***************************************************************************)
(* Proofs about the retransmission store (Retransmission on ListManager),  *)
(* for every set of dates and events, every length of a file and of the    *)
(* table of days, any number of power cuts and every set of faults.        *)
(*                                                                         *)
(* The invariant says of each day that met no accident which lines each of *)
(* its files holds, as a function of the two counters of its row: all of   *)
(* its lines until the row has passed them, and none after that.  A power  *)
(* cut replaces the table in memory by the one on the card; of a day on    *)
(* which they agree both rows are the same.                                *)
(*                                                                         *)
(* With it the queue a reader would be handed is a function of the table   *)
(* and the log alone (QueueOf), and each step moves it as RetxQueueSpec    *)
(* allows; the line in flight is its first, which OrderInv says.           *)
(***************************************************************************)
EXTENDS Retransmission, WellFoundedInduction, TLAPS

-----------------------------------------------------------------------------
(* The inductive invariant.  ds is a table of days, w a write position, fs *)
(* the files, lg the log, tn the torn dates.                               *)

Row == [date : Dates, total : Nat, index : Nat]

\* The lines that come before those of file s.
Start(s) == s * MaxLines

\* How many of n lines belong to file s.
LinesIn(s, n) == IF n <= Start(s) THEN 0
                 ELSE IF n >= Start(s + 1) THEN MaxLines ELSE n - Start(s)

Passed(s, t) == t.index >= Start(s + 1) \/ t.index >= t.total

\* What file s of the day of row t holds, of the lines l of that day; once they are passed it
\* may be deleted.
Holds(f, l, s, t) ==
  /\ Len(f) = LinesIn(s, t.total)
  /\ \A j \in 1..Len(f) : f[j] = l[Start(s) + j]
FileOK(f, l, s, t) == Holds(f, l, s, t) \/ (Passed(s, t) /\ f = << >>)

RowOK(t, fs, lg) ==
  /\ t.total = Len(lg[t.date]) /\ t.index <= t.total
  /\ \A s \in 0..MaxSeq : FileOK(fs[<<t.date, s>>], lg[t.date], s, t)

Once(ds, d) == \A i, j \in 1..Len(ds) : ds[i].date = d /\ ds[j].date = d => i = j

NoLines(d, lg) == lg[d] = << >>

DayOK(d, ds, fs, lg) ==
  /\ Once(ds, d)
  /\ \A i \in 1..Len(ds) : ds[i].date = d => RowOK(ds[i], fs, lg)
  /\ d \notin Tracked(ds) => NoLines(d, lg)

DaysOK(ds, fs, lg, tn) == \A d \in Dates \ tn : DayOK(d, ds, fs, lg)

ConfirmedDay(d, ds, lg, st) ==
  \A i \in 1..Len(ds) : ds[i].date = d =>
    \A k \in 1..ds[i].index : lg[d][k] \in st \cup Unusable

Confirmed(ds, lg, tn, st) == \A d \in Dates \ tn : ConfirmedDay(d, ds, lg, st)

\* A table and the write position kept with it: the position is in the newest day, and counts
\* its lines.
PairOK(ds, w) ==
  /\ ds \in Seq(Row) /\ Len(ds) <= MaxDays
  /\ w \in [date : Dates \cup {NoDate}, seq : Nat, lines : 0..MaxLines]
  /\ ds = << >> => w = FreshWrite(NoDate)
  /\ ds # << >> => /\ w.date = ds[1].date
                   /\ Start(w.seq) + w.lines = ds[1].total
  /\ \A i \in 1..Len(ds) : ds[i].total <= Start(MaxSeq + 1)

\* On the card too a day that met no accident has one row, and is not read past its end.
CardOK(ds, tn) ==
  \A d \in Dates \ tn :
    /\ Once(ds, d)
    /\ \A i \in 1..Len(ds) : ds[i].date = d => ds[i].index <= ds[i].total

OpOK ==
  /\ op \in [kind : {"idle", "append", "save"}, date : Dates \cup {NoDate},
             event : Events \cup {NoEvent}]
  /\ op.kind = "append" => days # << >> /\ op.date = days[1].date /\ op.event \in Events

Down == ~ready => days = << >> /\ write = FreshWrite(NoDate) /\ op = Idle

Flight == phase = "EXECUTING" /\ taken /\ cur = "retx" => handle.event \in sent

HistoryOK ==
  /\ files \in [Dates \X (0..MaxSeq) -> Seq(Events)]
  /\ log \in [Dates -> Seq(Events)]
  /\ ready \in BOOLEAN

IInv ==
  /\ HistoryOK /\ OpOK /\ Down /\ Flight
  /\ PairOK(days, write) /\ PairOK(meta.days, meta.write)
  /\ meta = [days |-> meta.days, write |-> meta.write]
  /\ CardOK(meta.days, torn)
  /\ DaysOK(Table, files, log, torn)
  /\ Confirmed(Table, log, torn, sent)

-----------------------------------------------------------------------------
(* Where the lines of a day lie.                                            *)

LEMMA StartIs ==
  ASSUME NEW s \in Nat
  PROVE  /\ Start(s) \in Nat /\ MaxLines \in Nat /\ MaxLines >= 1
         /\ Start(s + 1) = Start(s) + MaxLines
<1>1. MaxLines \in Nat /\ MaxLines >= 1  BY ListAssumption
<1>2. s * MaxLines \in Nat  BY <1>1
<1>3. (s + 1) * MaxLines = s * MaxLines + MaxLines  BY <1>1
<1> QED  BY <1>1, <1>2, <1>3 DEF Start

LEMMA StartOfFirst == Start(0) = 0
BY ListAssumption DEF Start

\* The lines of a file end where those of the next begin, or before.
LEMMA StartGrows ==
  ASSUME NEW s \in Nat, NEW t \in Nat, s < t
  PROVE  Start(s) + MaxLines <= Start(t)
<1>1. MaxLines \in Nat  BY ListAssumption
<1> DEFINE r == t - (s + 1)
<1>2. r \in Nat /\ t = (s + 1) + r  OBVIOUS
<1>3. r * MaxLines \in Nat  BY <1>1, <1>2
<1>4. ((s + 1) + r) * MaxLines = (s + 1) * MaxLines + r * MaxLines  BY <1>1, <1>2
<1>5. (s + 1) * MaxLines = s * MaxLines + MaxLines  BY <1>1
<1>6. s * MaxLines \in Nat  BY <1>1
<1> HIDE DEF r
<1>7. t * MaxLines = (s * MaxLines + MaxLines) + r * MaxLines  BY <1>2, <1>4, <1>5
<1> QED  BY <1>1, <1>3, <1>6, <1>7 DEF Start

LEMMA Within ==
  ASSUME NEW a \in Nat, NEW j \in Nat, NEW m \in Nat, NEW n \in Nat,
         1 <= j, j <= m, a + m <= n
  PROVE  a + j \in 1..n
OBVIOUS

LEMMA Beyond ==
  ASSUME NEW a \in Nat, NEW m \in Nat, NEW n \in Nat, m >= 1, a + m <= n
  PROVE  n >= a + m /\ n + 1 >= a + m /\ ~(n <= a) /\ ~(n + 1 <= a)
OBVIOUS

LEMMA LeftOver ==
  ASSUME NEW a \in Nat, NEW r \in Nat, NEW n \in Nat, n >= a + (r + 1)
  PROVE  n - a \in Nat /\ r + 1 <= n - a
OBVIOUS

\* The file of a line, and its place in it.
LEMMA FileIs ==
  ASSUME NEW k \in Nat
  PROVE  /\ FileOf(k) \in Nat /\ k % MaxLines \in 0..(MaxLines - 1)
         /\ k = Start(FileOf(k)) + (k % MaxLines)
         /\ Start(FileOf(k)) <= k /\ k < Start(FileOf(k)) + MaxLines
         /\ k % MaxLines \in Nat /\ k % MaxLines < MaxLines
<1>1. MaxLines \in Nat /\ MaxLines > 0  BY ListAssumption
<1>2. k \div MaxLines \in Nat  BY <1>1
<1>3. k % MaxLines \in 0..(MaxLines - 1)  BY <1>1
<1>4. k = MaxLines * (k \div MaxLines) + (k % MaxLines)  BY <1>1
<1>5. MaxLines * (k \div MaxLines) = (k \div MaxLines) * MaxLines  BY <1>1, <1>2
<1>6. (k \div MaxLines) * MaxLines \in Nat  BY <1>1, <1>2
<1>7. k % MaxLines \in Nat /\ k % MaxLines < MaxLines  BY <1>1, <1>3
<1> QED  BY <1>1, <1>2, <1>3, <1>4, <1>5, <1>6, <1>7 DEF FileOf, Start

\* The first line of a file, and no other, is at its beginning.
LEMMA FirstOfFile ==
  ASSUME NEW k \in Nat, NEW s \in Nat, k = Start(s)
  PROVE  k % MaxLines = 0
<1>1. PICK q : q = FileOf(k)  OBVIOUS
<1>2. q \in Nat /\ k = Start(q) + (k % MaxLines) /\ k % MaxLines \in Nat /\ k < Start(q) + MaxLines
  BY <1>1, FileIs
<1>3. Start(s) \in Nat /\ Start(q) \in Nat /\ MaxLines \in Nat /\ MaxLines >= 1  BY <1>2, StartIs
<1>4. CASE s < q  BY <1>2, <1>3, <1>4, StartGrows
<1>5. CASE q < s  BY <1>2, <1>3, <1>5, StartGrows
<1>6. CASE s = q
  <2>1. k = Start(q)  BY <1>6
  <2>2. ASSUME NEW r \in Nat, k = Start(q) + r  PROVE r = 0  BY <1>3, <2>1, <2>2
  <2> QED  BY <1>2, <2>2
<1> QED  BY <1>2, <1>4, <1>5, <1>6

-----------------------------------------------------------------------------
(* What becomes of a file.                                                  *)

\* A day without lines has no files.
LEMMA EmptyRow ==
  ASSUME NEW d \in Dates, NEW t \in Row, NEW fs, NEW lg,
         t.date = d, t.total = 0, t.index = 0, NoLines(d, lg), ~Remains(fs, d)
  PROVE  RowOK(t, fs, lg)
<1>1. Len(lg[t.date]) = 0  BY DEF NoLines
<1>2. ASSUME NEW s \in 0..MaxSeq  PROVE FileOK(fs[<<t.date, s>>], lg[t.date], s, t)
  BY DEF Remains, FileOK, Passed
<1> QED  BY <1>1, <1>2 DEF RowOK

\* and a row that says so is right.
LEMMA EmptyDay ==
  ASSUME NEW d \in Dates, NEW t \in Row, NEW fs, NEW lg \in [Dates -> Seq(Events)],
         fs \in [Dates \X (0..MaxSeq) -> Seq(Events)], t.date = d, t.total = 0, RowOK(t, fs, lg)
  PROVE  NoLines(d, lg) /\ ~Remains(fs, d)
<1>1. lg[d] \in Seq(Events) /\ Len(lg[d]) = 0  BY DEF RowOK
<1>2. lg[d] = << >>  BY <1>1
<1>3. ASSUME NEW s \in 0..MaxSeq  PROVE fs[<<d, s>>] = << >>
  <2>1. s \in Nat /\ Start(s) \in Nat  BY StartIs
  <2>2. LinesIn(s, t.total) = 0  BY <2>1 DEF LinesIn
  <2>3. FileOK(fs[<<d, s>>], lg[d], s, t)  BY DEF RowOK
  <2>4. CASE Holds(fs[<<d, s>>], lg[d], s, t)
    <3>1. Len(fs[<<d, s>>]) = 0  BY <2>2, <2>4 DEF Holds
    <3>2. fs[<<d, s>>] \in Seq(Events)  OBVIOUS
    <3> QED  BY <3>1, <3>2
  <2> QED  BY <2>3, <2>4 DEF FileOK
<1> QED  BY <1>2, <1>3 DEF NoLines, Remains

\* A line appended to a day goes to the file that the write position names.
LEMMA AppendKeeps ==
  ASSUME NEW t \in Row, NEW t2 \in Row, NEW s \in Nat, NEW q \in Nat, NEW n \in Nat,
         NEW e \in Events,
         NEW f \in Seq(Events), NEW l \in Seq(Events), NEW f2,
         t.total = Len(l), t.index <= t.total,
         t2.total = t.total + 1, t2.index = t.index,
         n < MaxLines, Start(q) + n = t.total,
         ~(t.total > 0 /\ t.index >= t.total /\ n > 0 /\ s = q /\ f = << >>),
         FileOK(f, l, s, t), f2 = IF s = q THEN Append(f, e) ELSE f
  PROVE  FileOK(f2, Append(l, e), s, t2)
<1>1. /\ t.total \in Nat /\ t.index \in Nat /\ Start(s) \in Nat /\ Start(q) \in Nat
      /\ MaxLines \in Nat /\ MaxLines >= 1
      /\ Start(s + 1) = Start(s) + MaxLines /\ Start(q + 1) = Start(q) + MaxLines
  BY StartIs DEF Row
<1>8. t2.total \in Nat /\ t2.index \in Nat /\ Start(s + 1) \in Nat
  <2>1. t2.total \in Nat /\ t2.index \in Nat  BY DEF Row
  <2>2. Start(s + 1) \in Nat  BY ONLY <1>1
  <2> QED  BY <2>1, <2>2
<1>2. ASSUME NEW k \in 1..Len(l)  PROVE Append(l, e)[k] = l[k]  OBVIOUS
<1>3. Append(l, e)[t.total + 1] = e  OBVIOUS
<1>7. Start(q) + (n + 1) = t.total + 1
  <2>1. (Start(q) + n) + 1 = Start(q) + (n + 1)  BY <1>1
  <2> QED  BY <2>1
<1>4. CASE s < q
  <2>1. Start(s) + MaxLines <= t.total  BY <1>1, <1>4, StartGrows
  <2>7. /\ t.total >= Start(s + 1) /\ t2.total >= Start(s + 1)
        /\ ~(t.total <= Start(s)) /\ ~(t2.total <= Start(s))
    <3>1. /\ t.total >= Start(s) + MaxLines /\ t.total + 1 >= Start(s) + MaxLines
          /\ ~(t.total <= Start(s)) /\ ~(t.total + 1 <= Start(s))
      BY ONLY <1>1, <2>1, Beyond
    <3> QED  BY ONLY <1>1, <3>1, t2.total = t.total + 1, Zenon
  <2>2. Passed(s, t2) <=> Passed(s, t)
    <3>1. Passed(s, t) <=> t.index >= Start(s + 1)  BY ONLY <1>1, <2>7 DEF Passed
    <3>2. Passed(s, t2) <=> t2.index >= Start(s + 1)
      <4>1. /\ t2.index \in Nat /\ t2.total \in Nat
            /\ Start(s + 1) \in Nat /\ t2.total >= Start(s + 1)
        BY ONLY <1>8, <1>1, <2>7, Zenon
      <4>2. t2.index >= t2.total => t2.index >= Start(s + 1)  BY ONLY <4>1
      <4> QED  BY <4>2, Zenon DEF Passed
    <3> QED  BY <3>1, <3>2
  <2>3. LinesIn(s, t2.total) = MaxLines /\ LinesIn(s, t.total) = MaxLines
    BY <2>7, Zenon DEF LinesIn
  <2>4. f2 = f  BY <1>4
  <2>5. CASE Passed(s, t) /\ f = << >>  BY <2>2, <2>4, <2>5 DEF FileOK
  <2>6. CASE Holds(f, l, s, t)
    <3>1. Len(f) = MaxLines /\ \A j \in 1..Len(f) : f[j] = l[Start(s) + j]
      BY <2>3, <2>6 DEF Holds
    <3>2. ASSUME NEW j \in 1..Len(f)  PROVE f[j] = Append(l, e)[Start(s) + j]
      <4>0. j \in Nat /\ 1 <= j /\ j <= MaxLines  BY <1>1, <3>1
      <4>1. Start(s) + j \in 1..Len(l)
        <5>1. Start(s) + MaxLines <= Len(l) /\ Len(l) \in Nat  BY <2>1
        <5> QED  BY <1>1, <4>0, <5>1, Within
      <4> QED  BY <1>2, <3>1, <4>1
    <3> QED  BY <2>3, <2>4, <3>1, <3>2 DEF FileOK, Holds
  <2> QED  BY <2>5, <2>6 DEF FileOK
<1>5. CASE s = q
  <2>2. LinesIn(s, t2.total) = n + 1  BY <1>1, <1>5 DEF LinesIn
  <2>3. LinesIn(s, t.total) = n  BY <1>1, <1>5 DEF LinesIn
  <2>4. Len(f) = n /\ \A j \in 1..Len(f) : f[j] = l[Start(s) + j]
    <3>1. CASE Passed(s, t) /\ f = << >>
      <4>1. t.index >= t.total  BY <1>1, <1>5, <3>1 DEF Passed
      <4>2. n = 0  BY <1>1, <1>5, <3>1, <4>1
      <4> QED  BY <3>1, <4>2
    <3>2. CASE Holds(f, l, s, t)  BY <2>3, <3>2 DEF Holds
    <3> QED  BY <3>1, <3>2 DEF FileOK
  <2>5. Len(f2) = n + 1  BY <1>5, <2>4
  <2>6. ASSUME NEW j \in 1..Len(f2)  PROVE f2[j] = Append(l, e)[Start(s) + j]
    <3>0. j \in Nat /\ 1 <= j /\ j <= n + 1  BY <2>5
    <3>1. CASE j <= n
      <4>1. f2[j] = f[j] /\ j \in 1..Len(f)  BY <1>5, <2>4, <3>0, <3>1
      <4>2. Start(s) + j \in 1..Len(l)
        <5>1. Start(s) + n <= Len(l) /\ Len(l) \in Nat  BY <1>5
        <5> QED  BY <1>1, <3>0, <3>1, <5>1, Within
      <4> QED  BY <1>2, <2>4, <4>1, <4>2
    <3>2. CASE j = n + 1
      <4>1. f2[j] = e  BY <1>5, <2>4, <3>2
      <4>3. Start(s) + j = t.total + 1  BY <1>5, <1>7, <3>2
      <4> QED  BY <1>3, <4>1, <4>3
    <3>3. j <= n \/ j = n + 1  BY <3>0
    <3> QED  BY <3>1, <3>2, <3>3
  <2> QED  BY <1>5, <2>2, <2>5, <2>6 DEF FileOK, Holds
<1>6. CASE q < s
  <2>1. t.total + 1 <= Start(s)  BY <1>1, <1>6, StartGrows
  <2>2. LinesIn(s, t.total) = 0 /\ LinesIn(s, t2.total) = 0  BY <1>1, <2>1 DEF LinesIn
  <2>3. f = << >>  BY <2>2 DEF FileOK, Holds
  <2>4. f2 = f  BY <1>6
  <2> QED  BY <2>2, <2>3, <2>4 DEF FileOK, Holds
<1> QED  BY <1>4, <1>5, <1>6

\* A line that is read passes the file that list_mgr_ack then deletes,
LEMMA AckDeletes ==
  ASSUME NEW t \in Row, NEW t2 \in Row, NEW s \in Nat,
         t.index < t.total, t2.total = t.total, t2.index = t.index + 1,
         s \in Exhausted(t.index + 1, t.total)
  PROVE  Passed(s, t2)
<1> DEFINE n == t.index + 1
<1>1. /\ t.total \in Nat /\ t.index \in Nat /\ Start(s) \in Nat
      /\ MaxLines \in Nat /\ MaxLines >= 1 /\ Start(s + 1) = Start(s) + MaxLines
  BY StartIs DEF Row
<1>2. n \in Nat /\ n > 0 /\ n <= t.total /\ t2.index = n /\ n = t.index + 1  BY <1>1
<1> HIDE DEF n
<1>3. CASE n % MaxLines = 0
  <2>1. PICK q : q = FileOf(n)  OBVIOUS
  <2>2. q \in Nat /\ n = Start(q)
    <3>1. q \in Nat /\ n = Start(q) + (n % MaxLines)  BY <1>2, <2>1, FileIs
    <3>2. Start(q) \in Nat  BY <3>1, StartIs
    <3> QED  BY <1>3, <3>1, <3>2
  <2>3. q >= 1  BY <1>2, <2>2, StartOfFirst
  <2>4. s = q - 1  BY <1>2, <1>3, <2>1 DEF Exhausted
  <2> QED  BY <1>1, <1>2, <2>2, <2>3, <2>4 DEF Passed
<1>4. CASE n % MaxLines # 0
  <2>1. n >= t.total  BY <1>1, <1>2, <1>4 DEF Exhausted
  <2> QED  BY <1>1, <1>2, <2>1 DEF Passed
<1> QED  BY <1>3, <1>4

\* and no other that has lines;
LEMMA AckSpares ==
  ASSUME NEW t \in Row, NEW t2 \in Row, NEW s \in Nat,
         t.index < t.total, t2.total = t.total, t2.index = t.index + 1,
         s \notin Exhausted(t.index + 1, t.total), Start(s) < t.total, ~Passed(s, t)
  PROVE  ~Passed(s, t2)
<1> DEFINE n == t.index + 1
<1>1. /\ t.total \in Nat /\ t.index \in Nat /\ Start(s) \in Nat
      /\ MaxLines \in Nat /\ MaxLines >= 1 /\ Start(s + 1) = Start(s) + MaxLines
  BY StartIs DEF Row
<1>2. n \in Nat /\ n > 0 /\ n <= t.total /\ t2.index = n /\ n = t.index + 1  BY <1>1
<1> HIDE DEF n
<1>3. t.index < Start(s + 1)  BY <1>1 DEF Passed
<1>4. CASE n % MaxLines = 0
  <2>1. PICK q : q = FileOf(n)  OBVIOUS
  <2>2. q \in Nat /\ n = Start(q)
    <3>1. q \in Nat /\ n = Start(q) + (n % MaxLines)  BY <1>2, <2>1, FileIs
    <3>2. Start(q) \in Nat  BY <3>1, StartIs
    <3> QED  BY <1>4, <3>1, <3>2
  <2>3. q >= 1  BY <1>2, <2>2, StartOfFirst
  <2>4. s # q - 1  BY <1>2, <1>4, <2>1 DEF Exhausted
  <2>5. CASE q <= s
    <3>1. Start(q) <= Start(s)
      <4>1. CASE q = s  BY <1>1, <4>1
      <4>2. CASE q < s  BY <1>1, <1>2, <2>2, <4>2, StartGrows
      <4> QED  BY <2>2, <2>5, <4>1, <4>2
    <3> QED  BY <1>1, <1>2, <2>2, <3>1 DEF Passed
  <2>6. CASE s + 1 < q
    <3>1. s + 1 \in Nat  OBVIOUS
    <3>2. Start(s + 1) + MaxLines <= n  BY <2>2, <2>6, <3>1, StartGrows
    <3> QED  BY <1>1, <1>2, <1>3, <3>2
  <2>7. q <= s \/ s + 1 < q  BY <2>2, <2>4
  <2> QED  BY <2>5, <2>6, <2>7
<1>5. CASE n % MaxLines # 0 /\ n = t.total
  <2>1. PICK q : q = FileOf(t.total - 1)  OBVIOUS
  <2>2. /\ q \in Nat /\ Start(q) \in Nat
        /\ Start(q) <= t.index /\ t.total <= Start(q) + MaxLines
    <3>1. t.total - 1 = t.index  BY <1>1, <1>2, <1>5
    <3>2. q \in Nat /\ Start(q) <= t.index /\ t.index < Start(q) + MaxLines
      BY <1>1, <2>1, <3>1, FileIs
    <3>3. Start(q) \in Nat  BY <3>2, StartIs
    <3> QED  BY <1>1, <3>1, <3>2, <3>3
  <2>3. s # q  BY <1>1, <1>2, <1>5, <2>1 DEF Exhausted
  <2>4. CASE s < q
    <3>1. Start(s) + MaxLines <= Start(q)  BY <2>2, <2>4, StartGrows
    <3> QED  BY <1>1, <1>3, <2>2, <3>1
  <2>5. CASE q < s
    <3>1. Start(q) + MaxLines <= Start(s)  BY <2>2, <2>5, StartGrows
    <3> QED  BY <1>1, <2>2, <3>1
  <2> QED  BY <2>2, <2>3, <2>4, <2>5
<1>6. CASE n % MaxLines # 0 /\ n < t.total
  <2>1. s + 1 \in Nat  OBVIOUS
  <2>2. n # Start(s + 1)  BY <1>2, <1>6, <2>1, FirstOfFile
  <2> QED  BY <1>1, <1>2, <1>3, <1>6, <2>2 DEF Passed
<1> QED  BY <1>1, <1>2, <1>4, <1>5, <1>6

\* the others are as they were, and so is that one if it is not deleted.
LEMMA AckKeeps ==
  ASSUME NEW t \in Row, NEW t2 \in Row, NEW s \in Nat, NEW f, NEW l, NEW f2,
         t.index < t.total, t2.total = t.total, t2.index = t.index + 1,
         FileOK(f, l, s, t),
         f2 = f \/ (f2 = << >> /\ s \in Exhausted(t.index + 1, t.total))
  PROVE  FileOK(f2, l, s, t2)
<1>1. /\ t.total \in Nat /\ t.index \in Nat /\ Start(s + 1) \in Nat
  <2>1. s + 1 \in Nat  OBVIOUS
  <2> QED  BY <2>1, StartIs DEF Row
<1>2. Passed(s, t) => Passed(s, t2)  BY <1>1 DEF Passed
<1>3. CASE f2 = f  BY <1>2, <1>3 DEF FileOK, Holds
<1>4. CASE f2 = << >> /\ s \in Exhausted(t.index + 1, t.total)
  BY <1>4, AckDeletes DEF FileOK
<1> QED  BY <1>3, <1>4

-----------------------------------------------------------------------------
(* Tables.                                                                  *)

LEMMA RowIs ==
  ASSUME NEW t \in Row
  PROVE  t.date \in Dates /\ t.total \in Nat /\ t.index \in Nat
BY DEF Row

\* What a row says depends on the files and the lines of its day only.
LEMMA RowStays ==
  ASSUME NEW t \in Row, NEW fs, NEW lg, NEW fs2, NEW lg2,
         lg2[t.date] = lg[t.date],
         \A s \in 0..MaxSeq : fs2[<<t.date, s>>] = fs[<<t.date, s>>],
         RowOK(t, fs, lg)
  PROVE  RowOK(t, fs2, lg2)
BY DEF RowOK

\* A day whose rows, files and lines are as before is as before.
LEMMA DayStays ==
  ASSUME NEW d \in Dates, NEW ds, NEW ds2 \in Seq(Row), NEW fs, NEW lg, NEW fs2, NEW lg2,
         lg2[d] = lg[d], \A s \in 0..MaxSeq : fs2[<<d, s>>] = fs[<<d, s>>],
         Once(ds2, d),
         \A i \in 1..Len(ds2) : ds2[i].date = d => \E j \in 1..Len(ds) : ds[j] = ds2[i],
         d \in Tracked(ds) => d \in Tracked(ds2),
         DayOK(d, ds, fs, lg)
  PROVE  DayOK(d, ds2, fs2, lg2)
<1>1. ASSUME NEW i \in 1..Len(ds2), ds2[i].date = d  PROVE RowOK(ds2[i], fs2, lg2)
  <2>1. ds2[i] \in Row  OBVIOUS
  <2>2. RowOK(ds2[i], fs, lg)  BY <1>1 DEF DayOK
  <2> QED  BY <1>1, <2>1, <2>2, RowStays
<1>2. ASSUME d \notin Tracked(ds2)  PROVE NoLines(d, lg2)
  <2>1. NoLines(d, lg)  BY <1>2 DEF DayOK
  <2> QED  BY <2>1 DEF NoLines
<1> QED  BY <1>1, <1>2 DEF DayOK

LEMMA ConfirmedStays ==
  ASSUME NEW d \in Dates, NEW ds, NEW ds2 \in Seq(Row), NEW lg, NEW lg2, NEW st, NEW st2,
         lg2[d] = lg[d], st \subseteq st2,
         \A i \in 1..Len(ds2) : ds2[i].date = d => \E j \in 1..Len(ds) : ds[j] = ds2[i],
         ConfirmedDay(d, ds, lg, st)
  PROVE  ConfirmedDay(d, ds2, lg2, st2)
<1> SUFFICES ASSUME NEW i \in 1..Len(ds2), ds2[i].date = d, NEW k \in 1..ds2[i].index
             PROVE  lg2[d][k] \in st2 \cup Unusable
  BY DEF ConfirmedDay
<1>1. PICK j \in 1..Len(ds) : ds[j] = ds2[i]  OBVIOUS
<1> QED  BY <1>1 DEF ConfirmedDay

\* Nothing of a day that has no row.
LEMMA UntrackedRows ==
  ASSUME NEW ds, NEW d, d \notin Tracked(ds), NEW i \in 1..Len(ds)
  PROVE  ds[i].date # d
BY DEF Tracked

LEMMA BlankIs ==
  /\ PairOK(Blank.days, Blank.write) /\ Blank.days = << >> /\ Blank.write = FreshWrite(NoDate)
  /\ \A tn : CardOK(Blank.days, tn)
  /\ Blank = [days |-> Blank.days, write |-> Blank.write]
<1>1. Blank.days = << >> /\ Blank.write = FreshWrite(NoDate)  BY DEF Blank
<1>2. << >> \in Seq(Row) /\ Len(<< >>) = 0  OBVIOUS
<1>3. FreshWrite(NoDate) \in [date : Dates \cup {NoDate}, seq : Nat, lines : 0..MaxLines]
  BY ListAssumption DEF FreshWrite
<1>4. PairOK(<< >>, FreshWrite(NoDate))
  BY <1>2, <1>3, ListAssumption DEF PairOK
<1>5. ASSUME NEW tn  PROVE CardOK(<< >>, tn)  BY <1>2 DEF CardOK, Once
<1> QED  BY <1>1, <1>4, <1>5 DEF Blank

LEMMA InitInv == Init => IInv
<1> SUFFICES ASSUME Init  PROVE IInv  OBVIOUS
<1> USE DEF Init, ListInit
<1>1. meta = Blank /\ days = << >> /\ write = FreshWrite(NoDate) /\ op = Idle /\ ready = TRUE
  OBVIOUS
<1>2. HistoryOK  BY DEF HistoryOK
<1>3. OpOK  BY DEF OpOK, Idle
<1>4. Down /\ Flight  BY DEF Down, Flight
<1>5. PairOK(days, write)  BY <1>1, BlankIs
<1>6. /\ PairOK(meta.days, meta.write) /\ CardOK(meta.days, torn)
      /\ meta = [days |-> meta.days, write |-> meta.write]
  BY <1>1, BlankIs
<1>7. Table = << >>  BY <1>1 DEF Table
<1>8. Len(<< >>) = 0  OBVIOUS
<1>9. ASSUME NEW d \in Dates \ torn
      PROVE  DayOK(d, << >>, files, log) /\ ConfirmedDay(d, << >>, log, sent)
  <2>1. NoLines(d, log)  BY DEF NoLines
  <2> QED  BY <1>8, <2>1 DEF DayOK, Once, ConfirmedDay
<1>10. DaysOK(Table, files, log, torn) /\ Confirmed(Table, log, torn, sent)
  BY <1>7, <1>9 DEF DaysOK, Confirmed
<1> QED  BY <1>2, <1>3, <1>4, <1>5, <1>6, <1>10 DEF IInv

-----------------------------------------------------------------------------
(* The steps of list_mgr_add.                                               *)

\* The rows that stay when a day is put in front.
LEMMA KeptIs ==
  ASSUME days \in Seq(Row), Len(days) <= MaxDays
  PROVE  /\ Kept \in Seq(Row) /\ Len(Kept) + 1 <= MaxDays /\ Len(Kept) \in Nat
         /\ Len(Kept) <= Len(days)
         /\ \A i \in 1..Len(Kept) : Kept[i] = days[i] /\ i \in 1..Len(days)
         /\ \A i \in 1..Len(days) : i \notin 1..Len(Kept) =>
              i = Len(days) /\ Dropped = {days[i].date}
<1>1. Len(days) \in Nat /\ MaxDays \in Nat /\ MaxDays >= 1  BY ListAssumption
<1>2. CASE Len(days) >= MaxDays
  <2>1. Kept = SubSeq(days, 1, Len(days) - 1)  BY <1>2 DEF Kept, Front
  <2> DEFINE n == Len(days) - 1
  <2>7. n \in Nat /\ n + 1 = Len(days)  BY <1>1, <1>2
  <2> HIDE DEF n
  <2>8. SubSeq(days, 1, n) \in Seq(Row) /\ Len(SubSeq(days, 1, n)) = n
    BY <2>7
  <2>9. n = Len(days) - 1  BY DEF n
  <2>2. Kept \in Seq(Row) /\ Len(Kept) = Len(days) - 1  BY <2>1, <2>8, <2>9
  <2>3. \A i \in 1..Len(Kept) : Kept[i] = days[i]  BY <1>1, <1>2, <2>1, <2>2
  <2>4. Dropped = {days[Len(days)].date}  BY <1>2 DEF Dropped, Last
  <2>5. \A i \in 1..Len(days) : i \notin 1..Len(Kept) => i = Len(days)  BY <1>1, <2>2
  <2>6. \A i \in 1..Len(Kept) : i \in 1..Len(days)  BY <1>1, <2>2
  <2> QED  BY <1>1, <1>2, <2>2, <2>3, <2>4, <2>5, <2>6
<1>3. CASE ~(Len(days) >= MaxDays)
  <2>1. Kept = days  BY <1>3 DEF Kept
  <2> QED  BY <1>1, <1>3, <2>1
<1> QED  BY <1>2, <1>3

NewTable(d) == <<Entry(d)>> \o Kept

InFront(d, ds) ==
  /\ ds \in Seq(Row) /\ Len(ds) = Len(Kept) + 1 /\ ds # << >> /\ Len(ds) \in Nat
  /\ ds[1] = Entry(d) /\ Entry(d) \in Row
  /\ \A i \in 1..Len(ds) : i # 1 => ds[i] = Kept[i - 1] /\ i - 1 \in 1..Len(Kept)
  /\ \A i \in 1..Len(Kept) : ds[i + 1] = Kept[i] /\ i + 1 \in 1..Len(ds)

LEMMA NewTableIs ==
  ASSUME NEW d \in Dates, NEW ds, ds = NewTable(d), days \in Seq(Row), Len(days) <= MaxDays
  PROVE  InFront(d, ds)
<1>1. Kept \in Seq(Row) /\ Len(Kept) \in Nat  BY KeptIs
<1>2. Entry(d) \in Row  BY DEF Entry, Row
<1>3. <<Entry(d)>> \in Seq(Row) /\ Len(<<Entry(d)>>) = 1 /\ <<Entry(d)>>[1] = Entry(d)  BY <1>2
<1> DEFINE one == <<Entry(d)>>
<1> HIDE DEF one
<1>4. one \in Seq(Row) /\ Len(one) = 1 /\ one[1] = Entry(d) /\ ds = one \o Kept
  BY <1>3 DEF one, NewTable
<1>10. \A k \in Seq(Row) :
         LET z == one \o k
         IN  /\ z \in Seq(Row) /\ Len(z) = Len(k) + 1 /\ z[1] = one[1]
             /\ \A i \in 1..Len(z) : i # 1 => z[i] = k[i - 1] /\ i - 1 \in 1..Len(k)
             /\ \A i \in 1..Len(k) : z[i + 1] = k[i] /\ i + 1 \in 1..Len(z)
  BY <1>3 DEF one
<1>5. ds \in Seq(Row) /\ Len(ds) = Len(Kept) + 1  BY <1>1, <1>4, <1>10
<1>6. ds[1] = Entry(d)  BY <1>1, <1>4, <1>10
<1>7. \A i \in 1..Len(ds) : i # 1 => ds[i] = Kept[i - 1] /\ i - 1 \in 1..Len(Kept)
  BY <1>1, <1>4, <1>10
<1>8. \A i \in 1..Len(Kept) : ds[i + 1] = Kept[i] /\ i + 1 \in 1..Len(ds)
  BY <1>1, <1>4, <1>10
<1>9. ds # << >>  BY <1>1, <1>5
<1> QED  BY <1>1, <1>2, <1>5, <1>6, <1>7, <1>8, <1>9 DEF InFront

\* The table with a new day in front.
LEMMA NewDayKeeps ==
  ASSUME IInv, ready = TRUE, NEW d \in Dates, NEW e \in Events, NEW n, AddNewDay(d, e, n),
         ready' = ready, sent' = sent
  PROVE  /\ PairOK(days, write)' /\ HistoryOK' /\ OpOK'
         /\ DaysOK(days, files, log, torn)'
         /\ Confirmed(days, log, torn, sent)'
<1>0. PICK ds : ds = days'  OBVIOUS
<1>1. /\ days \in Seq(Row) /\ Len(days) <= MaxDays
      /\ \A i \in 1..Len(days) : days[i].total <= Start(MaxSeq + 1)
  BY DEF IInv, PairOK
<1>2. ds = NewTable(d)  BY <1>0 DEF AddNewDay, NewTable
<1>3. /\ ds \in Seq(Row) /\ Len(ds) = Len(Kept) + 1 /\ ds # << >> /\ Len(ds) \in Nat
      /\ ds[1] = Entry(d) /\ Entry(d) \in Row
      /\ \A i \in 1..Len(ds) : i # 1 => ds[i] = Kept[i - 1] /\ i - 1 \in 1..Len(Kept)
      /\ \A i \in 1..Len(Kept) : ds[i + 1] = Kept[i] /\ i + 1 \in 1..Len(ds)
  <2>1. InFront(d, ds)  BY <1>1, <1>2, NewTableIs, Zenon
  <2> QED  BY <2>1 DEF InFront
<1>4. /\ Kept \in Seq(Row) /\ Len(Kept) + 1 <= MaxDays /\ Len(Kept) \in Nat
      /\ \A i \in 1..Len(Kept) : Kept[i] = days[i] /\ i \in 1..Len(days)
      /\ \A i \in 1..Len(days) : i \notin 1..Len(Kept) =>
           i = Len(days) /\ Dropped = {days[i].date}
  BY <1>1, KeptIs
<1>5. Entry(d).date = d /\ Entry(d).total = 0 /\ Entry(d).index = 0  BY DEF Entry
<1>6. PairOK(ds, write')
  <2>1. write' = FreshWrite(d)  BY DEF AddNewDay
  <2>2. /\ write' \in [date : Dates \cup {NoDate}, seq : Nat, lines : 0..MaxLines]
        /\ write'.date = d /\ write'.seq = 0 /\ write'.lines = 0
    BY <2>1, ListAssumption DEF FreshWrite
  <2>3. Start(write'.seq) + write'.lines = ds[1].total
    BY <1>3, <1>5, <2>2, StartOfFirst
  <2>4. ASSUME NEW i \in 1..Len(ds)  PROVE ds[i].total <= Start(MaxSeq + 1)
    <3>1. CASE i = 1
      <4>1. MaxSeq + 1 \in Nat  BY ListAssumption
      <4>2. Start(MaxSeq + 1) \in Nat  BY <4>1, StartIs
      <4> QED  BY <1>3, <1>5, <3>1, <4>2
    <3>2. CASE i # 1  BY <1>1, <1>3, <1>4, <3>2
    <3> QED  BY <3>1, <3>2
  <2> QED  BY <1>3, <1>4, <1>5, <2>2, <2>3, <2>4 DEF PairOK
<1>7. /\ files \in [Dates \X (0..MaxSeq) -> Seq(Events)] /\ log \in [Dates -> Seq(Events)]
      /\ files' = [f \in Dates \X (0..MaxSeq) |->
                    IF f[1] \in Dropped /\ f[2] < n THEN << >> ELSE files[f]]
      /\ log' = [x \in Dates |-> IF x \in Dropped THEN << >> ELSE log[x]]
  BY DEF IInv, HistoryOK, AddNewDay
<1>8. HistoryOK'
  <2>1. << >> \in Seq(Events)  OBVIOUS
  <2>2. files' \in [Dates \X (0..MaxSeq) -> Seq(Events)]  BY <1>7, <2>1
  <2>3. log' \in [Dates -> Seq(Events)]  BY <1>7, <2>1
  <2> QED  BY <2>2, <2>3 DEF HistoryOK, IInv
<1>9. OpOK'
  <2>1. op' = [kind |-> "append", date |-> d, event |-> e]  BY DEF AddNewDay
  <2>2. ds # << >> /\ ds[1].date = d  BY <1>3, <1>5
  <2> QED  BY <1>0, <2>1, <2>2 DEF OpOK
<1>10. /\ torn \subseteq torn'
       /\ d \in Tracked(Kept) \/ Remains(files', d) => d \in torn'
  BY DEF AddNewDay
<1>11. \A x \in Dates, s \in 0..MaxSeq : x \notin Dropped => files'[<<x, s>>] = files[<<x, s>>]
  BY <1>7
<1>12. ASSUME NEW x \in Dates \ torn'
       PROVE  DayOK(x, ds, files', log') /\ ConfirmedDay(x, ds, log', sent)
  <2>1. x \in Dates /\ x \notin torn  BY <1>10, <1>12
  <2>2. DayOK(x, days, files, log) /\ ConfirmedDay(x, days, log, sent)
    BY <2>1 DEF IInv, DaysOK, Confirmed, Table
  <2>3. ASSUME NEW i \in 1..Len(ds), i # 1
        PROVE  ds[i] = days[i - 1] /\ i - 1 \in 1..Len(days)
    BY <1>3, <1>4, <2>3
  <2>4. CASE x = d
    <3>1. x \notin Tracked(Kept) /\ ~Remains(files', x)  BY <1>10, <1>12, <2>4
    <3>2. \A i \in 1..Len(ds) : ds[i].date = x => i = 1
      BY <1>3, <3>1, UntrackedRows
    <3>3. NoLines(x, log')
      <4>1. CASE x \in Dropped  BY <1>7, <2>1, <4>1 DEF NoLines
      <4>2. CASE x \notin Dropped
        <5>1. \A i \in 1..Len(days) : days[i].date # x
          BY <1>4, <3>1, <4>2, UntrackedRows
        <5>2. x \notin Tracked(days)  BY <5>1 DEF Tracked
        <5>3. NoLines(x, log)  BY <2>2, <5>2 DEF DayOK
        <5> QED  BY <1>7, <2>1, <4>2, <5>3 DEF NoLines
      <4> QED  BY <4>1, <4>2
    <3>4. RowOK(ds[1], files', log')
      BY <1>3, <1>5, <2>4, <3>1, <3>3, EmptyRow
    <3>5. 1 \in 1..Len(ds)  BY <1>3, <1>4
    <3>6. x \in Tracked(ds)  BY <1>3, <1>5, <2>4, <3>5 DEF Tracked
    <3>7. Once(ds, x)  BY <3>2 DEF Once
    <3>8. DayOK(x, ds, files', log')  BY <3>2, <3>4, <3>6, <3>7 DEF DayOK
    <3>9. ConfirmedDay(x, ds, log', sent)
      <4>1. 1..ds[1].index = {}  BY <1>3, <1>5
      <4> QED  BY <3>2, <4>1 DEF ConfirmedDay
    <3> QED  BY <3>8, <3>9
  <2>5. CASE x # d
    <3>1. ds[1].date # x  BY <1>3, <1>5, <2>5
    <3>2. Once(ds, x)
      <4>1. Once(days, x)  BY <2>2 DEF DayOK
      <4>2. ASSUME NEW i \in 1..Len(ds), NEW j \in 1..Len(ds), ds[i].date = x, ds[j].date = x
            PROVE  i = j
        <5>1. i # 1 /\ j # 1  BY <3>1, <4>2
        <5>2. /\ ds[i] = days[i - 1] /\ i - 1 \in 1..Len(days)
              /\ ds[j] = days[j - 1] /\ j - 1 \in 1..Len(days)
          BY <2>3, <5>1
        <5>3. i - 1 = j - 1  BY <4>1, <4>2, <5>2 DEF Once
        <5>4. i \in Nat /\ j \in Nat  OBVIOUS
        <5> QED  BY <5>3, <5>4
      <4> QED  BY <4>2 DEF Once
    <3>3. \A i \in 1..Len(ds) : ds[i].date = x => \E j \in 1..Len(days) : days[j] = ds[i]
      BY <2>3, <3>1
    <3>4. CASE x \in Dropped
      <4>1. NoLines(x, log')  BY <1>7, <2>1, <3>4 DEF NoLines
      <4>2. x \notin Tracked(ds)
        <5> SUFFICES ASSUME NEW i \in 1..Len(ds), ds[i].date = x  PROVE FALSE  BY DEF Tracked
        <5>1. i # 1 /\ i \in Nat  BY <3>1
        <5>2. ds[i] = Kept[i - 1] /\ i - 1 \in 1..Len(Kept)  BY <1>3, <5>1
        <5>3. Kept[i - 1] = days[i - 1] /\ i - 1 \in 1..Len(days)  BY <1>4, <5>2
        <5>4. Len(days) \in 1..Len(days) /\ Dropped = {days[Len(days)].date}
          <6>1. Len(days) \in Nat /\ Len(days) >= MaxDays  BY <1>1, <3>4 DEF Dropped
          <6>2. Len(days) >= 1  BY <6>1, ListAssumption
          <6> QED  BY <3>4, <6>1, <6>2 DEF Dropped, Last
        <5>5. i - 1 = Len(days)  BY <2>2, <3>4, <5>2, <5>3, <5>4 DEF DayOK, Once
        <5>6. Len(days) \in Nat /\ Len(days) >= MaxDays  BY <1>1, <3>4 DEF Dropped
        <5>7. Len(days) <= Len(Kept)  BY <5>2, <5>5
        <5> QED  BY <1>4, <5>6, <5>7, ListAssumption
      <4>3. \A i \in 1..Len(ds) : ds[i].date # x  BY <4>2 DEF Tracked
      <4> QED  BY <3>2, <4>1, <4>2, <4>3 DEF DayOK, ConfirmedDay
    <3>5. CASE x \notin Dropped
      <4>1. log'[x] = log[x] /\ \A s \in 0..MaxSeq : files'[<<x, s>>] = files[<<x, s>>]
        BY <1>7, <1>11, <2>1, <3>5
      <4>2. x \in Tracked(days) => x \in Tracked(ds)
        <5> SUFFICES ASSUME NEW i \in 1..Len(days), days[i].date = x  PROVE x \in Tracked(ds)
          BY DEF Tracked
        <5>1. i \in 1..Len(Kept)  BY <1>4, <3>5
        <5>2. ds[i + 1] = days[i] /\ i + 1 \in 1..Len(ds)  BY <1>3, <1>4, <5>1
        <5> QED  BY <5>2 DEF Tracked
      <4>3. DayOK(x, ds, files', log')  BY <1>3, <2>1, <2>2, <3>2, <3>3, <4>1, <4>2, DayStays
      <4>4. ConfirmedDay(x, ds, log', sent)
        BY <1>3, <2>1, <2>2, <3>3, <4>1, ConfirmedStays
      <4> QED  BY <4>3, <4>4
    <3> QED  BY <3>4, <3>5
  <2> QED  BY <2>4, <2>5
<1>13. DaysOK(ds, files', log', torn') /\ Confirmed(ds, log', torn', sent)
  BY <1>12 DEF DaysOK, Confirmed
<1> QED  BY <1>0, <1>6, <1>8, <1>9, <1>13

\* Where the next line goes, in a position that counts the lines of its day.
LEMMA NextWriteIs ==
  ASSUME PairOK(days, write), days # << >>
  PROVE  /\ NextWrite \in [date : Dates \cup {NoDate}, seq : Nat, lines : 0..MaxLines]
         /\ NextWrite.date = write.date /\ NextWrite.lines < MaxLines
         /\ Start(NextWrite.seq) + NextWrite.lines = days[1].total
<1>1. /\ write \in [date : Dates \cup {NoDate}, seq : Nat, lines : 0..MaxLines]
      /\ Start(write.seq) + write.lines = days[1].total
  BY DEF PairOK
<1>2. write.seq \in Nat /\ write.lines \in 0..MaxLines /\ write.date \in Dates \cup {NoDate}
  BY <1>1
<1>3. MaxLines \in Nat /\ MaxLines >= 1  BY ListAssumption
<1>4. CASE RollsOver
  <2>1. NextWrite = [write EXCEPT !.seq = @ + 1, !.lines = 0]  BY <1>4 DEF NextWrite
  <2>2. NextWrite \in [date : Dates \cup {NoDate}, seq : Nat, lines : 0..MaxLines]
    <3>1. NextWrite = [date |-> write.date, seq |-> write.seq + 1, lines |-> 0]
      BY <1>1, <2>1
    <3>2. write.seq + 1 \in Nat /\ 0 \in 0..MaxLines  BY <1>2, <1>3
    <3> QED  BY <1>2, <3>1, <3>2
  <2>3. NextWrite.date = write.date /\ NextWrite.seq = write.seq + 1 /\ NextWrite.lines = 0
    BY <1>1, <2>1
  <2>4. write.lines = MaxLines  BY <1>2, <1>3, <1>4 DEF RollsOver
  <2>5. Start(write.seq + 1) = Start(write.seq) + MaxLines /\ Start(write.seq) \in Nat
    BY <1>2, StartIs
  <2>6. Start(write.seq + 1) + 0 = days[1].total  BY <1>1, <1>3, <2>4, <2>5
  <2> QED  BY <1>3, <2>2, <2>3, <2>6
<1>5. CASE ~RollsOver
  <2>1. NextWrite = write  BY <1>5 DEF NextWrite
  <2>2. write.lines < MaxLines  BY <1>2, <1>3, <1>5 DEF RollsOver
  <2> QED  BY <1>1, <2>1, <2>2
<1> QED  BY <1>4, <1>5

LEMMA AppendStep ==
  ASSUME IInv, ready = TRUE, AddAppend, ready' = ready, sent' = sent
  PROVE  /\ PairOK(days, write)' /\ HistoryOK' /\ OpOK'
         /\ DaysOK(days, files, log, torn)'
         /\ Confirmed(days, log, torn, sent)'
<1>1. /\ PairOK(days, write) /\ days \in Seq(Row) /\ Len(days) <= MaxDays
      /\ days # << >> /\ op.date = days[1].date /\ op.date = write.date /\ op.event \in Events
      /\ \A i \in 1..Len(days) : days[i].total <= Start(MaxSeq + 1)
  BY DEF IInv, PairOK, OpOK, AddAppend
<1>2. 1 \in 1..Len(days) /\ Len(days) \in Nat  BY <1>1
<1>3. days[1] \in Row  BY <1>1, <1>2
<1>4. PICK d : d = op.date  OBVIOUS
<1>5. PICK e : e = op.event  OBVIOUS
<1>6. PICK w : w = NextWrite  OBVIOUS
<1>7. d \in Dates /\ e \in Events /\ d = days[1].date  BY <1>1, <1>3, <1>4, <1>5, RowIs
<1>8. /\ w \in [date : Dates \cup {NoDate}, seq : Nat, lines : 0..MaxLines]
      /\ w.date = d /\ w.lines < MaxLines /\ Start(w.seq) + w.lines = days[1].total
  BY <1>1, <1>4, <1>6, NextWriteIs
<1>9. w.seq \in Nat /\ w.lines \in Nat /\ Start(w.seq) \in Nat /\ MaxLines \in Nat
  BY <1>8, StartIs, ListAssumption
<1>10. w.seq <= MaxSeq  BY <1>6 DEF AddAppend
<1>11. PICK t : t = [days[1] EXCEPT !.total = @ + 1]  OBVIOUS
<1>12. /\ t \in Row /\ t.date = d /\ t.total = days[1].total + 1 /\ t.index = days[1].index
  BY <1>3, <1>7, <1>11 DEF Row
<1>13. PICK ds : ds = days'  OBVIOUS
<1>14. ds = [days EXCEPT ![1] = t]  BY <1>11, <1>13 DEF AddAppend
<1>15. /\ ds \in Seq(Row) /\ Len(ds) = Len(days) /\ ds[1] = t /\ ds # << >>
       /\ \A i \in 1..Len(days) : i # 1 => ds[i] = days[i]
  BY <1>1, <1>2, <1>12, <1>14
<1>16. PairOK(ds, write')
  <2>1. write' = [w EXCEPT !.lines = @ + 1]  BY <1>6 DEF AddAppend
  <2>2. /\ write' \in [date : Dates \cup {NoDate}, seq : Nat, lines : 0..MaxLines]
        /\ write'.date = d /\ write'.seq = w.seq /\ write'.lines = w.lines + 1
    BY <1>8, <1>9, <2>1
  <2>3. Start(w.seq) + (w.lines + 1) = t.total
    <3>1. (Start(w.seq) + w.lines) + 1 = Start(w.seq) + (w.lines + 1)  BY <1>9
    <3> QED  BY <1>8, <1>12, <3>1
  <2>4. t.total <= Start(MaxSeq + 1)
    <3>1. MaxSeq + 1 \in Nat /\ w.seq < MaxSeq + 1  BY <1>9, <1>10, ListAssumption
    <3>2. Start(w.seq) + MaxLines <= Start(MaxSeq + 1) /\ Start(MaxSeq + 1) \in Nat
      BY <1>9, <3>1, StartGrows, StartIs
    <3> QED  BY <1>8, <1>9, <2>3, <3>2
  <2>5. \A i \in 1..Len(ds) : ds[i].total <= Start(MaxSeq + 1)  BY <1>1, <1>15, <2>4
  <2> QED  BY <1>1, <1>12, <1>15, <2>2, <2>3, <2>5 DEF PairOK
<1>17. /\ files \in [Dates \X (0..MaxSeq) -> Seq(Events)] /\ log \in [Dates -> Seq(Events)]
       /\ files' = [files EXCEPT ![<<d, w.seq>>] = Append(@, e)]
       /\ log' = [log EXCEPT ![d] = Append(@, e)]
  BY <1>4, <1>5, <1>6 DEF IInv, HistoryOK, AddAppend
<1>18. <<d, w.seq>> \in Dates \X (0..MaxSeq)  BY <1>7, <1>9, <1>10
<1>19. HistoryOK'
  <2>1. log' \in [Dates -> Seq(Events)]  BY <1>7, <1>17
  <2>2. files' \in [Dates \X (0..MaxSeq) -> Seq(Events)]  BY <1>7, <1>17, <1>18
  <2> QED  BY <2>1, <2>2 DEF HistoryOK, IInv
<1>20. OpOK'
  <2>1. op' = [op EXCEPT !.kind = "save"]  BY DEF AddAppend
  <2> QED  BY <2>1 DEF OpOK, IInv
<1>21. log'[d] = Append(log[d], e) /\ \A x \in Dates : x # d => log'[x] = log[x]
  BY <1>7, <1>17
<1>22. ASSUME NEW x \in Dates, NEW s \in 0..MaxSeq
       PROVE  files'[<<x, s>>] = IF x = d /\ s = w.seq THEN Append(files[<<x, s>>], e)
                                 ELSE files[<<x, s>>]
  <2>1. <<x, s>> \in Dates \X (0..MaxSeq)  OBVIOUS
  <2>2. <<x, s>> = <<d, w.seq>> <=> x = d /\ s = w.seq  OBVIOUS
  <2> QED  BY <1>17, <2>1, <2>2
<1>23. ASSUME NEW x \in Dates \ torn'
       PROVE  DayOK(x, ds, files', log') /\ ConfirmedDay(x, ds, log', sent)
  <2>1. x \in Dates /\ x \notin torn  BY <1>23 DEF AddAppend
  <2>2. DayOK(x, days, files, log) /\ ConfirmedDay(x, days, log, sent)
    BY <2>1 DEF IInv, DaysOK, Confirmed, Table
  <2>3. \A i \in 1..Len(ds) : ds[i].date = days[i].date  BY <1>7, <1>12, <1>15
  <2>4. Once(ds, x)  BY <1>15, <2>2, <2>3 DEF DayOK, Once
  <2>5. x \in Tracked(ds) <=> x \in Tracked(days)  BY <1>15, <2>3 DEF Tracked
  <2>6. CASE x = d
    <3>1. \A i \in 1..Len(ds) : ds[i].date = x => i = 1
      BY <1>2, <1>12, <1>15, <2>4, <2>6 DEF Once
    <3>2. RowOK(days[1], files, log)  BY <1>2, <1>7, <2>2, <2>6 DEF DayOK
    <3>3. ~(days[1].total > 0 /\ days[1].index >= days[1].total /\ w.lines > 0
            /\ files[<<d, w.seq>>] = << >>)
      <4>1. ~TailWasDrained  BY <1>4, <1>23, <2>6 DEF AddAppend
      <4> QED  BY <1>4, <1>6, <4>1 DEF TailWasDrained
    <3>4. log[d] \in Seq(Events) /\ days[1].total = Len(log[d]) /\ days[1].index <= days[1].total
      BY <1>7, <1>17, <3>2 DEF RowOK
    <3>5. ASSUME NEW s \in 0..MaxSeq
          PROVE  FileOK(files'[<<t.date, s>>], log'[t.date], s, t)
      <4>1. s \in Nat  BY ListAssumption
      <4>2. FileOK(files[<<d, s>>], log[d], s, days[1])  BY <1>7, <3>2 DEF RowOK
      <4>3. files'[<<d, s>>] = IF s = w.seq THEN Append(files[<<d, s>>], e)
                               ELSE files[<<d, s>>]
        BY <1>7, <1>22
      <4>4. files[<<d, s>>] \in Seq(Events)  BY <1>7, <1>17
      <4>5. FileOK(files'[<<d, s>>], Append(log[d], e), s, t)
        BY <1>3, <1>7, <1>8, <1>9, <1>12, <3>3, <3>4, <4>1, <4>2, <4>3, <4>4, AppendKeeps
      <4> QED  BY <1>12, <1>21, <4>5
    <3>6. t.total = Len(log'[t.date]) /\ t.index <= t.total
      <4>1. Len(Append(log[d], e)) = Len(log[d]) + 1  BY <1>7, <3>4
      <4>2. days[1].index \in Nat /\ days[1].total \in Nat  BY <1>3, RowIs
      <4> QED  BY <1>12, <1>21, <3>4, <4>1, <4>2
    <3>7. RowOK(t, files', log')  BY <3>5, <3>6 DEF RowOK
    <3>8. x \in Tracked(ds)  BY <1>2, <1>12, <1>15, <2>6 DEF Tracked
    <3>9. DayOK(x, ds, files', log')  BY <1>15, <2>4, <3>1, <3>7, <3>8 DEF DayOK
    <3>10. ASSUME NEW k \in 1..t.index  PROVE log'[x][k] \in sent \cup Unusable
      <4>1. k \in 1..days[1].index  BY <1>12
      <4>2. log[x][k] \in sent \cup Unusable  BY <1>2, <1>7, <2>2, <2>6, <4>1 DEF ConfirmedDay
      <4>3. days[1].index \in Nat /\ days[1].total \in Nat  BY <1>3, RowIs
      <4>4. k \in 1..Len(log[d])  BY <3>4, <4>1, <4>3
      <4>5. Append(log[d], e)[k] = log[d][k]  BY <3>4, <4>4
      <4> QED  BY <1>21, <2>6, <4>2, <4>5
    <3>11. ConfirmedDay(x, ds, log', sent)  BY <1>15, <3>1, <3>10 DEF ConfirmedDay
    <3> QED  BY <3>9, <3>11
  <2>7. CASE x # d
    <3>1. \A i \in 1..Len(ds) : ds[i].date = x => \E j \in 1..Len(days) : days[j] = ds[i]
      BY <1>12, <1>15, <2>7
    <3>2. log'[x] = log[x] /\ \A s \in 0..MaxSeq : files'[<<x, s>>] = files[<<x, s>>]
      BY <1>21, <1>22, <2>1, <2>7
    <3>3. DayOK(x, ds, files', log')  BY <1>15, <2>1, <2>2, <2>4, <2>5, <3>1, <3>2, DayStays
    <3>4. ConfirmedDay(x, ds, log', sent)
      BY <1>15, <2>1, <2>2, <3>1, <3>2, ConfirmedStays
    <3> QED  BY <3>3, <3>4
  <2> QED  BY <2>6, <2>7
<1>24. DaysOK(ds, files', log', torn') /\ Confirmed(ds, log', torn', sent)
  BY <1>23 DEF DaysOK, Confirmed
<1> QED  BY <1>13, <1>16, <1>19, <1>20, <1>24

\* A line that is not written: the position may have moved on to the next file.
LEMMA FailStep ==
  ASSUME IInv, AddFails
  PROVE  PairOK(days, write)' /\ OpOK'
<1>1. PairOK(days, write) /\ days # << >> /\ days' = days  BY DEF IInv, OpOK, AddFails
<1>2. write' = NextWrite /\ op' = Idle  BY DEF AddFails
<1>3. /\ NextWrite \in [date : Dates \cup {NoDate}, seq : Nat, lines : 0..MaxLines]
      /\ NextWrite.date = write.date
      /\ Start(NextWrite.seq) + NextWrite.lines = days[1].total
  BY <1>1, NextWriteIs
<1>4. PairOK(days', write')  BY <1>1, <1>2, <1>3 DEF PairOK
<1>5. OpOK'  BY <1>2 DEF OpOK, Idle
<1> QED  BY <1>4, <1>5

-----------------------------------------------------------------------------
(* An acknowledgement.                                                      *)

LEMMA AckStep ==
  ASSUME IInv, ready = TRUE, NEW h, NEW fails, Ack(h, fails), h.event \in sent \cup Unusable,
         ready' = ready, sent' = sent
  PROVE  /\ PairOK(days, write)' /\ HistoryOK' /\ OpOK'
         /\ DaysOK(days, files, log, torn)'
         /\ Confirmed(days, log, torn, sent)'
<1>1. /\ PairOK(days, write) /\ days \in Seq(Row) /\ Len(days) <= MaxDays
      /\ \A i \in 1..Len(days) : days[i].total <= Start(MaxSeq + 1)
  BY DEF IInv, PairOK
<1>2. PICK m : m = h.day  OBVIOUS
<1>3. PICK r : r = days[m]  OBVIOUS
<1>4. m \in 1..Len(days) /\ r \in Row /\ r = days[m]  BY <1>1, <1>2, <1>3 DEF Ack
<1>5. PICK t : t = [r EXCEPT !.index = @ + 1]  OBVIOUS
<1>6. t \in Row /\ t.date = r.date /\ t.total = r.total /\ t.index = r.index + 1
  BY <1>4, <1>5 DEF Row
<1>7. PICK ds : ds = days'  OBVIOUS
<1>8. ds = [days EXCEPT ![m] = t]  BY <1>2, <1>3, <1>5, <1>7 DEF Ack
<1>9. /\ ds \in Seq(Row) /\ Len(ds) = Len(days) /\ ds[m] = t
      /\ \A i \in 1..Len(days) : i # m => ds[i] = days[i]
      /\ days # << >> /\ ds # << >>
  BY <1>1, <1>4, <1>6, <1>8
<1>10. /\ write' = write /\ log' = log /\ op' = [Idle EXCEPT !.kind = "save"]
       /\ torn' = IF Current(r, h) THEN torn ELSE torn \cup {r.date, h.date}
  BY <1>2, <1>3 DEF Ack
<1>11. PICK done : done = Exhausted(r.index + 1, r.total)  OBVIOUS
<1>12. files' = [f \in DOMAIN files |->
                   IF f[1] = h.date /\ f[2] \in done /\ ~fails THEN << >> ELSE files[f]]
  <2>1. files' = [f \in DOMAIN files |->
                   IF f \in {g \in DOMAIN files : g[1] = h.date /\ g[2] \in done} /\ ~fails
                   THEN << >> ELSE files[f]]
    BY <1>2, <1>3, <1>11 DEF Ack
  <2> QED  BY <2>1
<1>13. \A i \in 1..Len(ds) : ds[i].date = days[i].date /\ ds[i].total = days[i].total
  BY <1>4, <1>6, <1>9
<1>14. PairOK(ds, write')
  <2>1. 1 \in 1..Len(days)  BY <1>4
  <2>2. ds[1].date = days[1].date /\ ds[1].total = days[1].total  BY <1>9, <1>13, <2>1
  <2> QED  BY <1>1, <1>9, <1>10, <1>13, <2>2 DEF PairOK
<1>15. files \in [Dates \X (0..MaxSeq) -> Seq(Events)] /\ log \in [Dates -> Seq(Events)]
  BY DEF IInv, HistoryOK
<1>16. HistoryOK'
  <2>1. << >> \in Seq(Events)  OBVIOUS
  <2>2. files' \in [Dates \X (0..MaxSeq) -> Seq(Events)]  BY <1>12, <1>15, <2>1
  <2> QED  BY <1>10, <1>15, <2>2 DEF HistoryOK, IInv
<1>17. OpOK'  BY <1>10, ListAssumption DEF OpOK, Idle
<1>18. \A x \in Dates, s \in 0..MaxSeq :
         files'[<<x, s>>] = IF x = h.date /\ s \in done /\ ~fails THEN << >>
                            ELSE files[<<x, s>>]
  BY <1>12, <1>15
<1>19. ASSUME NEW x \in Dates \ torn'
       PROVE  DayOK(x, ds, files', log') /\ ConfirmedDay(x, ds, log', sent)
  <2>1. x \in Dates /\ x \notin torn  BY <1>10, <1>19
  <2>2. DayOK(x, days, files, log) /\ ConfirmedDay(x, days, log, sent)
    BY <2>1 DEF IInv, DaysOK, Confirmed, Table
  <2>3. Once(ds, x)  BY <1>9, <1>13, <2>2 DEF DayOK, Once
  <2>4. x \in Tracked(ds) <=> x \in Tracked(days)  BY <1>9, <1>13 DEF Tracked
  <2>5. CASE x = r.date
    <3>1. Current(r, h)  BY <1>10, <1>19, <2>5
    <3>2. /\ h.date = x /\ r.index < Len(log[x]) /\ log[x][r.index + 1] = h.event
      BY <2>5, <3>1 DEF Current
    <3>3. RowOK(r, files, log)  BY <1>4, <2>2, <2>5 DEF DayOK
    <3>4. r.total = Len(log[x]) /\ r.index \in Nat /\ r.total \in Nat /\ r.index < r.total
      BY <1>4, <2>5, <3>2, <3>3, RowIs DEF RowOK
    <3>5. ASSUME NEW s \in 0..MaxSeq
          PROVE  FileOK(files'[<<t.date, s>>], log[t.date], s, t)
      <4>1. s \in Nat  BY ListAssumption
      <4>2. FileOK(files[<<x, s>>], log[x], s, r)  BY <2>5, <3>3 DEF RowOK
      <4>3. \/ files'[<<x, s>>] = files[<<x, s>>]
            \/ files'[<<x, s>>] = << >> /\ s \in Exhausted(r.index + 1, r.total)
        BY <1>11, <1>18, <2>1, <3>2
      <4>5. FileOK(files'[<<x, s>>], log[x], s, t)
        BY <1>4, <1>6, <3>4, <4>1, <4>2, <4>3, AckKeeps
      <4> QED  BY <1>6, <2>5, <4>5
    <3>6. RowOK(t, files', log')
      BY <1>6, <1>10, <2>5, <3>4, <3>5 DEF RowOK
    <3>7. \A i \in 1..Len(ds) : ds[i].date = x => i = m
      BY <1>4, <1>6, <1>9, <2>3, <2>5 DEF Once
    <3>8. x \in Tracked(ds)  BY <1>4, <1>6, <1>9, <2>5 DEF Tracked
    <3>9. DayOK(x, ds, files', log')  BY <1>9, <2>3, <3>6, <3>7, <3>8 DEF DayOK
    <3>10. ASSUME NEW k \in 1..t.index  PROVE log[x][k] \in sent \cup Unusable
      <4>1. k \in 1..r.index \/ k = r.index + 1  BY <1>6, <3>4
      <4>2. CASE k \in 1..r.index  BY <1>4, <2>2, <2>5, <4>2 DEF ConfirmedDay
      <4>3. CASE k = r.index + 1  BY <3>2, <4>3
      <4> QED  BY <4>1, <4>2, <4>3
    <3>11. ConfirmedDay(x, ds, log', sent)  BY <1>9, <1>10, <3>7, <3>10 DEF ConfirmedDay
    <3> QED  BY <3>9, <3>11
  <2>6. CASE x # r.date
    <3>1. x # h.date  BY <1>10, <1>19, <2>6 DEF Current
    <3>2. log'[x] = log[x] /\ \A s \in 0..MaxSeq : files'[<<x, s>>] = files[<<x, s>>]
      BY <1>10, <1>18, <2>1, <3>1
    <3>3. \A i \in 1..Len(ds) : ds[i].date = x => \E j \in 1..Len(days) : days[j] = ds[i]
      BY <1>6, <1>9, <2>6
    <3>4. DayOK(x, ds, files', log')  BY <1>9, <2>1, <2>2, <2>3, <2>4, <3>2, <3>3, DayStays
    <3>5. ConfirmedDay(x, ds, log', sent)
      BY <1>9, <2>1, <2>2, <3>2, <3>3, ConfirmedStays
    <3> QED  BY <3>4, <3>5
  <2> QED  BY <2>5, <2>6
<1>20. DaysOK(ds, files', log', torn') /\ Confirmed(ds, log', torn', sent)
  BY <1>19 DEF DaysOK, Confirmed
<1> QED  BY <1>7, <1>14, <1>16, <1>17, <1>20

-----------------------------------------------------------------------------
(* Power.                                                                   *)

\* A row with lines is the same in two tables that agree on its day.
LEMMA AgreedRow ==
  ASSUME NEW d \in Dates, NEW old, NEW new, NEW i \in 1..Len(old),
         ~Disagree(old, new, d), old[i].date = d, old[i].total > 0
  PROVE  \E j \in 1..Len(new) : new[j] = old[i]
<1>1. EntriesOf(old, d) = EntriesOf(new, d)  BY DEF Disagree
<1>2. old[i] \in EntriesOf(old, d)  BY DEF EntriesOf
<1>3. old[i] \in EntriesOf(new, d)  BY <1>1, <1>2
<1> QED  BY <1>3 DEF EntriesOf

\* A table without lines of a day agrees with one that has none, or only an empty row.
LEMMA AgreedNone ==
  ASSUME NEW d \in Dates, NEW old, NEW new \in Seq(Row), ~Disagree(old, new, d),
         \A i \in 1..Len(old) : old[i].date = d => old[i].total = 0,
         NEW fs \in [Dates \X (0..MaxSeq) -> Seq(Events)], NEW lg \in [Dates -> Seq(Events)],
         DayOK(d, new, fs, lg)
  PROVE  NoLines(d, lg) /\ (d \in Tracked(new) => ~Remains(fs, d))
<1>1. EntriesOf(old, d) = EntriesOf(new, d)  BY DEF Disagree
<1>2. EntriesOf(old, d) = {}
  <2>1. \A i \in 1..Len(old) : ~(old[i].date = d /\ old[i].total > 0)  OBVIOUS
  <2> QED  BY <2>1 DEF EntriesOf
<1>3. CASE d \in Tracked(new)
  <2>1. PICK j \in 1..Len(new) : new[j].date = d  BY <1>3 DEF Tracked
  <2>2. new[j] \in Row  OBVIOUS
  <2>3. ~(new[j].total > 0)
    <3>1. new[j].total > 0 => new[j] \in EntriesOf(new, d)  BY <2>1 DEF EntriesOf
    <3> QED  BY <1>1, <1>2, <3>1
  <2>4. new[j].total = 0  BY <2>2, <2>3, RowIs
  <2>5. RowOK(new[j], fs, lg)  BY <2>1 DEF DayOK
  <2> QED  BY <2>1, <2>2, <2>4, <2>5, EmptyDay
<1>4. CASE d \notin Tracked(new)  BY <1>4 DEF DayOK
<1> QED  BY <1>3, <1>4

LEMMA AgreedDay ==
  ASSUME NEW d \in Dates, NEW old \in Seq(Row), NEW new \in Seq(Row), ~Disagree(old, new, d),
         NEW fs \in [Dates \X (0..MaxSeq) -> Seq(Events)], NEW lg \in [Dates -> Seq(Events)],
         NEW st, Once(old, d),
         ~(d \in Tracked(old) \ Tracked(new) /\ Remains(fs, d)),
         \A i \in 1..Len(old) : old[i].date = d => old[i].index <= old[i].total,
         DayOK(d, new, fs, lg), ConfirmedDay(d, new, lg, st)
  PROVE  DayOK(d, old, fs, lg) /\ ConfirmedDay(d, old, lg, st)
<1>1. ASSUME NEW i \in 1..Len(old), old[i].date = d
      PROVE  /\ RowOK(old[i], fs, lg)
             /\ \A k \in 1..old[i].index : lg[d][k] \in st \cup Unusable
  <2>1. old[i] \in Row  OBVIOUS
  <2>2. old[i].total \in Nat /\ old[i].index \in Nat /\ old[i].index <= old[i].total
    BY <1>1, <2>1, RowIs
  <2>3. CASE old[i].total > 0
    <3>1. \E j \in 1..Len(new) : new[j] = old[i]  BY <1>1, <2>3, AgreedRow
    <3>2. PICK j \in 1..Len(new) : new[j] = old[i]  BY <3>1
    <3> QED  BY <1>1, <3>2 DEF DayOK, ConfirmedDay
  <2>4. CASE old[i].total = 0
    <3>1. \A n \in 1..Len(old) : old[n].date = d => old[n].total = 0
      BY <1>1, <2>4 DEF Once
    <3>2. NoLines(d, lg) /\ (d \in Tracked(new) => ~Remains(fs, d))  BY <3>1, AgreedNone
    <3>6. d \in Tracked(old)  BY <1>1 DEF Tracked
    <3>7. ~Remains(fs, d)  BY <3>2, <3>6
    <3>3. old[i].index = 0  BY <2>2, <2>4
    <3>4. RowOK(old[i], fs, lg)  BY <1>1, <2>1, <2>4, <3>2, <3>3, <3>7, EmptyRow
    <3>5. 1..old[i].index = {}  BY <3>3
    <3> QED  BY <3>4, <3>5
  <2> QED  BY <2>2, <2>3, <2>4
<1>2. ASSUME d \notin Tracked(old)  PROVE NoLines(d, lg)
  <2>1. \A i \in 1..Len(old) : old[i].date # d  BY <1>2, UntrackedRows
  <2> QED  BY <2>1, AgreedNone
<1> QED  BY <1>1, <1>2 DEF DayOK, ConfirmedDay

LEMMA CutStep ==
  ASSUME IInv, Cut
  PROVE  IInv'
<1>1. /\ ready = TRUE /\ ready' = FALSE /\ phase' = "IDLE" /\ sent' = sent
      /\ meta' \in {meta, Blank}
      /\ days' = << >> /\ write' = FreshWrite(NoDate) /\ op' = Idle
      /\ torn' = torn \cup {d \in Dates : \/ Disagree(meta'.days, days, d)
                                       \/ /\ d \in Tracked(meta'.days) \ Tracked(days)
                                          /\ Remains(files, d)}
      /\ files' = files /\ log' = log
  BY DEF IInv, HistoryOK, Cut, PowerCut
<1>2. PICK old : old = meta'.days  OBVIOUS
<1>3. /\ PairOK(meta'.days, meta'.write) /\ CardOK(meta'.days, torn)
      /\ meta' = [days |-> meta'.days, write |-> meta'.write]
  <2>1. CASE meta' = meta  BY <2>1 DEF IInv
  <2>2. CASE meta' = Blank  BY <2>2, BlankIs
  <2> QED  BY <1>1, <2>1, <2>2
<1>4. old \in Seq(Row) /\ CardOK(old, torn)  BY <1>2, <1>3 DEF PairOK
<1>5. CardOK(old, torn')  BY <1>1, <1>4 DEF CardOK
<1>6. PairOK(days', write')  BY <1>1, BlankIs
<1>7. HistoryOK' /\ OpOK' /\ Down' /\ Flight'
  BY <1>1, ListAssumption DEF IInv, HistoryOK, OpOK, Down, Flight, Idle
<1>8. Table' = old  BY <1>1, <1>2 DEF Table
<1>9. /\ log \in [Dates -> Seq(Events)] /\ days \in Seq(Row)
      /\ files \in [Dates \X (0..MaxSeq) -> Seq(Events)]
  BY DEF IInv, HistoryOK, PairOK
<1>10. ASSUME NEW d \in Dates \ torn'
       PROVE  DayOK(d, old, files, log) /\ ConfirmedDay(d, old, log, sent)
  <2>1. /\ d \notin torn /\ ~Disagree(old, days, d)
        /\ ~(d \in Tracked(old) \ Tracked(days) /\ Remains(files, d))
    BY <1>1, <1>2, <1>10
  <2>2. DayOK(d, days, files, log) /\ ConfirmedDay(d, days, log, sent)
    BY <1>1, <2>1 DEF IInv, DaysOK, Confirmed, Table
  <2>3. /\ Once(old, d)
        /\ \A i \in 1..Len(old) : old[i].date = d => old[i].index <= old[i].total
    BY <1>4, <2>1 DEF CardOK
  <2> QED  BY <1>4, <1>9, <2>1, <2>2, <2>3, AgreedDay
<1>11. DaysOK(Table', files', log', torn') /\ Confirmed(Table', log', torn', sent')
  BY <1>1, <1>8, <1>10 DEF DaysOK, Confirmed
<1> QED  BY <1>2, <1>3, <1>5, <1>6, <1>7, <1>11 DEF IInv

LEMMA ReadyStep ==
  ASSUME IInv, SdReady
  PROVE  IInv'
<1>1. /\ ready = FALSE /\ ready' = TRUE /\ days' = meta.days /\ write' = meta.write
      /\ files' = files /\ log' = log /\ torn' = torn /\ sent' = sent /\ meta' = meta
      /\ op' = op /\ phase' = phase /\ taken' = taken /\ cur' = cur /\ handle' = handle
  BY DEF IInv, HistoryOK, SdReady, Load, netVars
<1>2. op.kind = "idle"  BY <1>1 DEF IInv, Down, Idle
<1>3. Table' = meta.days /\ Table = meta.days  BY <1>1 DEF Table
<1>4. HistoryOK' /\ OpOK' /\ Down' /\ Flight'
  BY <1>1, <1>2 DEF IInv, HistoryOK, OpOK, Down, Flight
<1>5. DaysOK(Table', files', log', torn') /\ Confirmed(Table', log', torn', sent')
  BY <1>1, <1>3 DEF IInv
<1>6. PairOK(days', write') /\ PairOK(meta'.days, meta'.write) /\ CardOK(meta'.days, torn')
  BY <1>1 DEF IInv
<1>7. meta' = [days |-> meta'.days, write |-> meta'.write]  BY <1>1 DEF IInv
<1> QED  BY <1>4, <1>5, <1>6, <1>7 DEF IInv

-----------------------------------------------------------------------------
(* The steps of the module.                                                 *)

\* The rows of a table that is right are not read past their ends.
LEMMA DaysAreCard ==
  ASSUME NEW ds, NEW fs, NEW lg, NEW tn, DaysOK(ds, fs, lg, tn)
  PROVE  CardOK(ds, tn)
BY DEF DaysOK, CardOK, DayOK, RowOK

\* What a step owes that changes the list and leaves the rest.
LEMMA ListStep ==
  ASSUME IInv, ready = TRUE, ready' = ready, sent' = sent, meta' = meta,
         phase' = phase \/ phase' = "IDLE", taken' = taken, cur' = cur \/ phase' = "IDLE",
         handle' = handle, torn \subseteq torn',
         PairOK(days, write)', HistoryOK', OpOK',
         DaysOK(days, files, log, torn)', Confirmed(days, log, torn, sent)'
  PROVE  IInv'
<1>1. Table' = days'  BY DEF Table
<1>2. Down'  BY DEF Down
<1>3. Flight'  BY DEF IInv, Flight
<1>4. CardOK(meta'.days, torn')  BY DEF IInv, CardOK
<1>5. /\ PairOK(meta'.days, meta'.write)
      /\ meta' = [days |-> meta'.days, write |-> meta'.write]
  BY DEF IInv
<1> QED  BY <1>1, <1>2, <1>3, <1>4, <1>5 DEF IInv

\* and one that leaves the list.
LEMMA RestStep ==
  ASSUME IInv, UNCHANGED listVars, ready' = ready, sent \subseteq sent', Flight'
  PROVE  IInv'
<1>1. /\ files' = files /\ meta' = meta /\ days' = days /\ write' = write /\ op' = op
      /\ log' = log /\ torn' = torn
  BY DEF listVars
<1>2. Table' = Table  BY <1>1 DEF Table
<1>3. HistoryOK' /\ OpOK' /\ Down'  BY <1>1 DEF IInv, HistoryOK, OpOK, Down
<1>4. DaysOK(Table', files', log', torn')  BY <1>1, <1>2 DEF IInv
<1>5. Confirmed(Table', log', torn', sent')
  BY <1>1, <1>2 DEF IInv, Confirmed, ConfirmedDay
<1>6. /\ PairOK(days', write') /\ PairOK(meta'.days, meta'.write) /\ CardOK(meta'.days, torn')
      /\ meta' = [days |-> meta'.days, write |-> meta'.write]
  BY <1>1 DEF IInv
<1> QED  BY <1>3, <1>4, <1>5, <1>6 DEF IInv

LEMMA StoreStep ==
  ASSUME IInv, NEW d \in Dates, Store(d)
  PROVE  IInv'
<1>1. /\ ready = TRUE /\ op.kind = "idle" /\ next \in Events /\ ready' = ready /\ sent' = sent
      /\ phase' = phase /\ taken' = taken /\ cur' = cur /\ handle' = handle
  BY DEF IInv, HistoryOK, Store, Free, netVars
<1>2. ASSUME NEW n, AddNewDay(d, next, n)  PROVE IInv'
  <2>1. meta' = meta /\ torn \subseteq torn'  BY <1>2 DEF AddNewDay
  <2>2. /\ PairOK(days, write)' /\ HistoryOK' /\ OpOK'
        /\ DaysOK(days, files, log, torn)' /\ Confirmed(days, log, torn, sent)'
    BY <1>1, <1>2, NewDayKeeps
  <2> QED  BY <1>1, <2>1, <2>2, ListStep
<1>3. CASE AddSameDay(d, next)
  <2>1. /\ files' = files /\ meta' = meta /\ days' = days /\ write' = write /\ log' = log
        /\ torn' = torn /\ op' = [kind |-> "append", date |-> d, event |-> next]
        /\ days # << >> /\ write.date = d
    BY <1>3 DEF AddSameDay, DayChanges
  <2>2. days[1].date = d  BY <2>1 DEF IInv, PairOK
  <2>3. OpOK'  BY <1>1, <2>1, <2>2 DEF OpOK
  <2>4. PairOK(days', write') /\ HistoryOK'  BY <1>1, <2>1 DEF IInv, HistoryOK
  <2>5. DaysOK(days', files', log', torn') /\ Confirmed(days', log', torn', sent')
    BY <1>1, <2>1 DEF IInv, Table
  <2> QED  BY <1>1, <2>1, <2>3, <2>4, <2>5, ListStep
<1> QED  BY <1>2, <1>3 DEF Store

LEMMA StorageStep ==
  ASSUME IInv, Storage
  PROVE  IInv'
<1>1. /\ ready' = ready /\ sent' = sent
      /\ phase' = phase /\ taken' = taken /\ cur' = cur /\ handle' = handle
  BY DEF Storage, netVars
<1>2. op.kind # "idle"  BY DEF Storage, AddAppend, AddFails, Save, SaveFails
<1>3. ready = TRUE  BY <1>2 DEF IInv, Down, HistoryOK, Idle
<1>4. PairOK(days, write) /\ HistoryOK
  BY DEF IInv
<1>5. DaysOK(days, files, log, torn) /\ Confirmed(days, log, torn, sent)
  BY <1>3 DEF IInv, Table
<1>6. CASE AddAppend
  <2>1. meta' = meta /\ torn \subseteq torn'  BY <1>6 DEF AddAppend
  <2>2. /\ PairOK(days, write)' /\ HistoryOK' /\ OpOK'
        /\ DaysOK(days, files, log, torn)' /\ Confirmed(days, log, torn, sent)'
    BY <1>1, <1>3, <1>6, AppendStep
  <2> QED  BY <1>1, <1>3, <2>1, <2>2, ListStep
<1>7. CASE AddFails
  <2>1. files' = files /\ meta' = meta /\ days' = days /\ log' = log /\ torn' = torn
    BY <1>7 DEF AddFails
  <2>2. PairOK(days, write)' /\ OpOK'  BY <1>7, FailStep
  <2>3. HistoryOK'  BY <1>1, <1>4, <2>1 DEF HistoryOK
  <2>4. DaysOK(days', files', log', torn') /\ Confirmed(days', log', torn', sent')
    BY <1>1, <1>5, <2>1
  <2> QED  BY <1>1, <1>3, <2>1, <2>2, <2>3, <2>4, ListStep
<1>8. CASE Save \/ SaveFails
  <2>1. /\ files' = files /\ days' = days /\ write' = write /\ log' = log /\ torn' = torn
        /\ op' = Idle /\ meta' \in {meta, Blank, [days |-> days, write |-> write]}
    BY <1>8 DEF Save, SaveFails
  <2>2. /\ PairOK(meta'.days, meta'.write) /\ CardOK(meta'.days, torn)
        /\ meta' = [days |-> meta'.days, write |-> meta'.write]
    <3>1. CASE meta' = meta  BY <3>1 DEF IInv
    <3>2. CASE meta' = Blank  BY <3>2, BlankIs
    <3>3. CASE meta' = [days |-> days, write |-> write]
      BY <1>4, <1>5, <3>3, DaysAreCard
    <3> QED  BY <2>1, <3>1, <3>2, <3>3
  <2>3. HistoryOK' /\ OpOK' /\ Down' /\ Flight'
    BY <1>1, <1>3, <1>4, <2>1, ListAssumption DEF IInv, HistoryOK, OpOK, Down, Flight, Idle
  <2>4. Table' = days  BY <1>1, <1>3, <2>1 DEF Table
  <2>5. DaysOK(Table', files', log', torn') /\ Confirmed(Table', log', torn', sent')
    BY <1>1, <1>5, <2>1, <2>4
  <2>6. PairOK(days', write')  BY <1>4, <2>1
  <2> QED  BY <2>1, <2>2, <2>3, <2>5, <2>6 DEF IInv
<1> QED  BY <1>6, <1>7, <1>8 DEF Storage

LEMMA DiscardStep ==
  ASSUME IInv, Discard
  PROVE  IInv'
<1>1. /\ ready = TRUE /\ ready' = ready /\ sent' = sent
      /\ phase' = phase /\ taken' = taken /\ cur' = cur /\ handle' = handle
  BY DEF IInv, HistoryOK, Discard, MaySend, Free, netVars
<1>2. PICK h : h = Peek  OBVIOUS
<1>3. PICK fails : Ack(h, fails) /\ h.event \in sent \cup Unusable  BY <1>2 DEF Discard
<1>4. meta' = meta /\ torn \subseteq torn'  BY <1>3 DEF Ack
<1>5. /\ PairOK(days, write)' /\ HistoryOK' /\ OpOK'
      /\ DaysOK(days, files, log, torn)' /\ Confirmed(days, log, torn, sent)'
  BY <1>1, <1>3, AckStep
<1> QED  BY <1>1, <1>4, <1>5, ListStep

LEMMA ResultStep ==
  ASSUME IInv, NEW ok \in BOOLEAN, Result(ok)
  PROVE  IInv'
<1>1. /\ ready = TRUE /\ ready' = ready /\ sent' = sent /\ phase = "EXECUTING"
      /\ phase' = "IDLE" /\ taken' = taken /\ handle' = handle
  BY DEF IInv, HistoryOK, Result, Free
<1>2. CASE cur = "retx" /\ ok
  <2>1. PICK fails : Ack(handle, fails)  BY <1>2 DEF Result
  <2>2. taken  BY <1>2 DEF Result
  <2>3. handle.event \in sent \cup Unusable  BY <1>1, <1>2, <2>2 DEF IInv, Flight
  <2>4. meta' = meta /\ torn \subseteq torn'  BY <2>1 DEF Ack
  <2>5. /\ PairOK(days, write)' /\ HistoryOK' /\ OpOK'
        /\ DaysOK(days, files, log, torn)' /\ Confirmed(days, log, torn, sent)'
    BY <1>1, <2>1, <2>3, AckStep
  <2> QED  BY <1>1, <2>4, <2>5, ListStep
<1>3. CASE ~(cur = "retx" /\ ok)
  <2>1. UNCHANGED listVars  BY <1>3 DEF Result
  <2>2. Flight'  BY <1>1 DEF Flight
  <2> QED  BY <1>1, <2>1, <2>2, RestStep
<1> QED  BY <1>2, <1>3

LEMMA NextInv == IInv /\ [Next]_vars => IInv'
<1> SUFFICES ASSUME IInv, [Next]_vars  PROVE IInv'  OBVIOUS
<1>1. ASSUME NEW d \in Dates, Store(d)  PROVE IInv'  BY <1>1, StoreStep
<1>2. CASE Storage  BY <1>2, StorageStep
<1>3. CASE TrySend
  <2>1. UNCHANGED listVars /\ ready' = ready /\ sent' = sent /\ phase' = "STARTING"
    BY <1>3 DEF TrySend
  <2> QED  BY <2>1, RestStep DEF Flight
<1>4. CASE Discard  BY <1>4, DiscardStep
<1>5. CASE OtherEvent
  <2>1. UNCHANGED listVars /\ ready' = ready /\ sent' = sent /\ phase' = "STARTING"
    BY <1>5 DEF OtherEvent
  <2> QED  BY <2>1, RestStep DEF Flight
<1>6. CASE Started
  <2>1. UNCHANGED listVars /\ ready' = ready /\ sent' = sent /\ taken' = FALSE
    BY <1>6 DEF Started
  <2> QED  BY <2>1, RestStep DEF Flight
<1>7. CASE StartBusy
  <2>1. UNCHANGED listVars /\ ready' = ready /\ sent' = sent /\ phase' = "IDLE"
    BY <1>7 DEF StartBusy
  <2> QED  BY <2>1, RestStep DEF Flight
<1>8. CASE CloudAccepts
  <2>1. /\ UNCHANGED listVars /\ ready' = ready /\ cur' = cur /\ handle' = handle
        /\ sent' = IF cur = "retx" THEN sent \cup {handle.event} ELSE sent
    BY <1>8 DEF CloudAccepts
  <2>2. Flight' /\ sent \subseteq sent'  BY <2>1 DEF Flight
  <2> QED  BY <2>1, <2>2, RestStep
<1>9. ASSUME NEW ok \in BOOLEAN, Result(ok)  PROVE IInv'  BY <1>9, ResultStep
<1>10. CASE Tick
  <2>1. /\ UNCHANGED listVars /\ ready' = ready /\ sent' = sent /\ phase' = phase
        /\ taken' = taken /\ cur' = cur /\ handle' = handle
    BY <1>10 DEF Tick
  <2>2. Flight'  BY <2>1 DEF IInv, Flight
  <2> QED  BY <2>1, <2>2, RestStep
<1>11. CASE Cut  BY <1>11, CutStep
<1>12. CASE SdReady  BY <1>12, ReadyStep
<1>13. CASE UNCHANGED vars
  <2>1. /\ UNCHANGED listVars /\ ready' = ready /\ sent' = sent /\ phase' = phase
        /\ taken' = taken /\ cur' = cur /\ handle' = handle
    BY <1>13 DEF vars, netVars
  <2>2. Flight'  BY <2>1 DEF IInv, Flight
  <2> QED  BY <2>1, <2>2, RestStep
<1> QED
  BY <1>1, <1>2, <1>3, <1>4, <1>5, <1>6, <1>7, <1>8, <1>9, <1>10, <1>11, <1>12, <1>13 DEF Next

-----------------------------------------------------------------------------
(* What the properties ask.                                                 *)

\* Each line that is counted has a file.
LEMMA FileExists ==
  ASSUME NEW k \in Nat, NEW n \in Nat, k < n, n <= Start(MaxSeq + 1)
  PROVE  FileOf(k) \in 0..MaxSeq
<1>1. PICK s : s = FileOf(k)  OBVIOUS
<1>2. s \in Nat /\ Start(s) \in Nat /\ Start(s) <= k /\ MaxLines \in Nat
  BY <1>1, FileIs, StartIs
<1>3. MaxSeq \in Nat /\ MaxSeq + 1 \in Nat  BY ListAssumption
<1>4. Start(MaxSeq + 1) \in Nat  BY <1>3, StartIs
<1>5. Start(s) < Start(MaxSeq + 1)  BY <1>2, <1>4
<1>6. ASSUME s > MaxSeq  PROVE FALSE
  <2>1. s = MaxSeq + 1 \/ MaxSeq + 1 < s  BY <1>2, <1>3, <1>6
  <2>2. CASE s = MaxSeq + 1  BY <1>4, <1>5, <2>2
  <2>3. CASE MaxSeq + 1 < s  BY <1>2, <1>3, <1>4, <1>5, <2>3, StartGrows
  <2> QED  BY <2>1, <2>2, <2>3
<1> QED  BY <1>1, <1>2, <1>3, <1>6

\* A line that is left is in its file.
LEMMA LineIsThere ==
  ASSUME IInv, NEW i \in 1..Len(Table), Table[i] \in Row, Table[i].date \notin torn,
         NEW k \in Nat, Table[i].index <= k, k < Table[i].total,
         Table[i].total <= Start(MaxSeq + 1)
  PROVE  LineAt(Table[i].date, k) = log[Table[i].date][k + 1]
<1>1. PICK t : t = Table[i]  OBVIOUS
<1>2. t \in Row /\ t.date \in Dates /\ t.total \in Nat /\ t.index \in Nat  BY <1>1, RowIs
<1>3. RowOK(t, files, log)  BY <1>1, <1>2 DEF IInv, DaysOK, DayOK
<1>4. PICK s : s = FileOf(k)  OBVIOUS
<1>5. PICK r : r = k % MaxLines  OBVIOUS
<1>6. /\ s \in Nat /\ r \in Nat /\ r < MaxLines /\ k = Start(s) + r
      /\ MaxLines \in Nat /\ MaxLines >= 1
  BY <1>4, <1>5, FileIs, ListAssumption
<1>7. Start(s) \in Nat /\ Start(s + 1) = Start(s) + MaxLines  BY <1>6, StartIs
<1>8. s \in 0..MaxSeq  BY <1>1, <1>2, <1>4, FileExists
<1>18. t.index <= k /\ k < t.total  BY <1>1
<1>9. ~Passed(s, t)
  <2>1. ~(t.index >= Start(s + 1)) /\ ~(t.index >= t.total)
    BY ONLY <1>2, <1>6, <1>7, <1>18, k \in Nat
  <2> QED  BY <2>1, Zenon DEF Passed
<1>10. FileOK(files[<<t.date, s>>], log[t.date], s, t)  BY <1>3, <1>8 DEF RowOK
<1>11. PICK f : f = files[<<t.date, s>>]  OBVIOUS
<1>12. Len(f) = LinesIn(s, t.total) /\ \A j \in 1..Len(f) : f[j] = log[t.date][Start(s) + j]
  BY <1>9, <1>10, <1>11 DEF FileOK, Holds
<1>13. r + 1 <= LinesIn(s, t.total) /\ LinesIn(s, t.total) \in Nat
  <2>1. t.total >= Start(s) + (r + 1)  BY ONLY <1>2, <1>6, <1>7, <1>18, k \in Nat
  <2>2. CASE t.total >= Start(s + 1)
    <3>1. ~(t.total <= Start(s))  BY ONLY <1>2, <1>6, <1>7, <2>2
    <3>2. LinesIn(s, t.total) = MaxLines  BY <2>2, <3>1, Zenon DEF LinesIn
    <3> QED  BY ONLY <1>6, <3>2
  <2>3. CASE ~(t.total >= Start(s + 1))
    <3>1. ~(t.total <= Start(s))  BY ONLY <1>2, <1>6, <1>7, <2>1
    <3>2. LinesIn(s, t.total) = t.total - Start(s)  BY <2>3, <3>1, Zenon DEF LinesIn
    <3>3. t.total - Start(s) \in Nat /\ r + 1 <= t.total - Start(s)
      BY <1>2, <1>6, <1>7, <2>1, LeftOver
    <3> QED  BY <3>2, <3>3
  <2> QED  BY <2>2, <2>3
<1>14. r + 1 \in 1..Len(f)  BY <1>6, <1>12, <1>13
<1>15. Start(s) + (r + 1) = k + 1  BY <1>6, <1>7
<1>16. f[r + 1] = log[t.date][k + 1]  BY <1>12, <1>14, <1>15
<1>17. LineAt(t.date, k) = f[r + 1]
  <2>1. r + 1 <= Len(f)  BY <1>14
  <2> QED  BY <1>4, <1>5, <1>11, <2>1 DEF LineAt
<1> QED  BY <1>1, <1>16, <1>17

LEMMA TableIs ==
  ASSUME IInv
  PROVE  /\ Table \in Seq(Row)
         /\ \A i \in 1..Len(Table) : Table[i] \in Row /\ Table[i].total <= Start(MaxSeq + 1)
<1>1. ASSUME NEW ds, NEW w, PairOK(ds, w)
      PROVE  /\ ds \in Seq(Row)
             /\ \A i \in 1..Len(ds) : ds[i] \in Row /\ ds[i].total <= Start(MaxSeq + 1)
  BY <1>1 DEF PairOK
<1>2. CASE ready  BY <1>1, <1>2 DEF IInv, Table
<1>3. CASE ~ready  BY <1>1, <1>3 DEF IInv, Table
<1> QED  BY <1>2, <1>3

LEMMA IsExact == IInv => QueueExact
<1> SUFFICES ASSUME IInv, NEW i \in 1..Len(Table), Table[i].date \notin torn
             PROVE  /\ Table[i].total = Len(log[Table[i].date])
                    /\ Table[i].index <= Table[i].total
                    /\ \A k \in Table[i].index..Table[i].total - 1 :
                         LineAt(Table[i].date, k) = log[Table[i].date][k + 1]
  BY DEF QueueExact
<1>1. Table[i] \in Row /\ Table[i].total <= Start(MaxSeq + 1)  BY TableIs
<1>2. Table[i].date \in Dates /\ Table[i].total \in Nat /\ Table[i].index \in Nat  BY <1>1, RowIs
<1>3. RowOK(Table[i], files, log)  BY <1>2 DEF IInv, DaysOK, DayOK
<1>4. ASSUME NEW k \in Table[i].index..Table[i].total - 1
      PROVE  LineAt(Table[i].date, k) = log[Table[i].date][k + 1]
  <2>1. k \in Nat /\ Table[i].index <= k /\ k < Table[i].total  BY <1>2
  <2> QED  BY <1>1, <2>1, LineIsThere
<1> QED  BY <1>3, <1>4 DEF RowOK

LEMMA IsConfirmed == IInv => ConsumedWasSent
<1> SUFFICES ASSUME IInv, NEW i \in 1..Len(Table), Table[i].date \notin torn
             PROVE  \A k \in 1..Table[i].index :
                      log[Table[i].date][k] \in sent \cup Unusable
  BY DEF ConsumedWasSent
<1>1. Table[i].date \in Dates  BY TableIs, RowIs
<1> QED  BY <1>1 DEF IInv, Confirmed, ConfirmedDay

-----------------------------------------------------------------------------
(* The types of the rest of the state.                                      *)

Handles == [day : 1..MaxDays, date : Dates, line : Nat, event : Events]

\* While a record is posted, the handle is of a line of the list.
NetTypes ==
  /\ phase \in {"IDLE", "STARTING", "EXECUTING"} /\ cur \in {"none", "retx", "other"}
  /\ {ready, inProgress, lastFailed, taken} \subseteq BOOLEAN
  /\ handle = NoHandle \/ handle \in Handles
  /\ phase # "IDLE" /\ cur = "retx" => handle \in Handles
  /\ sent \subseteq Events /\ torn \subseteq Dates

LEMMA Least == ASSUME NEW S \in SUBSET Nat, S # {}  PROVE \E n \in S : \A m \in S : n <= m
<1>1. PICK r : r = OpToRel(<, Nat)  OBVIOUS
<1>2. PICK n \in S : \A m \in S : ~(<<m, n>> \in r)
  BY <1>1, WFMin, NatLessThanWellFounded, Zenon
<1>3. r = {p \in Nat \X Nat : p[1] < p[2]}  BY <1>1, Zenon DEF OpToRel
<1>4. \A m \in S : ~(m < n)  BY ONLY S \in SUBSET Nat, n \in S, <1>2, <1>3
<1> QED  BY <1>4

\* The oldest day with a line left is a day of the table.
LEMMA OldestIs ==
  ASSUME days \in Seq(Row), Pending
  PROVE  /\ Oldest \in 1..Len(days) /\ HasMore(Oldest)
         /\ \A j \in Oldest + 1 .. Len(days) : ~HasMore(j)
<1>1. PICK N \in Nat : N = Len(days)  OBVIOUS
<1> DEFINE S == {n \in 0..N : n < N /\ HasMore(N - n)}
<1>2. S \in SUBSET Nat  OBVIOUS
<1>3. S # {}
  <2>1. PICK i \in 1..Len(days) : HasMore(i)  BY DEF Pending
  <2>2. N - i \in 0..N /\ N - i < N /\ N - (N - i) = i  BY <1>1
  <2> QED  BY <2>1, <2>2
<1>4. PICK n \in S : \A m \in S : n <= m  BY <1>2, <1>3, Least
<1>5. PICK i : i = N - n  OBVIOUS
<1>6. i \in 1..N /\ HasMore(i) /\ n = N - i  BY <1>1, <1>4, <1>5
<1>7. ASSUME NEW j \in i + 1 .. N, HasMore(j)  PROVE FALSE
  <2>1. N - j \in 0..N /\ N - j < N /\ N - (N - j) = j  BY <1>1, <1>6
  <2>2. N - j \in S  BY <1>7, <2>1
  <2>3. N - i <= N - j  BY <1>4, <1>6, <2>2
  <2> QED  BY <1>1, <1>6, <2>3
<1>8. \E k \in 1..Len(days) : HasMore(k) /\ \A j \in k + 1 .. Len(days) : ~HasMore(j)
  BY <1>1, <1>6, <1>7
<1> QED  BY <1>8 DEF Oldest

LEMMA PeekIs ==
  ASSUME IInv, PeekOK
  PROVE  Peek \in Handles
<1>1. /\ days \in Seq(Row) /\ Len(days) <= MaxDays
      /\ \A i \in 1..Len(days) : days[i].total <= Start(MaxSeq + 1)
      /\ files \in [Dates \X (0..MaxSeq) -> Seq(Events)]
  BY DEF IInv, PairOK, HistoryOK
<1>2. PICK o : o = Oldest  OBVIOUS
<1>3. o \in 1..Len(days) /\ HasMore(o)  BY <1>1, <1>2, OldestIs DEF PeekOK
<1>4. PICK t : t = days[o]  OBVIOUS
<1>5. t \in Row /\ t.date \in Dates /\ t.index \in Nat /\ t.total \in Nat
  BY <1>1, <1>3, <1>4, RowIs
<1>6. t.index < t.total /\ t.total <= Start(MaxSeq + 1)  BY <1>1, <1>3, <1>4 DEF HasMore
<1>7. Peek = [day |-> o, date |-> t.date, line |-> t.index, event |-> LineAt(t.date, t.index)]
  BY <1>2, <1>4 DEF Peek
<1>8. FileOf(t.index) \in 0..MaxSeq  BY <1>5, <1>6, FileExists
<1>9. PICK f : f = files[<<t.date, FileOf(t.index)>>]  OBVIOUS
<1>10. f \in Seq(Events)  BY <1>1, <1>5, <1>8, <1>9
<1>11. PICK r : r = t.index % MaxLines  OBVIOUS
<1>12. r \in Nat  BY <1>5, <1>11, FileIs, ListAssumption
<1>13. LineAt(t.date, t.index) = IF r + 1 <= Len(f) THEN f[r + 1] ELSE NoEvent
  BY <1>9, <1>11 DEF LineAt
<1>14. LineAt(t.date, t.index) # NoEvent  BY <1>7 DEF PeekOK
<1>15. LineAt(t.date, t.index) \in Events  BY <1>10, <1>12, <1>13, <1>14
<1>16. o \in 1..MaxDays  BY <1>1, <1>3, ListAssumption
<1> QED  BY <1>5, <1>7, <1>15, <1>16 DEF Handles

LEMMA InitNet == Init => NetTypes
BY DEF Init, ListInit, NetTypes

\* An acknowledgement tears dates of the calendar only.
LEMMA AckTears ==
  ASSUME IInv, NEW h, NEW fails, Ack(h, fails), h.date \in Dates, torn \subseteq Dates
  PROVE  torn' \subseteq Dates
<1>1. days \in Seq(Row)  BY DEF IInv, PairOK
<1>2. PICK m : m = h.day  OBVIOUS
<1>3. m \in 1..Len(days) /\ torn' \subseteq torn \cup {days[m].date, h.date}
  BY <1>2 DEF Ack
<1>4. days[m].date \in Dates  BY <1>1, <1>3, RowIs
<1> QED  BY <1>3, <1>4

LEMMA NextNet == IInv /\ NetTypes /\ [Next]_vars => NetTypes'
<1> SUFFICES ASSUME IInv, NetTypes, [Next]_vars  PROVE NetTypes'  OBVIOUS
<1>1. ASSUME UNCHANGED <<ready, netVars, sent>>, torn' \subseteq Dates  PROVE NetTypes'
  BY <1>1 DEF NetTypes, netVars, NoHandle
<1>2. ASSUME NEW d \in Dates, Store(d)  PROVE NetTypes'
  <2>1. torn' \subseteq torn \cup {d}  BY <1>2 DEF Store, AddNewDay, AddSameDay
  <2> QED  BY <1>1, <1>2, <2>1 DEF Store, NetTypes
<1>3. CASE Storage
  <2>2. days # << >> => days[1].date \in Dates
    <3>1. days \in Seq(Row)  BY DEF IInv, PairOK
    <3>2. days # << >> => 1 \in 1..Len(days)  BY <3>1
    <3> QED  BY <3>1, <3>2, RowIs
  <2>3. torn' \subseteq Dates
    <3>1. CASE AddAppend
      <4>1. days # << >> /\ op.date = days[1].date  BY <3>1 DEF AddAppend, IInv, OpOK
      <4>2. torn' \subseteq torn \cup {op.date}  BY <3>1 DEF AddAppend
      <4> QED  BY <2>2, <4>1, <4>2 DEF NetTypes
    <3>2. CASE AddFails \/ Save \/ SaveFails
      BY <3>2 DEF AddFails, Save, SaveFails, NetTypes
    <3> QED  BY <1>3, <3>1, <3>2 DEF Storage
  <2> QED  BY <1>1, <1>3, <2>3 DEF Storage
<1>4. CASE TrySend
  <2>1. handle' \in Handles  BY <1>4, PeekIs DEF TrySend, MaySend
  <2> QED  BY <1>4, <2>1 DEF TrySend, NetTypes, listVars
<1>5. CASE Discard
  <2>1. Peek.date \in Dates  BY <1>5, PeekIs DEF Discard, MaySend, Handles
  <2>2. torn' \subseteq Dates  BY <1>5, <2>1, AckTears DEF Discard, NetTypes
  <2> QED  BY <1>1, <1>5, <2>2 DEF Discard
<1>6. CASE OtherEvent  BY <1>6 DEF OtherEvent, NetTypes, listVars, NoHandle
<1>7. CASE Started  BY <1>7 DEF Started, NetTypes, listVars, NoHandle
<1>8. CASE StartBusy  BY <1>8 DEF StartBusy, NetTypes, listVars, NoHandle
<1>9. CASE CloudAccepts
  <2>1. cur = "retx" => handle.event \in Events  BY <1>9 DEF CloudAccepts, NetTypes, Handles
  <2> QED  BY <1>9, <2>1 DEF CloudAccepts, NetTypes, listVars, NoHandle
<1>10. ASSUME NEW ok \in BOOLEAN, Result(ok)  PROVE NetTypes'
  <2>1. cur = "retx" => handle.date \in Dates  BY <1>10 DEF Result, NetTypes, Handles
  <2>2. torn' \subseteq Dates
    <3>1. CASE cur = "retx" /\ ok
      <4>1. PICK fails : Ack(handle, fails)  BY <1>10, <3>1 DEF Result
      <4> QED  BY <2>1, <3>1, <4>1, AckTears DEF NetTypes
    <3>2. CASE ~(cur = "retx" /\ ok)  BY <1>10, <3>2 DEF Result, listVars, NetTypes
    <3> QED  BY <3>1, <3>2
  <2>3. inProgress' \in BOOLEAN /\ lastFailed' \in BOOLEAN  BY <1>10 DEF Result, NetTypes
  <2> QED  BY <1>10, <2>2, <2>3 DEF Result, NetTypes, NoHandle
<1>11. CASE Tick  BY <1>11 DEF Tick, NetTypes, listVars, NoHandle
<1>12. CASE Cut  BY <1>12 DEF Cut, PowerCut, NetTypes
<1>13. CASE SdReady  BY <1>13 DEF SdReady, Load, netVars, NetTypes, NoHandle
<1>14. CASE UNCHANGED vars  BY <1>14 DEF vars, listVars, netVars, NetTypes, NoHandle
<1> QED
  BY <1>2, <1>3, <1>4, <1>5, <1>6, <1>7, <1>8, <1>9, <1>10, <1>11, <1>12, <1>13, <1>14
  DEF Next

\* What is left undeleted is a file.
Known == undeleted \subseteq Dates \X (0..MaxSeq)

LEMMA NextKnown == IInv /\ Known /\ [Next]_vars => Known'
<1> SUFFICES ASSUME IInv, Known, [Next]_vars  PROVE Known'  OBVIOUS
<1>1. DOMAIN files = Dates \X (0..MaxSeq)  BY DEF IInv, HistoryOK
<1>2. ASSUME NEW h, NEW fails, Ack(h, fails)  PROVE Known'  BY <1>1, <1>2 DEF Ack, Known
<1>3. ASSUME undeleted' = undeleted  PROVE Known'  BY <1>3 DEF Known
<1>4. ASSUME NEW d \in Dates, Store(d)  PROVE Known'
  BY <1>1, <1>4 DEF Store, AddNewDay, AddSameDay, Known
<1>5. CASE Storage  BY <1>3, <1>5 DEF Storage, AddAppend, AddFails, Save, SaveFails
<1>6. CASE Discard  BY <1>2, <1>6 DEF Discard
<1>7. ASSUME NEW ok \in BOOLEAN, Result(ok)  PROVE Known'
  BY <1>2, <1>3, <1>7 DEF Result, listVars
<1>8. CASE TrySend \/ OtherEvent \/ Started \/ StartBusy \/ CloudAccepts \/ Tick
  BY <1>3, <1>8 DEF TrySend, OtherEvent, Started, StartBusy, CloudAccepts, Tick, listVars
<1>9. CASE Cut \/ SdReady  BY <1>3, <1>9 DEF Cut, PowerCut, SdReady, Load
<1>10. CASE UNCHANGED vars  BY <1>3, <1>10 DEF vars, listVars
<1> QED  BY <1>4, <1>5, <1>6, <1>7, <1>8, <1>9, <1>10 DEF Next

LEMMA IsTyped == IInv /\ NetTypes /\ Known => TypeOK
<1> SUFFICES ASSUME IInv, NetTypes, Known  PROVE TypeOK  OBVIOUS
<1>1. ASSUME NEW m \in {meta, [days |-> days, write |-> write]}
      PROVE  /\ m.days \in Seq([date : Dates, total : Nat, index : Nat])
             /\ Len(m.days) <= MaxDays
             /\ m.write \in [date : Dates \cup {NoDate}, seq : Nat, lines : 0..MaxLines]
  <2>1. PairOK(m.days, m.write)  BY DEF IInv
  <2> QED  BY <2>1 DEF PairOK, Row
<1>2. handle \in [day : 0..MaxDays, date : Dates \cup {NoDate}, line : Nat,
                  event : Events \cup {NoEvent}]
  <2>1. CASE handle = NoHandle  BY <2>1, ListAssumption DEF NoHandle
  <2>2. CASE handle \in Handles  BY <2>2, ListAssumption DEF Handles
  <2> QED  BY <2>1, <2>2 DEF NetTypes
<1>3. undeleted \subseteq DOMAIN files  BY DEF IInv, HistoryOK, Known
<1> QED  BY <1>1, <1>2, <1>3 DEF IInv, HistoryOK, OpOK, NetTypes, TypeOK

-----------------------------------------------------------------------------
(* Flattening.                                                              *)

\* A sequence that is not empty is its last element after the others.
LEMMA Split ==
  ASSUME NEW X, NEW s \in Seq(X), s # << >>
  PROVE  \E r \in Seq(X), x \in X : /\ s = Append(r, x) /\ Len(s) = Len(r) + 1
                                    /\ \A i \in 1..Len(r) : r[i] = s[i]
<1>1. PICK n \in Nat : Len(s) = n + 1
  <2>1. Len(s) \in Nat /\ Len(s) # 0  OBVIOUS
  <2>2. Len(s) - 1 \in Nat /\ Len(s) = (Len(s) - 1) + 1  BY <2>1
  <2> QED  BY <2>2
<1> DEFINE r == [i \in 1..n |-> s[i]]
<1>2. r \in Seq(X) /\ Len(r) = n  BY <1>1
<1>3. Append(r, s[n + 1]) = s /\ s[n + 1] \in X  BY <1>1, <1>2
<1> QED  BY <1>1, <1>2, <1>3

LEMMA AppendIs ==
  ASSUME NEW X, NEW s \in Seq(X), NEW x \in X
  PROVE  /\ Append(s, x) \in Seq(X) /\ Append(s, x) # << >>
         /\ Len(Append(s, x)) = Len(s) + 1 /\ Len(s) \in Nat
         /\ Append(s, x)[Len(s) + 1] = x
         /\ \A i \in 1..Len(s) : Append(s, x)[i] = s[i]
OBVIOUS

\* The function that FlattenSeq defines by recursion.
Stages(ss, f) == f = [i \in 1..Len(ss) |-> IF i = 1 THEN ss[i] ELSE f[i - 1] \o ss[i]]

LEMMA FlattenIs ==
  ASSUME NEW ss, Len(ss) # 0
  PROVE  FlattenSeq(ss) = (CHOOSE f : Stages(ss, f))[Len(ss)]
BY Zenon DEF FlattenSeq, Stages

\* There is such a function: of a shorter sequence, one stage more.
OneMore(ss, s, f, g) ==
  /\ Stages(Append(ss, s), g)
  /\ \A i \in 1..Len(ss) : g[i] = f[i]
  /\ g[Len(ss) + 1] = (IF ss = << >> THEN s ELSE f[Len(ss)] \o s)

LEMMA StagesGrow ==
  ASSUME NEW V, NEW ss \in Seq(Seq(V)), NEW s \in Seq(V), NEW f, Stages(ss, f)
  PROVE  \E g : OneMore(ss, s, f, g)
<1> DEFINE tt == Append(ss, s)
           n == Len(ss)
           g == [i \in 1..n + 1 |-> IF i = n + 1 THEN IF ss = << >> THEN s ELSE f[n] \o s
                                    ELSE f[i]]
<1>1. n \in Nat /\ Len(tt) = n + 1 /\ tt[n + 1] = s /\ \A i \in 1..n : tt[i] = ss[i]
  OBVIOUS
<1>2. ss = << >> <=> n = 0  OBVIOUS
<1>3. f = [i \in 1..n |-> IF i = 1 THEN ss[i] ELSE f[i - 1] \o ss[i]]  BY DEF Stages
<1>4. ASSUME NEW i \in 1..n + 1
      PROVE  g[i] = IF i = 1 THEN tt[i] ELSE g[i - 1] \o tt[i]
  <2>1. CASE i = n + 1
    <3>1. CASE n = 0  BY <1>1, <1>2, <2>1, <3>1
    <3>2. CASE n # 0
      <4>1. g[i] = f[n] \o s  BY <1>1, <1>2, <2>1, <3>2
      <4>2. i # 1 /\ i - 1 = n /\ n \in 1..n + 1 /\ n # n + 1  BY <1>1, <2>1, <3>2
      <4>3. g[i - 1] = f[n]  BY <4>2
      <4> QED  BY <1>1, <2>1, <4>1, <4>2, <4>3
    <3> QED  BY <3>1, <3>2
  <2>2. CASE i \in 1..n
    <3>1. g[i] = f[i] /\ f[i] = IF i = 1 THEN ss[i] ELSE f[i - 1] \o ss[i]
      BY <1>1, <1>3, <2>2, i \in 1..n + 1 /\ i # n + 1
    <3>2. i # 1 => i - 1 \in 1..n + 1 /\ i - 1 # n + 1  BY <1>1, <2>2
    <3>3. i # 1 => g[i - 1] = f[i - 1]  BY <3>2
    <3>4. tt[i] = ss[i]  BY <1>1, <2>2
    <3> HIDE DEF g, tt
    <3> QED  BY <3>1, <3>3, <3>4
  <2> QED  BY <1>1, <2>1, <2>2
<1>5. Stages(tt, g)
  <2>1. g = [i \in 1..n + 1 |-> g[i]]  OBVIOUS
  <2> HIDE DEF g, tt, n
  <2>2. g = [i \in 1..n + 1 |-> IF i = 1 THEN tt[i] ELSE g[i - 1] \o tt[i]]  BY <1>4, <2>1
  <2> QED  BY <1>1, <2>2 DEF Stages
<1>6. ASSUME NEW i \in 1..n  PROVE g[i] = f[i]
  <2>1. i \in 1..n + 1 /\ i # n + 1  BY <1>1, <1>6
  <2> QED  BY <2>1
<1>7. g[n + 1] = (IF ss = << >> THEN s ELSE f[n] \o s)  BY <1>1
<1>8. OneMore(ss, s, f, g)  BY <1>5, <1>6, <1>7 DEF OneMore
<1> HIDE DEF g
<1> QED  BY <1>8

LEMMA StagesExist ==
  ASSUME NEW V, NEW ss \in Seq(Seq(V))
  PROVE  \E f : Stages(ss, f) /\ \A i \in 1..Len(ss) : f[i] \in Seq(V)
<1> DEFINE Has(tt) == \E f : Stages(tt, f) /\ \A i \in 1..Len(tt) : f[i] \in Seq(V)
           S == {n \in Nat : \E tt \in Seq(Seq(V)) : Len(tt) = n /\ ~Has(tt)}
<1>1. SUFFICES ASSUME S # {}  PROVE FALSE
  <2>1. Len(ss) \in Nat  OBVIOUS
  <2> QED  BY <1>1, <2>1
<1>2. PICK n \in S : \A m \in S : n <= m
  <2>1. S \in SUBSET Nat  OBVIOUS
  <2> HIDE DEF S
  <2> QED  BY <1>1, <2>1, Least
<1>3. PICK tt \in Seq(Seq(V)) : Len(tt) = n /\ ~Has(tt)  BY <1>2
<1>4. n \in Nat  BY <1>2
<1>5. CASE tt = << >>
  <2>1. Len(tt) = 0 /\ 1..0 = {}  BY <1>5
  <2>2. PICK f : f = [i \in 1..Len(tt) |-> tt[i]]  OBVIOUS
  <2>3. f = [i \in 1..Len(tt) |-> IF i = 1 THEN tt[i] ELSE f[i - 1] \o tt[i]]  BY <2>1, <2>2
  <2> QED  BY <1>3, <2>1, <2>3 DEF Stages
<1>6. CASE tt # << >>
  <2>1. PICK r \in Seq(Seq(V)), x \in Seq(V) : tt = Append(r, x) /\ Len(tt) = Len(r) + 1
    BY <1>6, Split
  <2>2. Has(r)
    <3>1. Len(r) \in Nat /\ ~(n <= Len(r))  BY <1>3, <1>4, <2>1
    <3> HIDE DEF Has
    <3> QED  BY <1>2, <3>1
  <2>3. PICK f : Stages(r, f) /\ \A i \in 1..Len(r) : f[i] \in Seq(V)  BY <2>2
  <2>7. PICK g : OneMore(r, x, f, g)  BY <2>3, StagesGrow, Zenon
  <2>4. /\ Stages(Append(r, x), g) /\ \A i \in 1..Len(r) : g[i] = f[i]
        /\ g[Len(r) + 1] = (IF r = << >> THEN x ELSE f[Len(r)] \o x)
    BY <2>7 DEF OneMore
  <2>5. g[Len(r) + 1] \in Seq(V)
    <3>1. CASE r = << >>  BY <2>4, <3>1
    <3>2. CASE r # << >>
      <4>1. Len(r) \in 1..Len(r)  BY <3>2
      <4> QED  BY <2>3, <2>4, <3>2, <4>1
    <3> QED  BY <3>1, <3>2
  <2>6. ASSUME NEW i \in 1..Len(tt)  PROVE g[i] \in Seq(V)
    <3>1. i = Len(r) + 1 \/ i \in 1..Len(r)  BY <2>1, <2>6, Len(r) \in Nat
    <3> QED  BY <2>3, <2>4, <2>5, <3>1
  <2> QED  BY <1>3, <2>1, <2>4, <2>6
<1> QED  BY <1>5, <1>6

\* and it is the only one.
LEMMA StagesAgree ==
  ASSUME NEW ss, NEW tt, NEW f, NEW g, Len(ss) \in Nat, Len(tt) \in Nat,
         Stages(ss, f), Stages(tt, g),
         Len(ss) <= Len(tt), \A i \in 1..Len(ss) : ss[i] = tt[i]
  PROVE  \A i \in 1..Len(ss) : f[i] = g[i]
<1> DEFINE S == {n \in 1..Len(ss) : f[n] # g[n]}
<1> SUFFICES ASSUME S # {}  PROVE FALSE  OBVIOUS
<1>1. PICK n \in S : \A m \in S : n <= m
  <2>1. S \in SUBSET Nat  OBVIOUS
  <2> HIDE DEF S
  <2> QED  BY <2>1, Least
<1>2. n \in 1..Len(ss) /\ n \in 1..Len(tt) /\ f[n] # g[n] /\ ss[n] = tt[n]  BY <1>1
<1>3. f[n] = IF n = 1 THEN ss[n] ELSE f[n - 1] \o ss[n]  BY <1>2 DEF Stages
<1>4. g[n] = IF n = 1 THEN tt[n] ELSE g[n - 1] \o tt[n]  BY <1>2 DEF Stages
<1>5. CASE n = 1  BY <1>2, <1>3, <1>4, <1>5
<1>6. CASE n # 1
  <2>1. n - 1 \in 1..Len(ss) /\ ~(n <= n - 1)  BY <1>2, <1>6
  <2>2. f[n - 1] = g[n - 1]  BY <1>1, <2>1
  <2> QED  BY <1>2, <1>3, <1>4, <1>6, <2>2
<1> QED  BY <1>5, <1>6

LEMMA FlattenStage ==
  ASSUME NEW V, NEW ss \in Seq(Seq(V)), ss # << >>, NEW f, Stages(ss, f)
  PROVE  FlattenSeq(ss) = f[Len(ss)]
<1>1. Len(ss) \in Nat /\ Len(ss) # 0 /\ Len(ss) \in 1..Len(ss)  OBVIOUS
<1>2. PICK g : g = CHOOSE h : Stages(ss, h)  OBVIOUS
<1>3. Stages(ss, g)  BY <1>2, Zenon
<1>4. g[Len(ss)] = f[Len(ss)]  BY <1>1, <1>3, StagesAgree
<1>5. FlattenSeq(ss) = g[Len(ss)]  BY <1>1, <1>2, FlattenIs, Zenon
<1> QED  BY <1>4, <1>5

LEMMA FlattenNone == FlattenSeq(<< >>) = << >>
BY Zenon, Len(<< >>) = 0 DEF FlattenSeq

LEMMA FlattenIn ==
  ASSUME NEW V, NEW ss \in Seq(Seq(V))
  PROVE  FlattenSeq(ss) \in Seq(V)
<1>1. CASE ss = << >>  BY <1>1, FlattenNone, << >> \in Seq(V)
<1>2. CASE ss # << >>
  <2>1. PICK f : Stages(ss, f) /\ \A i \in 1..Len(ss) : f[i] \in Seq(V)  BY StagesExist
  <2>2. Len(ss) \in 1..Len(ss)  BY <1>2
  <2> QED  BY <1>2, <2>1, <2>2, FlattenStage
<1> QED  BY <1>1, <1>2

LEMMA FlattenAppend ==
  ASSUME NEW V, NEW ss \in Seq(Seq(V)), NEW s \in Seq(V)
  PROVE  FlattenSeq(Append(ss, s)) = FlattenSeq(ss) \o s
<1>1. PICK f : Stages(ss, f) /\ \A i \in 1..Len(ss) : f[i] \in Seq(V)  BY StagesExist
<1>7. PICK g : OneMore(ss, s, f, g)  BY <1>1, StagesGrow, Zenon
<1>2. /\ Stages(Append(ss, s), g)
      /\ g[Len(ss) + 1] = (IF ss = << >> THEN s ELSE f[Len(ss)] \o s)
  BY <1>7 DEF OneMore
<1>3. /\ Append(ss, s) \in Seq(Seq(V)) /\ Append(ss, s) # << >>
      /\ Len(Append(ss, s)) = Len(ss) + 1
  <2>1. PICK W : W = Seq(V)  OBVIOUS
  <2>2. ss \in Seq(W) /\ s \in W  BY <2>1
  <2>3. Append(ss, s) \in Seq(W) /\ Append(ss, s) # << >> /\ Len(Append(ss, s)) = Len(ss) + 1
    BY <2>2, AppendIs
  <2> QED  BY <2>1, <2>3
<1>4. FlattenSeq(Append(ss, s)) = g[Len(ss) + 1]  BY <1>2, <1>3, FlattenStage
<1>5. CASE ss = << >>
  <2>1. << >> \o s = s  OBVIOUS
  <2> QED  BY <1>2, <1>4, <1>5, <2>1, FlattenNone
<1>6. CASE ss # << >>
  <2>1. FlattenSeq(ss) = f[Len(ss)]  BY <1>1, <1>6, FlattenStage
  <2> QED  BY <1>2, <1>4, <1>6, <2>1
<1> QED  BY <1>5, <1>6

-----------------------------------------------------------------------------
(* The queue of a table, in terms of what was stored.                       *)

\* What is left of the day of row t, by the log.
Rest(t, lg) == [n \in 1..(t.total - t.index) |-> lg[t.date][t.index + n]]
PartsOf(ds, lg) == [i \in 1..Len(ds) |-> Rest(ds[Len(ds) + 1 - i], lg)]
QueueOf(ds, lg) == FlattenSeq(PartsOf(ds, lg))

SoundRow(t, lg) == t \in Row /\ t.index <= t.total /\ t.total <= Len(lg[t.date])
Sound(ds, lg) ==
  /\ ds \in Seq(Row) /\ lg \in [Dates -> Seq(Events)]
  /\ \A i \in 1..Len(ds) : SoundRow(ds[i], lg)

\* Table ds is the row t in front of table r.
FirstRow(ds, t, r) ==
  /\ Len(ds) = Len(r) + 1 /\ ds[1] = t
  /\ \A i \in 1..Len(r) : ds[i + 1] = r[i]

\* Table ds is table r with the row t behind it.
LastRow(ds, r, t) ==
  /\ Len(ds) = Len(r) + 1 /\ ds[Len(r) + 1] = t
  /\ \A i \in 1..Len(r) : ds[i] = r[i]

LEMMA RestIn ==
  ASSUME NEW lg \in [Dates -> Seq(Events)], NEW t, SoundRow(t, lg)
  PROVE  /\ Rest(t, lg) \in Seq(Events) /\ Len(Rest(t, lg)) = t.total - t.index
         /\ t.total - t.index \in Nat /\ t.index \in Nat /\ t.total \in Nat /\ t.date \in Dates
         /\ lg[t.date] \in Seq(Events) /\ Len(lg[t.date]) \in Nat
<1>1. t.index \in Nat /\ t.total \in Nat /\ t.date \in Dates  BY RowIs DEF SoundRow
<1>2. lg[t.date] \in Seq(Events) /\ Len(lg[t.date]) \in Nat  BY <1>1
<1>3. t.index <= t.total /\ t.total <= Len(lg[t.date])  BY DEF SoundRow
<1>4. PICK n \in Nat : n = t.total - t.index /\ t.total = t.index + n  BY <1>1, <1>3
<1>5. ASSUME NEW k \in 1..n  PROVE lg[t.date][t.index + k] \in Events
  <2>1. t.index + k \in 1..Len(lg[t.date])  BY <1>1, <1>2, <1>3, <1>4
  <2> QED  BY <1>2, <2>1
<1>6. Rest(t, lg) = [k \in 1..n |-> lg[t.date][t.index + k]]  BY <1>4 DEF Rest
<1>7. Rest(t, lg) \in Seq(Events) /\ Len(Rest(t, lg)) = n  BY <1>5, <1>6
<1> QED  BY <1>1, <1>2, <1>4, <1>7

LEMMA PartsIn ==
  ASSUME NEW ds, NEW lg, Sound(ds, lg)
  PROVE  PartsOf(ds, lg) \in Seq(Seq(Events)) /\ Len(PartsOf(ds, lg)) = Len(ds) /\ Len(ds) \in Nat
<1>1. Len(ds) \in Nat /\ lg \in [Dates -> Seq(Events)]  BY DEF Sound
<1>2. ASSUME NEW i \in 1..Len(ds)  PROVE Rest(ds[Len(ds) + 1 - i], lg) \in Seq(Events)
  <2>1. Len(ds) + 1 - i \in 1..Len(ds)  BY <1>1
  <2> QED  BY <1>1, <2>1, RestIn DEF Sound
<1>3. PICK n \in Nat : n = Len(ds)  BY <1>1
<1>4. PICK p : p = PartsOf(ds, lg)  OBVIOUS
<1>5. p = [i \in 1..n |-> Rest(ds[Len(ds) + 1 - i], lg)]  BY <1>3, <1>4 DEF PartsOf
<1>6. PICK W : W = Seq(Events)  OBVIOUS
<1>7. p \in Seq(W) /\ Len(p) = n  BY <1>2, <1>3, <1>5, <1>6
<1> QED  BY <1>1, <1>3, <1>4, <1>6, <1>7

LEMMA QueueIn ==
  ASSUME NEW ds, NEW lg, Sound(ds, lg)
  PROVE  QueueOf(ds, lg) \in Seq(Events)
BY PartsIn, FlattenIn, Zenon DEF QueueOf

\* Tables whose days have the same left have the same queue.
LEMMA QueueSame ==
  ASSUME NEW ds, NEW lg, NEW es, NEW mg, Len(ds) \in Nat, Len(es) = Len(ds),
         \A i \in 1..Len(ds) : Rest(ds[i], lg) = Rest(es[i], mg)
  PROVE  QueueOf(ds, lg) = QueueOf(es, mg)
<1>1. ASSUME NEW i \in 1..Len(ds)
      PROVE  Rest(ds[Len(ds) + 1 - i], lg) = Rest(es[Len(ds) + 1 - i], mg)
  <2>1. Len(ds) + 1 - i \in 1..Len(ds)  OBVIOUS
  <2> QED  BY <2>1
<1>2. PartsOf(ds, lg) = PartsOf(es, mg)  BY <1>1 DEF PartsOf
<1> QED  BY <1>2 DEF QueueOf

\* The newest day is at the end of the queue.
LEMMA QueueCons ==
  ASSUME NEW ds, NEW lg, NEW t, NEW r, Sound(ds, lg), r \in Seq(Row), FirstRow(ds, t, r)
  PROVE  /\ QueueOf(ds, lg) = QueueOf(r, lg) \o Rest(t, lg)
         /\ Sound(r, lg) /\ SoundRow(t, lg)
<1>1. Len(r) \in Nat /\ Len(ds) = Len(r) + 1 /\ ds[1] = t  BY DEF FirstRow
<1>2. Sound(r, lg)
  <2>1. ASSUME NEW i \in 1..Len(r)  PROVE SoundRow(r[i], lg)
    <3>1. i + 1 \in 1..Len(ds) /\ ds[i + 1] = r[i]  BY <1>1 DEF FirstRow
    <3> QED  BY <3>1 DEF Sound
  <2> QED  BY <2>1 DEF Sound
<1>3. SoundRow(t, lg)
  <2>1. 1 \in 1..Len(ds)  BY <1>1
  <2> QED  BY <1>1, <2>1 DEF Sound
<1>4. /\ PartsOf(ds, lg) \in Seq(Seq(Events)) /\ Len(PartsOf(ds, lg)) = Len(ds)
      /\ PartsOf(r, lg) \in Seq(Seq(Events)) /\ Len(PartsOf(r, lg)) = Len(r)
      /\ Rest(t, lg) \in Seq(Events)
  BY <1>2, <1>3, PartsIn, RestIn DEF Sound
<1>5. PICK a, p, q : a = PartsOf(ds, lg) /\ p = PartsOf(r, lg) /\ q = Rest(t, lg)  OBVIOUS
<1>6. ASSUME NEW i \in 1..Len(r)  PROVE a[i] = p[i]
  <2>1. i \in 1..Len(ds)  BY <1>1
  <2>2. Len(ds) + 1 - i = (Len(r) + 1 - i) + 1 /\ Len(r) + 1 - i \in 1..Len(r)  BY <1>1
  <2>3. ds[Len(ds) + 1 - i] = r[Len(r) + 1 - i]  BY <2>2 DEF FirstRow
  <2> QED  BY <1>5, <2>1, <2>3 DEF PartsOf
<1>7. a[Len(r) + 1] = q
  <2>1. Len(r) + 1 \in 1..Len(ds) /\ Len(ds) + 1 - (Len(r) + 1) = 1  BY <1>1
  <2> QED  BY <1>1, <1>5, <2>1 DEF PartsOf
<1>8. PICK W : W = Seq(Events)  OBVIOUS
<1>9. a \in Seq(W) /\ p \in Seq(W) /\ q \in W /\ Len(a) = Len(p) + 1 /\ Len(p) = Len(r)
  BY <1>1, <1>4, <1>5, <1>8
<1>10. a = Append(p, q)  BY <1>6, <1>7, <1>9
<1>11. FlattenSeq(Append(p, q)) = FlattenSeq(p) \o q  BY <1>4, <1>5, FlattenAppend, Zenon
<1> QED  BY <1>2, <1>3, <1>5, <1>10, <1>11 DEF QueueOf

LEMMA QueueNone ==
  ASSUME NEW ds, NEW lg, Sound(ds, lg), Len(ds) = 0
  PROVE  QueueOf(ds, lg) = << >>
<1>1. PartsOf(ds, lg) \in Seq(Seq(Events)) /\ Len(PartsOf(ds, lg)) = 0  BY PartsIn
<1>2. PartsOf(ds, lg) = << >>  BY <1>1
<1> QED  BY <1>2, FlattenNone DEF QueueOf

\* A table that is not empty has a first and a last row.
LEMMA HasFirst ==
  ASSUME NEW ds \in Seq(Row), Len(ds) # 0
  PROVE  \E r \in Seq(Row) : FirstRow(ds, ds[1], r) /\ Len(r) \in Nat /\ Len(r) < Len(ds)
<1>1. PICK n \in Nat : Len(ds) = n + 1
  <2>1. Len(ds) \in Nat  OBVIOUS
  <2>2. Len(ds) - 1 \in Nat /\ Len(ds) = (Len(ds) - 1) + 1  BY <2>1
  <2> QED  BY <2>2
<1> DEFINE r == [i \in 1..n |-> ds[i + 1]]
<1>2. \A i \in 1..n : i + 1 \in 1..Len(ds)  BY <1>1
<1>3. r \in Seq(Row) /\ Len(r) = n  BY <1>1, <1>2
<1>4. \A i \in 1..Len(r) : ds[i + 1] = r[i]  BY <1>3
<1> HIDE DEF r
<1> QED  BY <1>1, <1>3, <1>4 DEF FirstRow

-----------------------------------------------------------------------------
(* Induction on the length of a table.                                      *)

LEMMA Strong ==
  ASSUME NEW S, \A n \in Nat : (\A m \in Nat : m < n => m \in S) => n \in S
  PROVE  Nat \subseteq S
<1> DEFINE T == {n \in Nat : n \notin S}
<1> SUFFICES ASSUME T # {}  PROVE FALSE  OBVIOUS
<1>1. T \in SUBSET Nat  OBVIOUS
<1>2. PICK n \in T : \A m \in T : n <= m
  <2> HIDE DEF T
  <2> QED  BY <1>1, Least
<1>3. ASSUME NEW m \in Nat, m < n  PROVE m \in S
  <2>1. ~(n <= m)  BY <1>2, <1>3
  <2> QED  BY <1>2, <2>1
<1> QED  BY <1>2, <1>3

LEMMA ConcatAssoc ==
  ASSUME NEW p \in Seq(Events), NEW q \in Seq(Events), NEW r \in Seq(Events)
  PROVE  (p \o q) \o r = p \o (q \o r)
OBVIOUS

LEMMA ConcatIs ==
  ASSUME NEW V, NEW p \in Seq(V), NEW q \in Seq(V)
  PROVE  << >> \o p = p /\ p \o << >> = p /\ p \o q \in Seq(V)
OBVIOUS

\* Days of which nothing is left.
LEMMA QueueEmpty ==
  ASSUME NEW ds \in Seq(Row), NEW lg, Sound(ds, lg),
         \A i \in 1..Len(ds) : Rest(ds[i], lg) = << >>
  PROVE  QueueOf(ds, lg) = << >>
<1> DEFINE Has(es) == /\ Sound(es, lg) /\ (\A i \in 1..Len(es) : Rest(es[i], lg) = << >>)
           Good(es) == Has(es) => QueueOf(es, lg) = << >>
           S == {n \in Nat : \A es \in Seq(Row) : Len(es) = n => Good(es)}
<1>1. ASSUME NEW n \in Nat, \A m \in Nat : m < n => m \in S,
             NEW es \in Seq(Row), Len(es) = n, Has(es)
      PROVE  QueueOf(es, lg) = << >>
  <2>1. CASE n = 0  BY <1>1, <2>1, QueueNone
  <2>2. CASE n # 0
    <3>1. PICK r \in Seq(Row) : FirstRow(es, es[1], r) /\ Len(r) \in Nat /\ Len(r) < n
      BY <1>1, <2>2, HasFirst
    <3>2. QueueOf(es, lg) = QueueOf(r, lg) \o Rest(es[1], lg) /\ Sound(r, lg)
      BY <1>1, <3>1, QueueCons
    <3>3. ASSUME NEW i \in 1..Len(r)  PROVE Rest(r[i], lg) = << >>
      <4>1. i + 1 \in 1..Len(es) /\ es[i + 1] = r[i]  BY <3>1 DEF FirstRow
      <4> QED  BY <1>1, <4>1
    <3>4. Has(r)  BY <3>2, <3>3
    <3>5. Good(r)
      <4>1. Len(r) \in S  BY <1>1, <3>1
      <4> HIDE DEF Good
      <4> QED  BY <3>1, <4>1
    <3>6. QueueOf(r, lg) = << >>  BY <3>4, <3>5
    <3>7. Rest(es[1], lg) = << >>
      <4>1. 1 \in 1..Len(es)  BY <1>1, <2>2
      <4> QED  BY <1>1, <4>1
    <3> QED  BY <3>2, <3>6, <3>7
  <2> QED  BY <2>1, <2>2
<1>2. ASSUME NEW n \in Nat, \A m \in Nat : m < n => m \in S  PROVE n \in S
  BY <1>1, <1>2
<1> HIDE DEF S
<1>3. Nat \subseteq S  BY <1>2, Strong
<1>4. Len(ds) \in S  BY <1>3
<1> QED  BY <1>4 DEF S

\* The oldest day is at the front of the queue.
LEMMA QueueSnoc ==
  ASSUME NEW ds \in Seq(Row), NEW lg, Sound(ds, lg), NEW r \in Seq(Row), NEW t \in Row,
         LastRow(ds, r, t)
  PROVE  QueueOf(ds, lg) = Rest(t, lg) \o QueueOf(r, lg) /\ Sound(r, lg) /\ SoundRow(t, lg)
<1> DEFINE Good(es, q) ==
             Sound(es, lg) /\ LastRow(es, q, t) => QueueOf(es, lg) = Rest(t, lg) \o QueueOf(q, lg)
           S == {n \in Nat : \A es, q \in Seq(Row) : Len(q) = n => Good(es, q)}
<1>1. ASSUME NEW es \in Seq(Row), NEW q \in Seq(Row), Sound(es, lg), LastRow(es, q, t)
      PROVE  /\ Sound(q, lg) /\ SoundRow(t, lg) /\ Rest(t, lg) \in Seq(Events)
             /\ QueueOf(q, lg) \in Seq(Events)
  <2>1. Len(q) \in Nat /\ Len(es) = Len(q) + 1 /\ es[Len(q) + 1] = t  BY <1>1 DEF LastRow
  <2>2. ASSUME NEW i \in 1..Len(q)  PROVE SoundRow(q[i], lg)
    <3>1. i \in 1..Len(es) /\ es[i] = q[i]  BY <1>1, <2>1 DEF LastRow
    <3> QED  BY <1>1, <3>1 DEF Sound
  <2>3. Len(q) + 1 \in 1..Len(es)  BY <2>1
  <2>4. SoundRow(t, lg) /\ Sound(q, lg)  BY <1>1, <2>1, <2>2, <2>3 DEF Sound
  <2> QED  BY <2>4, RestIn, QueueIn DEF Sound
<1>2. ASSUME NEW n \in Nat, \A m \in Nat : m < n => m \in S,
             NEW es \in Seq(Row), NEW q \in Seq(Row), Len(q) = n, Sound(es, lg), LastRow(es, q, t)
      PROVE  QueueOf(es, lg) = Rest(t, lg) \o QueueOf(q, lg)
  <2>1. /\ Sound(q, lg) /\ SoundRow(t, lg) /\ Rest(t, lg) \in Seq(Events)
        /\ QueueOf(q, lg) \in Seq(Events)
    BY <1>1, <1>2
  <2>2. CASE n = 0
    <3>1. FirstRow(es, t, q)  BY <1>2, <2>2 DEF FirstRow, LastRow
    <3>2. QueueOf(es, lg) = QueueOf(q, lg) \o Rest(t, lg)  BY <1>2, <3>1, QueueCons
    <3>3. QueueOf(q, lg) = << >>  BY <1>2, <2>1, <2>2, QueueNone
    <3> QED  BY <2>1, <3>2, <3>3, ConcatIs
  <2>3. CASE n # 0
    <3>1. PICK p \in Seq(Row) : FirstRow(q, q[1], p) /\ Len(p) \in Nat /\ Len(p) < n
      BY <1>2, <2>3, HasFirst
    <3>2. Len(es) = n + 1 /\ Len(es) # 0
      <4>1. Len(es) = n + 1  BY <1>2 DEF LastRow
      <4> QED  BY ONLY <4>1, n \in Nat
    <3>3. PICK fs \in Seq(Row) : FirstRow(es, es[1], fs) /\ Len(fs) \in Nat
      BY <3>2, HasFirst, Zenon
    <3>4. es[1] = q[1]
      <4>1. 1 \in 1..Len(q)  BY <1>2, <2>3
      <4> QED  BY <1>2, <4>1 DEF LastRow
    <3>5. LastRow(fs, p, t)
      <4>1. Len(fs) = Len(p) + 1 /\ Len(q) = Len(p) + 1 /\ Len(es) = Len(fs) + 1
        <5>1. Len(q) = Len(p) + 1 /\ Len(es) = Len(fs) + 1  BY <3>1, <3>3 DEF FirstRow
        <5> QED  BY ONLY <1>2, <3>1, <3>2, <3>3, <5>1
      <4>2. fs[Len(p) + 1] = t
        <5>1. Len(p) + 1 \in 1..Len(fs) /\ (Len(p) + 1) + 1 = Len(q) + 1  BY <3>1, <4>1
        <5>2. fs[Len(p) + 1] = es[(Len(p) + 1) + 1]  BY <3>3, <5>1 DEF FirstRow
        <5> QED  BY <1>2, <5>1, <5>2 DEF LastRow
      <4>3. ASSUME NEW i \in 1..Len(p)  PROVE fs[i] = p[i]
        <5>1. i \in 1..Len(fs) /\ i + 1 \in 1..Len(q)  BY <3>1, <4>1
        <5>2. fs[i] = es[i + 1]  BY <3>3, <5>1 DEF FirstRow
        <5>3. es[i + 1] = q[i + 1]  BY <1>2, <5>1 DEF LastRow
        <5>4. q[i + 1] = p[i]  BY <3>1 DEF FirstRow
        <5> QED  BY <5>2, <5>3, <5>4
      <4> QED  BY <4>1, <4>2, <4>3 DEF LastRow
    <3>6. /\ QueueOf(es, lg) = QueueOf(fs, lg) \o Rest(q[1], lg) /\ Sound(fs, lg)
          /\ QueueOf(q, lg) = QueueOf(p, lg) \o Rest(q[1], lg) /\ Sound(p, lg)
          /\ SoundRow(q[1], lg)
      <4>1. FirstRow(es, q[1], fs)  BY <3>3, <3>4
      <4>2. Sound(es, lg) /\ Sound(q, lg) /\ FirstRow(q, q[1], p)  BY <1>2, <2>1, <3>1
      <4>3. /\ QueueOf(es, lg) = QueueOf(fs, lg) \o Rest(q[1], lg)
            /\ Sound(fs, lg) /\ SoundRow(q[1], lg)
        BY ONLY <4>1, <4>2, fs \in Seq(Row), QueueCons
      <4>4. QueueOf(q, lg) = QueueOf(p, lg) \o Rest(q[1], lg) /\ Sound(p, lg)
        BY ONLY <4>2, p \in Seq(Row), QueueCons
      <4> QED  BY <4>3, <4>4
    <3>7. QueueOf(fs, lg) = Rest(t, lg) \o QueueOf(p, lg)
      <4>1. Len(p) \in S  BY <1>2, <3>1
      <4>2. Good(fs, p)
        <5> HIDE DEF Good
        <5> QED  BY <3>1, <3>3, <4>1
      <4> QED  BY <3>5, <3>6, <4>2
    <3>8. QueueOf(p, lg) \in Seq(Events) /\ Rest(q[1], lg) \in Seq(Events)
      BY <2>1, <3>6, QueueIn, RestIn DEF Sound
    <3>9. (Rest(t, lg) \o QueueOf(p, lg)) \o Rest(q[1], lg)
            = Rest(t, lg) \o (QueueOf(p, lg) \o Rest(q[1], lg))
      <4>1. Rest(t, lg) \in Seq(Events) /\ QueueOf(p, lg) \in Seq(Events)
        BY <2>1, <3>8
      <4>2. PICK a, b, c : a = Rest(t, lg) /\ b = QueueOf(p, lg) /\ c = Rest(q[1], lg)
        OBVIOUS
      <4>3. a \in Seq(Events) /\ b \in Seq(Events) /\ c \in Seq(Events)  BY <3>8, <4>1, <4>2
      <4>4. (a \o b) \o c = a \o (b \o c)  BY ONLY <4>3, ConcatAssoc, Zenon
      <4> QED  BY ONLY <4>2, <4>4, Zenon
    <3> QED  BY <3>6, <3>7, <3>9
  <2> QED  BY <2>2, <2>3
<1>3. ASSUME NEW n \in Nat, \A m \in Nat : m < n => m \in S  PROVE n \in S
  BY <1>2, <1>3
<1> HIDE DEF S
<1>4. Nat \subseteq S  BY <1>3, Strong
<1>5. Len(r) \in S  BY <1>4
<1>6. QueueOf(ds, lg) = Rest(t, lg) \o QueueOf(r, lg)  BY <1>5 DEF S
<1> QED  BY <1>1, <1>6

\* A line taken from the oldest day with a line left is the first of the queue.
Taken(ds, es, m, lg) ==
  /\ Sound(ds, lg) /\ Sound(es, lg) /\ Len(es) = Len(ds) /\ m \in 1..Len(ds)
  /\ \A i \in 1..Len(ds) : i # m => es[i] = ds[i]
  /\ \A i \in 1..Len(ds) : i > m => Rest(ds[i], lg) = << >>
  /\ Rest(ds[m], lg) # << >> /\ Rest(es[m], lg) = Tail(Rest(ds[m], lg))

LEMMA TailConcat ==
  ASSUME NEW p \in Seq(Events), NEW q \in Seq(Events), p # << >>
  PROVE  p \o q # << >> /\ Tail(p \o q) = Tail(p) \o q
<1>1. Len(p) \in Nat /\ Len(p) >= 1 /\ Len(q) \in Nat  OBVIOUS
<1>2. p \o q \in Seq(Events) /\ Len(p \o q) = Len(p) + Len(q)  OBVIOUS
<1>3. p \o q # << >>  BY <1>1, <1>2
<1>4. Tail(p) \in Seq(Events) /\ Len(Tail(p)) = Len(p) - 1  OBVIOUS
<1>5. Tail(p) \o q \in Seq(Events) /\ Len(Tail(p) \o q) = Len(p) - 1 + Len(q)  BY <1>4
<1>6. Tail(p \o q) \in Seq(Events) /\ Len(Tail(p \o q)) = Len(p) + Len(q) - 1  BY <1>2, <1>3
<1>7. ASSUME NEW i \in 1..(Len(p) + Len(q) - 1)
      PROVE  Tail(p \o q)[i] = (Tail(p) \o q)[i]
  <2>1. Tail(p \o q)[i] = (p \o q)[i + 1]  BY <1>2, <1>3, <1>6
  <2>2. CASE i <= Len(p) - 1
    <3>1. i \in 1..Len(Tail(p)) /\ i + 1 \in 1..Len(p)  BY <1>1, <1>4, <2>2
    <3> QED  BY <1>4, <2>1, <3>1
  <2>3. CASE i > Len(p) - 1
    <3>1. i - (Len(p) - 1) = (i + 1) - Len(p) /\ i + 1 > Len(p)  BY <1>1, <2>3
    <3> QED  BY <1>1, <1>4, <2>1, <2>3, <3>1
  <2> QED  BY <1>1, <2>2, <2>3
<1>8. Tail(p \o q) = Tail(p) \o q  BY <1>1, <1>5, <1>6, <1>7
<1> QED  BY <1>3, <1>8

LEMMA QueueTake ==
  ASSUME NEW ds \in Seq(Row), NEW es \in Seq(Row), NEW m, NEW lg, Taken(ds, es, m, lg)
  PROVE  QueueOf(ds, lg) # << >> /\ QueueOf(es, lg) = Tail(QueueOf(ds, lg))
<1> DEFINE Gives(a, b) == QueueOf(a, lg) # << >> /\ QueueOf(b, lg) = Tail(QueueOf(a, lg))
           Good(a, b) == \A k \in Nat : Taken(a, b, k, lg) => Gives(a, b)
           S == {n \in Nat : \A a, b \in Seq(Row) : Len(a) = n => Good(a, b)}
<1>1. ASSUME NEW n \in Nat, \A j \in Nat : j < n => j \in S,
             NEW a \in Seq(Row), NEW b \in Seq(Row), NEW k \in Nat, Len(a) = n,
             Taken(a, b, k, lg)
      PROVE  Gives(a, b)
  <2>1. /\ Sound(a, lg) /\ Sound(b, lg) /\ Len(b) = n /\ k \in 1..n /\ n # 0
        /\ \A i \in 1..n : i # k => b[i] = a[i]
        /\ \A i \in 1..n : i > k => Rest(a[i], lg) = << >>
        /\ Rest(a[k], lg) # << >> /\ Rest(b[k], lg) = Tail(Rest(a[k], lg))
    BY <1>1 DEF Taken
  <2>2. PICK r \in Seq(Row) : FirstRow(a, a[1], r) /\ Len(r) \in Nat /\ Len(r) < n
    <3>1. Len(a) = n /\ Len(a) # 0  BY <1>1, <2>1
    <3>2. \E r \in Seq(Row) : FirstRow(a, a[1], r) /\ Len(r) \in Nat /\ Len(r) < Len(a)
      BY ONLY <3>1, a \in Seq(Row), HasFirst, Zenon
    <3> QED  BY ONLY <3>1, <3>2, Zenon
  <2>3. PICK q \in Seq(Row) : FirstRow(b, b[1], q) /\ Len(q) \in Nat
    BY ONLY <2>1, n \in Nat, b \in Seq(Row), HasFirst
  <2>4. /\ QueueOf(a, lg) = QueueOf(r, lg) \o Rest(a[1], lg) /\ Sound(r, lg)
        /\ QueueOf(b, lg) = QueueOf(q, lg) \o Rest(b[1], lg) /\ Sound(q, lg)
    <3>1. QueueOf(a, lg) = QueueOf(r, lg) \o Rest(a[1], lg) /\ Sound(r, lg)
      BY ONLY <2>1, <2>2, r \in Seq(Row), QueueCons
    <3>2. QueueOf(b, lg) = QueueOf(q, lg) \o Rest(b[1], lg) /\ Sound(q, lg)
      BY ONLY <2>1, <2>3, q \in Seq(Row), QueueCons
    <3> QED  BY <3>1, <3>2
  <2>5. Len(r) + 1 = n /\ Len(q) = Len(r)
    <3>1. n = Len(r) + 1 /\ n = Len(q) + 1  BY <1>1, <2>1, <2>2, <2>3 DEF FirstRow
    <3> QED  BY ONLY <2>2, <2>3, <3>1
  <2>6. \A i \in 1..Len(r) : i + 1 \in 1..n /\ r[i] = a[i + 1] /\ q[i] = b[i + 1]
    BY <1>1, <2>1, <2>2, <2>3, <2>5 DEF FirstRow
  <2>7. 1 \in 1..n  BY <2>1
  <2>8. /\ Rest(a[1], lg) \in Seq(Events) /\ Rest(b[1], lg) \in Seq(Events)
        /\ QueueOf(r, lg) \in Seq(Events)
    BY <1>1, <2>1, <2>4, <2>7, RestIn, QueueIn DEF Sound
  <2>9. CASE k = 1
    <3>1. ASSUME NEW i \in 1..Len(r)  PROVE Rest(r[i], lg) = << >> /\ Rest(q[i], lg) = << >>
      <4>1. i + 1 > 1 /\ i + 1 # 1 /\ i + 1 \in 1..n  BY <2>6
      <4> QED  BY <2>1, <2>6, <2>9, <4>1
    <3>2. QueueOf(r, lg) = << >>  BY <2>4, <3>1, QueueEmpty
    <3>3. QueueOf(q, lg) = << >>
      <4>1. \A i \in 1..Len(q) : Rest(q[i], lg) = << >>  BY <2>5, <3>1
      <4> QED  BY <2>4, <4>1, QueueEmpty
    <3>4. QueueOf(a, lg) = Rest(a[1], lg) /\ QueueOf(b, lg) = Rest(b[1], lg)
      BY <2>4, <2>8, <3>2, <3>3, ConcatIs
    <3> QED  BY <2>1, <2>9, <3>4
  <2>10. CASE k # 1
    <3>1. PICK j \in Nat : k = j + 1 /\ j \in 1..Len(r)
      <4>1. k - 1 \in Nat /\ k = (k - 1) + 1 /\ k - 1 \in 1..Len(r)
        BY ONLY k \in Nat, <2>1, <2>2, <2>5, <2>10
      <4> QED  BY <4>1
    <3>2. Taken(r, q, j, lg)
      <4>1. ASSUME NEW i \in 1..Len(r), i # j  PROVE q[i] = r[i]
        <5>1. i + 1 # k /\ i + 1 \in 1..n  BY <2>6, <3>1, <4>1
        <5> QED  BY <2>1, <2>6, <5>1
      <4>2. ASSUME NEW i \in 1..Len(r), i > j  PROVE Rest(r[i], lg) = << >>
        <5>1. i + 1 > k /\ i + 1 \in 1..n  BY <2>6, <3>1, <4>2
        <5> QED  BY <2>1, <2>6, <5>1
      <4>3. r[j] = a[k] /\ q[j] = b[k]  BY <2>6, <3>1
      <4> QED  BY <2>1, <2>4, <2>5, <3>1, <4>1, <4>2, <4>3 DEF Taken
    <3>3. Gives(r, q)
      <4>1. Len(r) \in S  BY <1>1, <2>2
      <4>2. Good(r, q)
        <5> HIDE DEF Good
        <5> QED  BY <4>1
      <4> HIDE DEF Gives
      <4> QED  BY <3>1, <3>2, <4>2
    <3>4. b[1] = a[1]  BY <2>1, <2>7, <2>10
    <3>5. /\ QueueOf(r, lg) \o Rest(a[1], lg) # << >>
          /\ Tail(QueueOf(r, lg) \o Rest(a[1], lg)) = Tail(QueueOf(r, lg)) \o Rest(a[1], lg)
      BY <2>8, <3>3, TailConcat
    <3> QED  BY <2>4, <3>3, <3>4, <3>5
  <2> QED  BY <2>9, <2>10
<1>2. ASSUME NEW n \in Nat, \A j \in Nat : j < n => j \in S  PROVE n \in S
  <2> HIDE DEF Gives
  <2> QED  BY <1>1, <1>2
<1> HIDE DEF S
<1>3. Nat \subseteq S  BY <1>2, Strong
<1>4. Len(ds) \in S /\ m \in Nat
  <2>1. m \in 1..Len(ds)  BY DEF Taken
  <2> QED  BY <1>3, <2>1
<1> QED  BY <1>4 DEF S

\* Two tables that agree on every day, as before and after a power cut that tears none.
Agree(A, B, lg) ==
  /\ Sound(A, lg) /\ Sound(B, lg)
  /\ \A d \in Dates : Once(A, d) /\ Once(B, d) /\ EntriesOf(A, d) = EntriesOf(B, d)
  /\ \A d, x \in Dates : ~(Newer(A, d, x) /\ Newer(B, x, d))

LEMMA AgreeBack ==
  ASSUME NEW A, NEW B, NEW lg, Agree(A, B, lg)
  PROVE  Agree(B, A, lg)
BY Zenon DEF Agree

LEMMA EntriesIs ==
  ASSUME NEW ds, NEW d, NEW e
  PROVE  e \in EntriesOf(ds, d) <=>
           \E i \in 1..Len(ds) : e = ds[i] /\ ds[i].date = d /\ ds[i].total > 0
BY DEF EntriesOf

\* What the rows behind the first say of a day.
Behind(ds, t, r, d) ==
  /\ Once(ds, d) => Once(r, d)
  /\ EntriesOf(r, d) \subseteq EntriesOf(ds, d)
  /\ \A e \in EntriesOf(ds, d) : e \in EntriesOf(r, d) \/ e = t
  /\ t.date # d => t \notin EntriesOf(ds, d)
  /\ t.total = 0 => t \notin EntriesOf(ds, d)
  /\ Once(ds, d) /\ t.date = d => EntriesOf(r, d) = {}
  /\ \A x : Newer(r, d, x) => Newer(ds, d, x)

LEMMA RowsBehind ==
  ASSUME NEW ds \in Seq(Row), NEW t, NEW r \in Seq(Row), FirstRow(ds, t, r), NEW d
  PROVE  Behind(ds, t, r, d)
<1>1. Len(r) \in Nat /\ Len(ds) = Len(r) + 1 /\ ds[1] = t /\ 1 \in 1..Len(ds)
  BY DEF FirstRow
<1>2. \A i \in 1..Len(r) : i + 1 \in 1..Len(ds) /\ ds[i + 1] = r[i]  BY <1>1 DEF FirstRow
<1>3. ASSUME NEW i \in 1..Len(ds)
      PROVE  i = 1 \/ \E j \in 1..Len(r) : i = j + 1
  <2>1. i # 1 => i - 1 \in 1..Len(r) /\ i = (i - 1) + 1  BY ONLY <1>1, i \in 1..Len(ds)
  <2> QED  BY <2>1
<1>4. ASSUME Once(ds, d)  PROVE Once(r, d)
  <2>1. ASSUME NEW i \in 1..Len(r), NEW j \in 1..Len(r), r[i].date = d, r[j].date = d
        PROVE  i = j
    <3>1. ds[i + 1].date = d /\ ds[j + 1].date = d  BY <1>2, <2>1
    <3>2. i + 1 = j + 1  BY <1>2, <1>4, <3>1 DEF Once
    <3> QED  BY <3>2
  <2> QED  BY <2>1 DEF Once
<1>5. ASSUME NEW e \in EntriesOf(r, d)  PROVE e \in EntriesOf(ds, d)
  <2>1. PICK i \in 1..Len(r) : e = r[i] /\ r[i].date = d /\ r[i].total > 0  BY EntriesIs
  <2> QED  BY <1>2, <2>1, EntriesIs
<1>6. ASSUME NEW e \in EntriesOf(ds, d)
      PROVE  /\ e \in EntriesOf(r, d) \/ e = t
             /\ e.date = d /\ e.total > 0
  <2>1. PICK i \in 1..Len(ds) : e = ds[i] /\ ds[i].date = d /\ ds[i].total > 0  BY EntriesIs
  <2>2. CASE i = 1  BY <1>1, <2>1, <2>2
  <2>3. CASE i # 1
    <3>1. PICK j \in 1..Len(r) : i = j + 1  BY <1>3, <2>3
    <3> QED  BY <1>2, <2>1, <3>1, EntriesIs
  <2> QED  BY <2>2, <2>3
<1>7. ASSUME Once(ds, d), t.date = d, NEW e \in EntriesOf(r, d)  PROVE FALSE
  <2>1. PICK i \in 1..Len(r) : e = r[i] /\ r[i].date = d  BY EntriesIs
  <2>2. ds[i + 1].date = d /\ ds[1].date = d  BY <1>1, <1>2, <1>7, <2>1
  <2>3. i + 1 = 1  BY <1>1, <1>2, <1>7, <2>2 DEF Once
  <2> QED  BY <2>3
<1>9. ASSUME NEW x, Newer(r, d, x)  PROVE Newer(ds, d, x)
  <2>1. PICK i, j \in 1..Len(r) : i < j /\ r[i].date = d /\ r[j].date = x
    BY <1>9 DEF Newer
  <2>2. i + 1 < j + 1 /\ ds[i + 1].date = d /\ ds[j + 1].date = x  BY <1>2, <2>1
  <2> QED  BY <1>2, <2>2 DEF Newer
<1>10. ~(0 > 0)  OBVIOUS
<1>11. t \in EntriesOf(ds, d) => t.date = d /\ t.total > 0  BY <1>6
<1>12. t.total = 0 => t \notin EntriesOf(ds, d)  BY <1>10, <1>11
<1> QED  BY <1>4, <1>5, <1>6, <1>7, <1>9, <1>11, <1>12 DEF Behind

\* A day without lines in front may be left out.
LEMMA AgreeDrop ==
  ASSUME NEW A \in Seq(Row), NEW B, NEW lg, Agree(A, B, lg), NEW r \in Seq(Row),
         FirstRow(A, A[1], r), A[1].total = 0
  PROVE  Agree(r, B, lg) /\ QueueOf(A, lg) = QueueOf(r, lg)
<1> DEFINE t == A[1]
<1>1. /\ QueueOf(A, lg) = QueueOf(r, lg) \o Rest(t, lg) /\ Sound(r, lg) /\ SoundRow(t, lg)
  BY QueueCons DEF Agree
<1>2. Rest(t, lg) = << >>
  <2>1. Rest(t, lg) \in Seq(Events) /\ Len(Rest(t, lg)) = t.total - t.index
        /\ t.total - t.index \in Nat /\ t.index \in Nat
    BY <1>1, RestIn DEF Sound
  <2>2. Len(Rest(t, lg)) = 0  BY <2>1
  <2> QED  BY <2>1, <2>2
<1>3. QueueOf(r, lg) \in Seq(Events)  BY <1>1, QueueIn
<1>4. QueueOf(A, lg) = QueueOf(r, lg)  BY <1>1, <1>2, <1>3, ConcatIs
<1>5. ASSUME NEW d \in Dates
      PROVE  Once(r, d) /\ EntriesOf(r, d) = EntriesOf(A, d)
             /\ \A x \in Dates : Newer(r, d, x) => Newer(A, d, x)
  <2>1. /\ Once(A, d) => Once(r, d)
        /\ EntriesOf(r, d) \subseteq EntriesOf(A, d)
        /\ \A e \in EntriesOf(A, d) : e \in EntriesOf(r, d) \/ e = t
        /\ t.total = 0 => t \notin EntriesOf(A, d)
        /\ \A x : Newer(r, d, x) => Newer(A, d, x)
    <3>1. Behind(A, t, r, d)  BY RowsBehind, Zenon
    <3> QED  BY <3>1 DEF Behind
  <2>2. EntriesOf(A, d) \subseteq EntriesOf(r, d)  BY <2>1
  <2> QED  BY <2>1, <2>2 DEF Agree
<1>6. Agree(r, B, lg)  BY <1>1, <1>5 DEF Agree
<1> QED  BY <1>4, <1>6

\* Otherwise both begin with the same row.
LEMMA AgreeSame ==
  ASSUME NEW A \in Seq(Row), NEW B \in Seq(Row), NEW lg, Agree(A, B, lg),
         Len(A) # 0, A[1].total > 0, Len(B) # 0, B[1].total > 0
  PROVE  A[1] = B[1]
<1> DEFINE a == A[1]  b == B[1]
<1>1. 1 \in 1..Len(A) /\ 1 \in 1..Len(B)  OBVIOUS
<1>2. a \in Row /\ b \in Row /\ a.date \in Dates /\ b.date \in Dates  BY <1>1, RowIs
<1>3. a \in EntriesOf(A, a.date) /\ b \in EntriesOf(B, b.date)  BY <1>1, EntriesIs
<1>4. a \in EntriesOf(B, a.date) /\ b \in EntriesOf(A, b.date)  BY <1>2, <1>3 DEF Agree
<1>5. PICK j \in 1..Len(B) : a = B[j]  BY <1>4, EntriesIs
<1>6. PICK i \in 1..Len(A) : b = A[i]  BY <1>4, EntriesIs
<1>7. CASE j = 1  BY <1>5, <1>7
<1>8. CASE i = 1  BY <1>6, <1>8
<1>9. CASE i # 1 /\ j # 1
  <2>1. 1 < i /\ 1 < j  BY <1>9
  <2>2. Newer(A, a.date, b.date)  BY <1>1, <1>6, <2>1 DEF Newer
  <2>3. Newer(B, b.date, a.date)  BY <1>1, <1>5, <2>1 DEF Newer
  <2> QED  BY <1>2, <2>2, <2>3 DEF Agree
<1> QED  BY <1>7, <1>8, <1>9

LEMMA AgreeBehind ==
  ASSUME NEW A \in Seq(Row), NEW B \in Seq(Row), NEW lg, Agree(A, B, lg), NEW t,
         NEW r \in Seq(Row), NEW q \in Seq(Row), FirstRow(A, t, r), FirstRow(B, t, q)
  PROVE  Agree(r, q, lg)
<1>1. Sound(r, lg) /\ Sound(q, lg)  BY QueueCons DEF Agree
<1>2. ASSUME NEW d \in Dates
      PROVE  /\ Once(r, d) /\ Once(q, d) /\ EntriesOf(r, d) = EntriesOf(q, d)
             /\ \A x \in Dates : Newer(r, d, x) => Newer(A, d, x)
             /\ \A x \in Dates : Newer(q, d, x) => Newer(B, d, x)
  <2>1. Once(A, d) /\ Once(B, d) /\ EntriesOf(A, d) = EntriesOf(B, d)  BY DEF Agree
  <2>2. /\ Once(r, d) /\ EntriesOf(r, d) \subseteq EntriesOf(A, d)
        /\ \A e \in EntriesOf(A, d) : e \in EntriesOf(r, d) \/ e = t
        /\ t.date # d => t \notin EntriesOf(A, d)
        /\ t.date = d => EntriesOf(r, d) = {}
        /\ \A x : Newer(r, d, x) => Newer(A, d, x)
    <3>1. Behind(A, t, r, d)  BY RowsBehind, Zenon
    <3> QED  BY <2>1, <3>1 DEF Behind
  <2>3. /\ Once(q, d) /\ EntriesOf(q, d) \subseteq EntriesOf(B, d)
        /\ \A e \in EntriesOf(B, d) : e \in EntriesOf(q, d) \/ e = t
        /\ t.date # d => t \notin EntriesOf(B, d)
        /\ t.date = d => EntriesOf(q, d) = {}
        /\ \A x : Newer(q, d, x) => Newer(B, d, x)
    <3>1. Behind(B, t, q, d)  BY RowsBehind, Zenon
    <3> QED  BY <2>1, <3>1 DEF Behind
  <2>4. CASE t.date = d  BY <2>2, <2>3, <2>4
  <2>5. CASE t.date # d
    <3>1. EntriesOf(r, d) = EntriesOf(A, d) /\ EntriesOf(q, d) = EntriesOf(B, d)
      BY <2>2, <2>3, <2>5
    <3> QED  BY <2>1, <2>2, <2>3, <3>1
  <2> QED  BY <2>4, <2>5
<1>3. \A d, x \in Dates : ~(Newer(A, d, x) /\ Newer(B, x, d))  BY DEF Agree
<1> QED  BY <1>1, <1>2, <1>3 DEF Agree

\* Tables that agree have the same queue.
LEMMA QueueAgree ==
  ASSUME NEW A \in Seq(Row), NEW B \in Seq(Row), NEW lg, Agree(A, B, lg)
  PROVE  QueueOf(A, lg) = QueueOf(B, lg)
<1> DEFINE Good(a, b) == Agree(a, b, lg) => QueueOf(a, lg) = QueueOf(b, lg)
           S == {n \in Nat : \A a, b \in Seq(Row) : Len(a) + Len(b) = n => Good(a, b)}
<1>1. ASSUME NEW n \in Nat, \A m \in Nat : m < n => m \in S,
             NEW a \in Seq(Row), NEW b \in Seq(Row), Len(a) + Len(b) = n, Agree(a, b, lg)
      PROVE  QueueOf(a, lg) = QueueOf(b, lg)
  <2>0. Len(a) \in Nat /\ Len(b) \in Nat /\ Sound(a, lg) /\ Sound(b, lg)  BY <1>1 DEF Agree
  <2>1. ASSUME NEW c \in Seq(Row), NEW d \in Seq(Row), Len(c) + Len(d) < n, Agree(c, d, lg)
        PROVE  QueueOf(c, lg) = QueueOf(d, lg)
    <3>1. Len(c) + Len(d) \in Nat  OBVIOUS
    <3>2. Len(c) + Len(d) \in S  BY <1>1, <2>1, <3>1
    <3>3. Good(c, d)
      <4> HIDE DEF Good
      <4> QED  BY <3>2
    <3> QED  BY <2>1, <3>3
  <2>2. ASSUME NEW c \in Seq(Row), Len(c) # 0, Sound(c, lg)
        PROVE  c[1].total \in Nat /\ c[1] \in Row
    <3>1. 1 \in 1..Len(c)  BY <2>2
    <3> QED  BY <2>2, <3>1, RowIs
  <2>3. CASE Len(a) # 0 /\ a[1].total = 0
    <3>1. PICK r \in Seq(Row) : FirstRow(a, a[1], r) /\ Len(r) \in Nat /\ Len(r) < Len(a)
      BY <2>3, HasFirst
    <3>2. Agree(r, b, lg) /\ QueueOf(a, lg) = QueueOf(r, lg)
      BY <1>1, <2>3, <3>1, AgreeDrop
    <3>3. Len(r) + Len(b) < n  BY ONLY <1>1, <2>0, <3>1
    <3> QED  BY <2>1, <3>2, <3>3
  <2>4. CASE Len(b) # 0 /\ b[1].total = 0
    <3>1. PICK r \in Seq(Row) : FirstRow(b, b[1], r) /\ Len(r) \in Nat /\ Len(r) < Len(b)
      BY <2>4, HasFirst
    <3>2. Agree(r, a, lg) /\ QueueOf(b, lg) = QueueOf(r, lg)
      BY <1>1, <2>4, <3>1, AgreeDrop, AgreeBack
    <3>3. Len(r) + Len(a) < n  BY ONLY <1>1, <2>0, <3>1
    <3> QED  BY <2>1, <3>2, <3>3
  <2>5. ASSUME NEW c \in Seq(Row), NEW d \in Seq(Row), Agree(c, d, lg),
               Len(c) # 0, c[1].total # 0
        PROVE  Len(d) # 0
    <3>1. c[1].total > 0 /\ c[1].date \in Dates /\ 1 \in 1..Len(c)
      <4>1. c[1] \in Row /\ c[1].total \in Nat  BY <2>2, <2>5 DEF Agree
      <4> QED  BY <2>5, <4>1, RowIs
    <3>2. c[1] \in EntriesOf(c, c[1].date)  BY <3>1, EntriesIs
    <3>3. c[1] \in EntriesOf(d, c[1].date)  BY <2>5, <3>1, <3>2 DEF Agree
    <3> QED  BY <3>3, EntriesIs
  <2>6. CASE Len(a) = 0 /\ Len(b) = 0  BY <2>0, <2>6, QueueNone
  <2>7. CASE /\ Len(a) # 0 /\ a[1].total # 0
             /\ Len(b) # 0 /\ b[1].total # 0
    <3>1. a[1].total > 0 /\ b[1].total > 0
      <4>1. a[1].total \in Nat /\ b[1].total \in Nat  BY <2>0, <2>2, <2>7
      <4> QED  BY <2>7, <4>1
    <3>2. a[1] = b[1]  BY <1>1, <2>7, <3>1, AgreeSame
    <3>3. PICK r \in Seq(Row) : FirstRow(a, a[1], r) /\ Len(r) \in Nat /\ Len(r) < Len(a)
      BY <2>7, HasFirst
    <3>4. PICK q \in Seq(Row) : FirstRow(b, b[1], q) /\ Len(q) \in Nat /\ Len(q) < Len(b)
      BY <2>7, HasFirst
    <3>5. Agree(r, q, lg)
      <4>1. FirstRow(b, a[1], q)  BY <3>2, <3>4
      <4> QED  BY <1>1, <3>3, <4>1, AgreeBehind
    <3>6. Len(r) + Len(q) < n  BY ONLY <1>1, <2>0, <3>3, <3>4
    <3>7. QueueOf(r, lg) = QueueOf(q, lg)  BY <2>1, <3>5, <3>6
    <3>8. /\ QueueOf(a, lg) = QueueOf(r, lg) \o Rest(a[1], lg)
          /\ QueueOf(b, lg) = QueueOf(q, lg) \o Rest(b[1], lg)
      BY <2>0, <3>3, <3>4, QueueCons
    <3> QED  BY <3>2, <3>7, <3>8
  <2>8. Len(a) # 0 /\ a[1].total # 0 => Len(b) # 0  BY <1>1, <2>5
  <2>9. Len(b) # 0 /\ b[1].total # 0 => Len(a) # 0  BY <1>1, <2>5, AgreeBack
  <2> QED  BY <2>3, <2>4, <2>6, <2>7, <2>8, <2>9
<1>2. ASSUME NEW n \in Nat, \A m \in Nat : m < n => m \in S  PROVE n \in S
  BY <1>1, <1>2
<1> HIDE DEF S
<1>3. Nat \subseteq S  BY <1>2, Strong
<1>4. Len(A) + Len(B) \in S
  <2>1. Len(A) + Len(B) \in Nat  OBVIOUS
  <2> QED  BY <1>3, <2>1
<1> QED  BY <1>4 DEF S

-----------------------------------------------------------------------------
(* What a reader is handed, in a state without accidents.                   *)

Queued ==
  /\ Queue = QueueOf(Table, log) /\ Sound(Table, log)
  /\ \A i \in 1..Len(Table) : Table[i].total = Len(log[Table[i].date])
  /\ \A d \in Dates : Once(Table, d) /\ (d \notin Tracked(Table) => log[d] = << >>)

LEMMA QueueIs == IInv /\ torn = {} => Queued
<1> SUFFICES ASSUME IInv, torn = {}  PROVE Queued  OBVIOUS
<1>1. Table \in Seq(Row) /\ \A i \in 1..Len(Table) : Table[i] \in Row  BY TableIs
<1>2. QueueExact  BY IsExact
<1>3. log \in [Dates -> Seq(Events)]  BY DEF IInv, HistoryOK
<1>4. \A d \in Dates : Once(Table, d) /\ (d \notin Tracked(Table) => log[d] = << >>)
  BY DEF IInv, DaysOK, DayOK, NoLines
<1>5. ASSUME NEW i \in 1..Len(Table)
      PROVE  /\ SoundRow(Table[i], log) /\ Table[i].total = Len(log[Table[i].date])
             /\ LeftOf(Table[i]) = Rest(Table[i], log)
  <2>1. PICK t : t = Table[i]  OBVIOUS
  <2>2. t \in Row /\ t.total \in Nat /\ t.index \in Nat /\ t.date \in Dates
    BY <1>1, <1>5, <2>1, RowIs
  <2>3. t.total = Len(log[t.date]) /\ t.index <= t.total
        /\ \A k \in t.index..t.total - 1 : LineAt(t.date, k) = log[t.date][k + 1]
    BY <1>2, <1>5, <2>1 DEF QueueExact
  <2>4. ASSUME NEW n \in 1..(t.total - t.index)
        PROVE  LineAt(t.date, t.index + n - 1) = log[t.date][t.index + n]
    <3>1. t.index + n - 1 \in t.index..t.total - 1 /\ (t.index + n - 1) + 1 = t.index + n
      BY ONLY <2>2, n \in 1..(t.total - t.index)
    <3> QED  BY <2>3, <3>1
  <2>5. LeftOf(t) = Rest(t, log)  BY <2>4 DEF LeftOf, Rest
  <2>6. SoundRow(t, log)  BY <2>2, <2>3 DEF SoundRow
  <2> QED  BY <2>1, <2>3, <2>5, <2>6
<1>6. Sound(Table, log)  BY <1>1, <1>3, <1>5 DEF Sound
<1>7. Queue = QueueOf(Table, log)
  <2>1. Len(Table) \in Nat  BY <1>1
  <2>2. ASSUME NEW i \in 1..Len(Table)
        PROVE  LeftOf(Table[Len(Table) + 1 - i]) = Rest(Table[Len(Table) + 1 - i], log)
    <3>1. Len(Table) + 1 - i \in 1..Len(Table)  BY <2>1
    <3> QED  BY <1>5, <3>1
  <2>3. [i \in 1..Len(Table) |-> LeftOf(Table[Len(Table) + 1 - i])] = PartsOf(Table, log)
    BY <2>2 DEF PartsOf
  <2> QED  BY <2>3 DEF Queue, QueueOf
<1> QED  BY <1>4, <1>5, <1>6, <1>7 DEF Queued

LEMMA QueueIsNext == IInv' /\ torn' = {} => Queued'
<1>1. (IInv /\ torn = {} => Queued)'  BY QueueIs, PTL
<1> QED  BY <1>1

\* A table with one row in front of which nothing is left, or one behind.
LEMMA DropFirst ==
  ASSUME NEW p \in Seq(Events), NEW q \in Seq(Events)
  PROVE  \/ p \o q = q
         \/ \E n \in 1..Len(p \o q) : q = SubSeq(p \o q, n + 1, Len(p \o q))
<1>1. Len(p) \in Nat /\ Len(q) \in Nat /\ Len(p \o q) = Len(p) + Len(q)  OBVIOUS
<1>2. CASE p = << >>  BY <1>2, ConcatIs
<1>3. CASE p # << >>
  <2>1. Len(p) \in 1..Len(p \o q)  BY <1>1, <1>3
  <2>2. q = SubSeq(p \o q, Len(p) + 1, Len(p \o q))  BY <1>1
  <2> QED  BY <2>1, <2>2
<1> QED  BY <1>2, <1>3

\* One line fewer of a day.
LEMMA RestTail ==
  ASSUME NEW lg \in [Dates -> Seq(Events)], NEW t, NEW u, SoundRow(t, lg), SoundRow(u, lg),
         u.date = t.date, u.total = t.total, u.index = t.index + 1, t.index < t.total
  PROVE  Rest(t, lg) # << >> /\ Rest(u, lg) = Tail(Rest(t, lg))
<1>1. /\ Rest(t, lg) \in Seq(Events) /\ Len(Rest(t, lg)) = t.total - t.index
      /\ t.total - t.index \in Nat /\ t.index \in Nat /\ t.total \in Nat
  BY RestIn
<1>2. Rest(u, lg) \in Seq(Events) /\ Len(Rest(u, lg)) = u.total - u.index  BY RestIn
<1>3. PICK n \in Nat : t.total - t.index = n + 1 /\ u.total - u.index = n
  <2>1. (t.total - t.index) - 1 \in Nat /\ u.total - u.index = (t.total - t.index) - 1
    BY ONLY <1>1, u.total = t.total, u.index = t.index + 1, t.index < t.total
  <2> QED  BY <1>1, <2>1
<1>4. PICK a, b : a = Rest(t, lg) /\ b = Rest(u, lg)  OBVIOUS
<1>5. a \in Seq(Events) /\ Len(a) = n + 1 /\ b \in Seq(Events) /\ Len(b) = n
  BY <1>1, <1>2, <1>3, <1>4
<1>6. ASSUME NEW k \in 1..n  PROVE b[k] = a[k + 1]
  <2>1. b[k] = lg[u.date][u.index + k]  BY <1>3, <1>4 DEF Rest
  <2>2. a[k + 1] = lg[t.date][t.index + (k + 1)]
    <3>1. k + 1 \in 1..(t.total - t.index)  BY <1>3
    <3> QED  BY <1>4, <3>1 DEF Rest
  <2>3. u.index + k = t.index + (k + 1)
    <3>1. PICK i \in Nat : i = t.index  BY <1>1
    <3>2. (i + 1) + k = i + (k + 1)  BY ONLY i \in Nat, k \in 1..n, n \in Nat
    <3> QED  BY ONLY <3>1, <3>2, u.index = t.index + 1, Zenon
  <2> QED  BY <2>1, <2>2, <2>3
<1>7. b = Tail(a) /\ a # << >>  BY ONLY <1>5, <1>6, n \in Nat
<1> QED  BY <1>4, <1>7

\* One line more.
LineMore(t, lg, u, mg, e) ==
  /\ lg \in [Dates -> Seq(Events)] /\ mg \in [Dates -> Seq(Events)] /\ e \in Events
  /\ SoundRow(t, lg) /\ SoundRow(u, mg) /\ t.total = Len(lg[t.date])
  /\ u.date = t.date /\ u.total = t.total + 1 /\ u.index = t.index
  /\ mg[t.date] = Append(lg[t.date], e)

LEMMA RestAppend ==
  ASSUME NEW t, NEW lg, NEW u, NEW mg, NEW e, LineMore(t, lg, u, mg, e)
  PROVE  Rest(u, mg) = Append(Rest(t, lg), e)
<1> SUFFICES ASSUME lg \in [Dates -> Seq(Events)], mg \in [Dates -> Seq(Events)],
                    e \in Events, SoundRow(t, lg), SoundRow(u, mg), t.total = Len(lg[t.date]),
                    u.date = t.date, u.total = t.total + 1, u.index = t.index,
                    mg[t.date] = Append(lg[t.date], e)
             PROVE  Rest(u, mg) = Append(Rest(t, lg), e)
  BY Zenon DEF LineMore
<1>1. /\ Rest(t, lg) \in Seq(Events) /\ Len(Rest(t, lg)) = t.total - t.index
      /\ t.total - t.index \in Nat /\ t.index \in Nat /\ t.total \in Nat
      /\ lg[t.date] \in Seq(Events)
  BY RestIn
<1>2. Rest(u, mg) \in Seq(Events) /\ Len(Rest(u, mg)) = u.total - u.index  BY RestIn
<1>3. PICK n \in Nat : t.total - t.index = n /\ u.total - u.index = n + 1 /\ t.total = t.index + n
  <2>1. /\ u.total - u.index = (t.total - t.index) + 1
        /\ t.total = t.index + (t.total - t.index)
    <3>1. ASSUME NEW a \in Nat, NEW b \in Nat
          PROVE  (a + 1) - b = (a - b) + 1 /\ a = b + (a - b)
      OBVIOUS
    <3> QED  BY ONLY <1>1, <3>1, u.total = t.total + 1, u.index = t.index, Zenon
  <2> QED  BY <1>1, <2>1
<1>4. PICK a, b, l : a = Rest(t, lg) /\ b = Rest(u, mg) /\ l = lg[t.date]  OBVIOUS
<1>5. /\ a \in Seq(Events) /\ Len(a) = n /\ b \in Seq(Events) /\ Len(b) = n + 1
      /\ l \in Seq(Events) /\ Len(l) = t.index + n
  BY <1>1, <1>2, <1>3, <1>4
<1>6. ASSUME NEW k \in 1..n + 1  PROVE b[k] = Append(l, e)[t.index + k]
  BY <1>3, <1>4 DEF Rest
<1>7. ASSUME NEW k \in 1..n  PROVE b[k] = a[k]
  <2>1. a[k] = l[t.index + k]  BY <1>3, <1>4 DEF Rest
  <2>2. t.index + k \in 1..Len(l) /\ k \in 1..n + 1
    <3>1. ASSUME NEW x \in Nat, NEW y \in 1..n  PROVE x + y \in 1..(x + n) /\ y \in 1..n + 1
      BY ONLY n \in Nat
    <3>2. t.index \in Nat  BY <1>1
    <3> QED  BY ONLY <3>1, <3>2, <1>5, k \in 1..n, Zenon
  <2>3. Append(l, e)[t.index + k] = l[t.index + k]  BY <1>5, <2>2
  <2> QED  BY <1>6, <2>1, <2>2, <2>3
<1>8. b[n + 1] = e
  <2>1. t.index + (n + 1) = Len(l) + 1 /\ n + 1 \in 1..n + 1  BY ONLY <1>1, <1>5, n \in Nat
  <2>2. Append(l, e)[Len(l) + 1] = e  BY <1>5
  <2> QED  BY <1>6, <2>1, <2>2
<1>9. b = Append(a, e)
  <2>1. /\ Append(a, e) \in Seq(Events) /\ Len(Append(a, e)) = n + 1
        /\ Append(a, e)[n + 1] = e /\ \A i \in 1..n : Append(a, e)[i] = a[i]
    BY ONLY <1>5, n \in Nat, e \in Events, AppendIs
  <2>2. ASSUME NEW k \in 1..n + 1  PROVE b[k] = Append(a, e)[k]
    <3>1. k = n + 1 \/ k \in 1..n  BY ONLY k \in 1..n + 1, n \in Nat
    <3> QED  BY <1>7, <1>8, <2>1, <3>1
  <2> QED  BY ONLY <1>5, <2>1, <2>2, n \in Nat
<1> QED  BY <1>4, <1>9

-----------------------------------------------------------------------------
(* The line in flight is of the oldest day that has a line left.             *)

\* Lines are numbered as they come: those of the log are below Bound.
Bound == IF op.kind = "append" THEN op.event ELSE next

Below(lg, b) == \A d \in Dates : \A k \in 1..Len(lg[d]) : lg[d][k] \in Nat /\ lg[d][k] < b

Fresh ==
  /\ next \in Nat /\ Bound \in Nat /\ Bound <= next /\ (op.kind = "append" => Bound < next)
  /\ Below(log, Bound)

\* No day behind row i has a line left.
NoneOlder(ds, i) == \A j \in 1..Len(ds) : j > i => ds[j].index >= ds[j].total

Handed(ds, lg, h, b) ==
  /\ h.date \in Dates /\ h.event \in Nat /\ h.event < b
  /\ \A i \in 1..Len(ds) : ds[i].date = h.date =>
       \A k \in 1..Len(lg[h.date]) :
         k > ds[i].index /\ lg[h.date][k] = h.event => NoneOlder(ds, i)

OrderInv ==
  /\ Fresh
  /\ torn = {} /\ cur = "retx" => Handed(days, log, handle, Bound)
  /\ ~ready => cur = "none"

LEMMA TornGrows == IInv /\ [Next]_vars => torn \subseteq torn'
<1> SUFFICES ASSUME IInv, [Next]_vars  PROVE torn \subseteq torn'  OBVIOUS
<1>1. ASSUME NEW h, NEW fails, Ack(h, fails)  PROVE torn \subseteq torn'  BY <1>1 DEF Ack
<1>2. ASSUME UNCHANGED listVars  PROVE torn \subseteq torn'  BY <1>2 DEF listVars
<1>3. ASSUME NEW d \in Dates, Store(d)  PROVE torn \subseteq torn'
  BY <1>3 DEF Store, AddNewDay, AddSameDay
<1>4. CASE Storage  BY <1>4 DEF Storage, AddAppend, AddFails, Save, SaveFails
<1>5. CASE Discard  BY <1>1, <1>5 DEF Discard
<1>6. ASSUME NEW ok \in BOOLEAN, Result(ok)  PROVE torn \subseteq torn'
  <2>1. (\E fails : Ack(handle, fails)) \/ UNCHANGED listVars  BY <1>6 DEF Result
  <2> QED  BY <1>1, <1>2, <2>1
<1>7. CASE TrySend \/ OtherEvent \/ Started \/ StartBusy \/ CloudAccepts \/ Tick
  BY <1>2, <1>7 DEF TrySend, OtherEvent, Started, StartBusy, CloudAccepts, Tick
<1>8. CASE Cut  BY <1>8 DEF Cut, PowerCut
<1>9. CASE SdReady  BY <1>9 DEF SdReady, Load
<1>10. CASE UNCHANGED vars  BY <1>2, <1>10 DEF vars
<1> QED  BY <1>3, <1>4, <1>5, <1>6, <1>7, <1>8, <1>9, <1>10 DEF Next

\* A step that adds no line.
LEMMA FreshStays ==
  ASSUME Fresh, log' = log, next' = next, op' = op \/ op'.kind # "append"
  PROVE  Fresh' /\ Bound <= Bound'
<1>1. next \in Nat /\ Bound \in Nat /\ Bound <= next  BY DEF Fresh
<1>2. CASE op' = op
  <2>1. Bound' = Bound  BY <1>2 DEF Bound
  <2> QED  BY <1>1, <1>2, <2>1 DEF Fresh, Below
<1>3. CASE op'.kind # "append"
  <2>1. Bound' = next  BY <1>3 DEF Bound
  <2>2. \A n \in Nat : n < Bound => n < next  BY <1>1
  <2>3. Below(log, next)  BY <2>2 DEF Fresh, Below
  <2>4. next <= next  BY <1>1
  <2> QED  BY <1>1, <1>3, <2>1, <2>3, <2>4 DEF Fresh, Below
<1> QED  BY <1>2, <1>3

LEMMA FreshStore ==
  ASSUME IInv, Fresh, NEW d \in Dates, Store(d)
  PROVE  Fresh' /\ Bound' = Bound
<1>1. next \in Nat /\ op.kind = "idle" /\ next' = next + 1  BY DEF Fresh, Store, Free
<1>2. Bound = next  BY <1>1 DEF Bound
<1>3. op'.kind = "append" /\ op'.event = next  BY DEF Store, AddNewDay, AddSameDay
<1>4. Bound' = next  BY <1>3 DEF Bound
<1>5. ASSUME NEW x \in Dates  PROVE log'[x] = log[x] \/ log'[x] = << >>
  BY DEF Store, AddNewDay, AddSameDay
<1>6. Len(<< >>) = 0  OBVIOUS
<1>7. Below(log', next)
  <2> SUFFICES ASSUME NEW x \in Dates, NEW k \in 1..Len(log'[x])
               PROVE  log'[x][k] \in Nat /\ log'[x][k] < next
    BY DEF Below
  <2>1. log'[x] = log[x]  BY <1>5, <1>6
  <2> QED  BY <1>2, <2>1 DEF Fresh, Below
<1>8. next + 1 \in Nat /\ next <= next + 1 /\ next < next + 1  BY <1>1
<1> QED  BY <1>1, <1>2, <1>4, <1>7, <1>8 DEF Fresh

LEMMA FreshAppend ==
  ASSUME IInv, Fresh, AddAppend, next' = next
  PROVE  Fresh' /\ Bound <= Bound' /\ Bound = op.event
<1>1. next \in Nat /\ Bound \in Nat /\ Bound < next /\ Bound = op.event
  BY DEF Fresh, AddAppend, Bound
<1>2. log \in [Dates -> Seq(Events)] /\ op.event \in Events
      /\ log' = [log EXCEPT ![op.date] = Append(@, op.event)]
  BY DEF IInv, HistoryOK, OpOK, AddAppend
<1>3. op'.kind = "save"  BY DEF AddAppend, IInv, OpOK
<1>4. Bound' = next  BY <1>3 DEF Bound
<1>5. Below(log', next)
  <2> SUFFICES ASSUME NEW x \in Dates, NEW k \in 1..Len(log'[x])
               PROVE  log'[x][k] \in Nat /\ log'[x][k] < next
    BY DEF Below
  <2>1. log[x] \in Seq(Events)  BY <1>2
  <2>2. ASSUME NEW i \in 1..Len(log[x])  PROVE log[x][i] \in Nat /\ log[x][i] < next
    <3>1. log[x][i] \in Nat /\ log[x][i] < Bound  BY DEF Fresh, Below
    <3> QED  BY ONLY <1>1, <3>1
  <2>3. CASE x = op.date
    <3>1. log'[x] = Append(log[x], op.event)  BY <1>2, <2>3
    <3>2. k \in 1..Len(log[x]) \/ k = Len(log[x]) + 1  BY <1>2, <2>1, <3>1
    <3>3. CASE k \in 1..Len(log[x])
      <4>1. log'[x][k] = log[x][k]  BY <1>2, <2>1, <3>1, <3>3
      <4> QED  BY <2>2, <3>3, <4>1
    <3>4. CASE k = Len(log[x]) + 1
      <4>1. log'[x][k] = op.event  BY <1>2, <2>1, <3>1, <3>4
      <4> QED  BY <1>1, <4>1
    <3> QED  BY <3>2, <3>3, <3>4
  <2>4. CASE x # op.date
    <3>1. log'[x] = log[x]  BY <1>2, <2>4
    <3> QED  BY <2>2, <3>1
  <2> QED  BY <2>3, <2>4
<1>6. Bound <= next /\ next <= next  BY <1>1
<1> QED  BY <1>1, <1>3, <1>4, <1>5, <1>6 DEF Fresh

LEMMA HandedNewDay ==
  ASSUME IInv, ready = TRUE, NEW d \in Dates, NEW e \in Events, NEW n, AddNewDay(d, e, n),
         ready' = ready, sent' = sent, torn' = {},
         NEW h, NEW b, Handed(days, log, h, b)
  PROVE  Handed(days', log', h, b)
<1>1. days \in Seq(Row) /\ Len(days) <= MaxDays  BY DEF IInv, PairOK
<1>2. PICK ds : ds = days'  OBVIOUS
<1>3. /\ Len(ds) = Len(Kept) + 1 /\ Len(ds) \in Nat /\ ds[1] = Entry(d)
      /\ \A i \in 1..Len(ds) : i # 1 => ds[i] = Kept[i - 1] /\ i - 1 \in 1..Len(Kept)
  <2>1. ds = NewTable(d)  BY <1>2 DEF AddNewDay, NewTable
  <2>2. InFront(d, ds)  BY <1>1, <2>1, NewTableIs, Zenon
  <2> QED  BY <2>2 DEF InFront
<1>4. \A i \in 1..Len(Kept) : Kept[i] = days[i] /\ i \in 1..Len(days)  BY <1>1, KeptIs
<1>5. ASSUME NEW i \in 1..Len(ds), i # 1
      PROVE  ds[i] = days[i - 1] /\ i - 1 \in 1..Len(days)
  BY <1>3, <1>4, <1>5
<1>6. log'[h.date] = log[h.date] \/ Len(log'[h.date]) = 0
  <2>1. Len(<< >>) = 0  OBVIOUS
  <2> QED  BY <2>1 DEF AddNewDay, Handed
<1>7. ASSUME NEW i \in 1..Len(ds), ds[i].date = h.date, NEW k \in 1..Len(log'[h.date]),
             k > ds[i].index, log'[h.date][k] = h.event
      PROVE  NoneOlder(ds, i)
  <2>1. log'[h.date] = log[h.date]  BY <1>6
  <2>2. i # 1
    <3>1. CASE i = 1
      <4>1. ds[1].date = d /\ ds[1].total = 0  BY <1>3 DEF Entry
      <4>2. DaysOK(ds, files', log', torn')  BY <1>2, NewDayKeeps
      <4>3. RowOK(ds[1], files', log')  BY <1>7, <3>1, <4>1, <4>2 DEF DaysOK, DayOK
      <4>4. Len(log'[h.date]) = 0  BY <1>7, <3>1, <4>1, <4>3 DEF RowOK
      <4> QED  BY <4>4
    <3> QED  BY <3>1
  <2>3. ds[i] = days[i - 1] /\ i - 1 \in 1..Len(days)  BY <1>5, <2>2
  <2>4. NoneOlder(days, i - 1)  BY <1>7, <2>1, <2>3 DEF Handed
  <2>5. ASSUME NEW j \in 1..Len(ds), j > i  PROVE ds[j].index >= ds[j].total
    <3>1. j # 1 /\ j - 1 > i - 1  BY <1>3, <2>5
    <3>2. ds[j] = days[j - 1] /\ j - 1 \in 1..Len(days)  BY <1>5, <3>1
    <3> QED  BY <2>4, <3>1, <3>2 DEF NoneOlder
  <2> QED  BY <2>5 DEF NoneOlder
<1>8. Handed(ds, log', h, b)  BY <1>7 DEF Handed
<1> QED  BY <1>2, <1>8

\* A line that is added has a number above that of the line in flight.
LEMMA HandedAppend ==
  ASSUME IInv, AddAppend, NEW h, NEW b, NEW c, b = op.event, c \in Nat, b \in Nat, b <= c,
         Handed(days, log, h, b)
  PROVE  Handed(days', log', h, c)
<1>1. /\ days \in Seq(Row) /\ days # << >>
      /\ log \in [Dates -> Seq(Events)] /\ op.event \in Events
      /\ log' = [log EXCEPT ![op.date] = Append(@, op.event)]
  BY DEF IInv, PairOK, HistoryOK, OpOK, AddAppend
<1>2. PICK ds : ds = days'  OBVIOUS
<1>3. ds = [days EXCEPT ![1].total = @ + 1]  BY <1>2 DEF AddAppend
<1>4. Len(ds) = Len(days) /\ \A i \in 1..Len(days) : i # 1 => ds[i] = days[i]
  BY <1>1, <1>3
<1>5. ASSUME NEW i \in 1..Len(days)
      PROVE  ds[i].date = days[i].date /\ ds[i].index = days[i].index
  <2>1. days[i] \in Row  BY <1>1
  <2>2. CASE i = 1
    <3>1. ds[1] = [days[1] EXCEPT !.total = @ + 1]  BY <1>1, <1>3, <1>5, <2>2
    <3> QED  BY <2>1, <2>2, <3>1 DEF Row
  <2> QED  BY <1>4, <2>2
<1>6. h.date \in Dates /\ h.event \in Nat /\ h.event < b  BY DEF Handed
<1>7. ASSUME NEW i \in 1..Len(ds), ds[i].date = h.date, NEW k \in 1..Len(log'[h.date]),
             k > ds[i].index, log'[h.date][k] = h.event
      PROVE  NoneOlder(ds, i)
  <2>1. h.date \in Dates /\ log[h.date] \in Seq(Events)  BY <1>1, <1>6
  <2>2. k \in 1..Len(log[h.date]) /\ log[h.date][k] = h.event
    <3>1. CASE h.date = op.date
      <4>1. log'[h.date] = Append(log[h.date], op.event)  BY <1>1, <2>1, <3>1
      <4>2. k \in 1..Len(log[h.date]) \/ k = Len(log[h.date]) + 1
        <5>1. Len(log'[h.date]) = Len(log[h.date]) + 1 /\ Len(log[h.date]) \in Nat
          BY ONLY <2>1, <4>1
        <5> QED  BY ONLY <5>1, k \in 1..Len(log'[h.date])
      <4>3. CASE k = Len(log[h.date]) + 1
        <5>1. log'[h.date][k] = op.event  BY <1>1, <2>1, <4>1, <4>3
        <5>2. h.event = b  BY <1>7, <5>1
        <5>3. ~(b < b)  BY ONLY b \in Nat
        <5> QED  BY <1>6, <5>2, <5>3
      <4>4. CASE k \in 1..Len(log[h.date])
        <5>1. log'[h.date][k] = log[h.date][k]  BY <1>1, <2>1, <4>1, <4>4
        <5> QED  BY <1>7, <4>4, <5>1
      <4> QED  BY <4>2, <4>3, <4>4
    <3>2. CASE h.date # op.date
      <4>1. log'[h.date] = log[h.date]  BY <1>1, <3>2
      <4> QED  BY <1>7, <4>1
    <3> QED  BY <3>1, <3>2
  <2>3. i \in 1..Len(days) /\ days[i].date = h.date /\ k > days[i].index
    BY <1>4, <1>5, <1>7
  <2>4. NoneOlder(days, i)  BY <2>2, <2>3 DEF Handed
  <2>5. ASSUME NEW j \in 1..Len(ds), j > i  PROVE ds[j].index >= ds[j].total
    <3>1. j # 1 /\ j \in 1..Len(days)  BY <1>4, <2>5
    <3> QED  BY <1>4, <2>4, <2>5, <3>1 DEF NoneOlder
  <2> QED  BY <2>5 DEF NoneOlder
<1>8. h.event < c  BY ONLY <1>6, b \in Nat, c \in Nat, b <= c
<1>9. Handed(ds, log', h, c)  BY <1>6, <1>7, <1>8 DEF Handed
<1> QED  BY <1>2, <1>9

\* An acknowledgement leaves no more lines of any day.
LEMMA AckTable ==
  ASSUME days \in Seq(Row), NEW g, NEW fails, Ack(g, fails)
  PROVE  \E m \in 1..Len(days), u \in Row :
           /\ m = g.day /\ days' = [days EXCEPT ![m] = u] /\ days[m] \in Row
           /\ u.date = days[m].date /\ u.total = days[m].total /\ u.index = days[m].index + 1
<1>1. PICK m : m = g.day  OBVIOUS
<1>2. PICK r : r = days[m]  OBVIOUS
<1>3. m \in 1..Len(days) /\ r \in Row /\ r = days[m]  BY <1>1, <1>2 DEF Ack
<1>4. PICK u : u = [r EXCEPT !.index = @ + 1]  OBVIOUS
<1>5. u \in Row /\ u.date = r.date /\ u.total = r.total /\ u.index = r.index + 1
  BY ONLY <1>3, <1>4 DEF Row
<1>6. days' = [days EXCEPT ![m] = u]  BY <1>1, <1>2, <1>4 DEF Ack
<1> QED  BY <1>1, <1>3, <1>5, <1>6

LEMMA HandedAck ==
  ASSUME IInv, NEW g, NEW fails, Ack(g, fails), NEW h, NEW b, Handed(days, log, h, b)
  PROVE  Handed(days', log', h, b)
<1>1. days \in Seq(Row) /\ log' = log  BY DEF IInv, PairOK, Ack
<1>2. PICK m \in 1..Len(days), u \in Row :
        /\ days' = [days EXCEPT ![m] = u] /\ days[m] \in Row
        /\ u.date = days[m].date /\ u.total = days[m].total /\ u.index = days[m].index + 1
  BY <1>1, AckTable
<1>3. PICK ds : ds = days'  OBVIOUS
<1>4. Len(ds) = Len(days) /\ ds[m] = u /\ \A i \in 1..Len(days) : i # m => ds[i] = days[i]
  BY <1>1, <1>2, <1>3
<1>5. ASSUME NEW i \in 1..Len(days)
      PROVE  /\ ds[i].date = days[i].date
             /\ \A k \in Nat : k > ds[i].index => k > days[i].index
             /\ days[i].index >= days[i].total => ds[i].index >= ds[i].total
  <2>1. days[i].index \in Nat /\ days[i].total \in Nat  BY <1>1, RowIs
  <2>2. CASE i = m
    <3>1. ASSUME NEW x \in Nat, NEW y \in Nat
          PROVE  (\A k \in Nat : k > x + 1 => k > x) /\ (x >= y => x + 1 >= y)
      OBVIOUS
    <3> QED  BY ONLY <1>2, <1>4, <2>1, <2>2, <3>1, Zenon
  <2>3. CASE i # m  BY <1>4, <2>3
  <2> QED  BY <2>2, <2>3
<1>6. ASSUME NEW i \in 1..Len(ds), ds[i].date = h.date, NEW k \in 1..Len(log[h.date]),
             k > ds[i].index, log[h.date][k] = h.event
      PROVE  NoneOlder(ds, i)
  <2>1. days[i].date = h.date /\ k > days[i].index  BY <1>4, <1>5, <1>6
  <2>2. NoneOlder(days, i)  BY <1>4, <1>6, <2>1 DEF Handed
  <2> QED  BY <1>4, <1>5, <2>2 DEF NoneOlder
<1>7. Handed(ds, log, h, b)  BY <1>6 DEF Handed
<1> QED  BY <1>1, <1>3, <1>7

\* What list_mgr_peek_next hands out is the first line that is left of the oldest day.
LEMMA PeekOrder ==
  ASSUME IInv, Fresh, torn = {}, MaySend
  PROVE  Handed(days, log, Peek, Bound)
<1>1. Table = days /\ PeekOK  BY DEF MaySend, Free, Table
<1>2. days \in Seq(Row) /\ Len(days) \in Nat  BY DEF IInv, PairOK
<1>3. PICK o : o = Oldest  OBVIOUS
<1>4. o \in 1..Len(days) /\ HasMore(o) /\ \A j \in o + 1 .. Len(days) : ~HasMore(j)
  BY <1>1, <1>2, <1>3, OldestIs DEF PeekOK
<1>5. PICK t : t = days[o]  OBVIOUS
<1>6. t.date \in Dates /\ t.index \in Nat /\ t.total \in Nat /\ t.index < t.total
  BY <1>2, <1>4, <1>5, RowIs DEF HasMore
<1>7. /\ t.total = Len(log[t.date])
      /\ \A k \in t.index..t.total - 1 : LineAt(t.date, k) = log[t.date][k + 1]
  BY <1>1, <1>4, <1>5, IsExact DEF QueueExact
<1>8. t.index \in t.index..t.total - 1 /\ t.index + 1 \in 1..t.total  BY ONLY <1>6
<1>9. Peek.date = t.date /\ Peek.event = log[t.date][t.index + 1]
  BY <1>3, <1>5, <1>7, <1>8 DEF Peek
<1>10. Peek.event \in Nat /\ Peek.event < Bound
  BY <1>6, <1>7, <1>8, <1>9 DEF Fresh, Below
<1>11. Once(days, t.date)  BY <1>1, <1>6, QueueIs DEF Queued
<1>12. NoneOlder(days, o)
  <2> SUFFICES ASSUME NEW j \in 1..Len(days), j > o  PROVE days[j].index >= days[j].total
    BY DEF NoneOlder
  <2>1. j \in o + 1 .. Len(days)  BY <1>2, <1>4
  <2>2. days[j].index \in Nat /\ days[j].total \in Nat  BY <1>2, RowIs
  <2> QED  BY <1>4, <2>1, <2>2 DEF HasMore
<1>13. ASSUME NEW i \in 1..Len(days), days[i].date = t.date  PROVE NoneOlder(days, i)
  <2>1. i = o  BY <1>4, <1>5, <1>11, <1>13 DEF Once
  <2> QED  BY <1>12, <2>1
<1> QED  BY <1>6, <1>9, <1>10, <1>13 DEF Handed

LEMMA HandedBelow ==
  ASSUME NEW ds, NEW lg, NEW h, NEW b \in Nat, NEW c \in Nat, b <= c, Handed(ds, lg, h, b)
  PROVE  Handed(ds, lg, h, c)
<1>1. h.event \in Nat /\ h.event < b  BY DEF Handed
<1>2. h.event < c  BY ONLY <1>1, b \in Nat, c \in Nat, b <= c
<1> QED  BY <1>2 DEF Handed

\* A step that leaves the table and adds no line.
LEMMA OrderStays ==
  ASSUME OrderInv, torn \subseteq torn', log' = log, next' = next,
         op' = op \/ op'.kind # "append",
         cur' # "retx" \/ (cur' = cur /\ handle' = handle /\ days' = days),
         ready' = TRUE \/ cur' = "none"
  PROVE  OrderInv'
<1>1. Fresh' /\ Bound <= Bound' /\ Bound \in Nat /\ Bound' \in Nat
  BY FreshStays DEF OrderInv, Fresh
<1>2. ASSUME torn' = {}, cur' = "retx"  PROVE Handed(days', log', handle', Bound')
  <2>1. torn = {} /\ cur = "retx" /\ handle' = handle /\ days' = days  BY <1>2
  <2>2. Handed(days, log, handle, Bound)  BY <2>1 DEF OrderInv
  <2>3. Handed(days, log, handle, Bound')  BY <1>1, <2>2, HandedBelow
  <2> QED  BY <2>1, <2>3
<1> QED  BY <1>1, <1>2 DEF OrderInv

LEMMA OrderAck ==
  ASSUME IInv, OrderInv, NEW g, NEW fails, Ack(g, fails), torn \subseteq torn', next' = next, handle' = handle,
         cur' = cur \/ cur' = "none", ready' = TRUE
  PROVE  OrderInv'
<1>1. log' = log /\ op'.kind # "append"  BY DEF Ack, Idle
<1>2. Fresh' /\ Bound <= Bound' /\ Bound \in Nat /\ Bound' \in Nat
  BY <1>1, FreshStays DEF OrderInv, Fresh
<1>3. ASSUME torn' = {}, cur' = "retx"  PROVE Handed(days', log', handle', Bound')
  <2>1. torn = {} /\ cur = "retx"  BY <1>3
  <2>2. Handed(days, log, handle, Bound)  BY <2>1 DEF OrderInv
  <2>3. Handed(days', log', handle, Bound)  BY <2>2, HandedAck
  <2>4. Handed(days', log', handle, Bound')  BY <1>2, <2>3, HandedBelow
  <2> QED  BY <2>4
<1> QED  BY <1>2, <1>3 DEF OrderInv

LEMMA OrderStore ==
  ASSUME IInv, OrderInv, NEW d \in Dates, Store(d), torn \subseteq torn'
  PROVE  OrderInv'
<1>1. /\ ready = TRUE /\ next \in Events /\ ready' = ready /\ sent' = sent
      /\ cur' = cur /\ handle' = handle
  BY DEF IInv, HistoryOK, Store, Free, netVars
<1>2. Fresh' /\ Bound' = Bound  BY FreshStore DEF OrderInv
<1>3. ASSUME torn' = {}, cur' = "retx"  PROVE Handed(days', log', handle', Bound')
  <2>1. torn = {} /\ cur = "retx"  BY <1>1, <1>3
  <2>2. Handed(days, log, handle, Bound)  BY <2>1 DEF OrderInv
  <2>3. ASSUME NEW n, AddNewDay(d, next, n)  PROVE Handed(days', log', handle', Bound')
    <3>1. Handed(days', log', handle, Bound)  BY <1>1, <1>3, <2>2, <2>3, HandedNewDay
    <3> QED  BY <1>1, <1>2, <3>1
  <2>4. CASE AddSameDay(d, next)
    <3>1. days' = days /\ log' = log  BY <2>4 DEF AddSameDay
    <3> QED  BY <1>1, <1>2, <2>2, <3>1
  <2> QED  BY <2>3, <2>4 DEF Store
<1> QED  BY <1>1, <1>2, <1>3 DEF OrderInv

LEMMA OrderStorage ==
  ASSUME IInv, OrderInv, Storage, torn \subseteq torn'
  PROVE  OrderInv'
<1>1. /\ ready' = ready /\ next' = next /\ cur' = cur /\ handle' = handle
  BY DEF Storage, netVars
<1>2. op.kind # "idle"  BY DEF Storage, AddAppend, AddFails, Save, SaveFails
<1>3. ready = TRUE  BY <1>2 DEF IInv, Down, HistoryOK, Idle
<1>4. CASE AddAppend
  <2>1. /\ Fresh' /\ Bound <= Bound' /\ Bound = op.event /\ Bound \in Nat /\ Bound' \in Nat
    BY <1>1, <1>4, FreshAppend DEF OrderInv, Fresh
  <2>2. ASSUME torn' = {}, cur' = "retx"  PROVE Handed(days', log', handle', Bound')
    <3>1. torn = {} /\ cur = "retx"  BY <1>1, <2>2
    <3>2. Handed(days, log, handle, Bound)  BY <3>1 DEF OrderInv
    <3>3. PICK b, c : b = Bound /\ c = Bound'  OBVIOUS
    <3>4. Handed(days', log', handle, c)  BY <1>4, <2>1, <3>2, <3>3, HandedAppend
    <3> QED  BY <1>1, <3>3, <3>4
  <2> QED  BY <1>1, <1>3, <2>1, <2>2 DEF OrderInv
<1>5. CASE AddFails \/ Save \/ SaveFails
  <2>1. log' = log /\ days' = days /\ op'.kind # "append"
    BY <1>5 DEF AddFails, Save, SaveFails, Idle
  <2> QED  BY <1>1, <1>3, <2>1, OrderStays
<1> QED  BY <1>4, <1>5 DEF Storage

LEMMA OrderStep == IInv /\ OrderInv /\ [Next]_vars => OrderInv'
<1> SUFFICES ASSUME IInv, OrderInv, [Next]_vars  PROVE OrderInv'  OBVIOUS
<1>0. torn \subseteq torn' /\ ready \in BOOLEAN /\ (~ready => cur = "none")
  BY TornGrows DEF IInv, HistoryOK, OrderInv
<1>1. ASSUME NEW d \in Dates, Store(d)  PROVE OrderInv'  BY <1>0, <1>1, OrderStore
<1>2. CASE Storage  BY <1>0, <1>2, OrderStorage
<1>3. CASE TrySend
  <2>1. /\ MaySend /\ handle' = Peek /\ log' = log /\ days' = days /\ torn' = torn
        /\ op' = op /\ next' = next /\ ready' = ready /\ ready
    BY <1>3 DEF TrySend, listVars, MaySend, Free
  <2>2. Fresh' /\ Bound <= Bound' /\ Bound \in Nat /\ Bound' \in Nat /\ Fresh
    BY <2>1, FreshStays DEF OrderInv, Fresh
  <2>3. ASSUME torn' = {}  PROVE Handed(days', log', handle', Bound')
    <3>1. Handed(days, log, Peek, Bound)  BY <2>1, <2>2, <2>3, PeekOrder
    <3>2. Handed(days, log, Peek, Bound')  BY <2>2, <3>1, HandedBelow
    <3> QED  BY <2>1, <3>2
  <2> QED  BY <2>1, <2>2, <2>3 DEF OrderInv
<1>4. CASE Discard
  <2>1. /\ \E fails : Ack(Peek, fails)
        /\ next' = next /\ handle' = handle /\ cur' = cur /\ ready' = TRUE
    BY <1>0, <1>4 DEF Discard, MaySend, Free, netVars
  <2> QED  BY <1>0, <2>1, OrderAck
<1>5. CASE OtherEvent \/ Started \/ StartBusy \/ CloudAccepts \/ Tick
  <2>1. /\ UNCHANGED listVars /\ next' = next /\ ready' = ready
        /\ (cur' = "other" \/ cur' = cur) /\ handle' = handle
    BY <1>5 DEF OtherEvent, Started, StartBusy, CloudAccepts, Tick
  <2>2. ready' = TRUE \/ cur' = "none"
    BY <1>0, <1>5 DEF OtherEvent, Started, StartBusy, CloudAccepts, Tick, Free
  <2>3. log' = log /\ days' = days /\ op' = op  BY <2>1 DEF listVars
  <2> QED  BY <1>0, <2>1, <2>2, <2>3, OrderStays
<1>6. ASSUME NEW ok \in BOOLEAN, Result(ok)  PROVE OrderInv'
  <2>1. /\ next' = next /\ handle' = handle /\ cur' = "none" /\ ready' = TRUE
        /\ (\E fails : Ack(handle, fails)) \/ UNCHANGED listVars
    BY <1>0, <1>6 DEF Result, Free
  <2>2. CASE \E fails : Ack(handle, fails)  BY <1>0, <2>1, <2>2, OrderAck
  <2>3. CASE UNCHANGED listVars
    <3>1. log' = log /\ op' = op /\ cur' # "retx"  BY <2>1, <2>3 DEF listVars
    <3>2. /\ cur' # "retx" \/ (cur' = cur /\ handle' = handle /\ days' = days)
          /\ ready' = TRUE \/ cur' = "none"
          /\ op' = op \/ op'.kind # "append"
      BY ONLY <2>1, <3>1
    <3> QED  BY <1>0, <2>1, <3>1, <3>2, OrderStays, Zenon
  <2> QED  BY <2>1, <2>2, <2>3
<1>7. CASE Cut
  <2>1. /\ log' = log /\ next' = next /\ op'.kind # "append"
        /\ cur' = "none" /\ cur' # "retx"
    BY <1>7 DEF Cut, PowerCut, Idle
  <2>2. /\ cur' # "retx" \/ (cur' = cur /\ handle' = handle /\ days' = days)
        /\ ready' = TRUE \/ cur' = "none"
        /\ op' = op \/ op'.kind # "append"
    BY ONLY <2>1
  <2> QED  BY <1>0, <2>1, <2>2, OrderStays, Zenon
<1>8. CASE SdReady
  <2>1. /\ log' = log /\ next' = next /\ op' = op
        /\ cur' = "none" /\ cur' # "retx"
    BY <1>0, <1>8 DEF SdReady, Load, netVars
  <2>2. /\ cur' # "retx" \/ (cur' = cur /\ handle' = handle /\ days' = days)
        /\ ready' = TRUE \/ cur' = "none"
        /\ op' = op \/ op'.kind # "append"
    BY ONLY <2>1
  <2> QED  BY <1>0, <2>1, <2>2, OrderStays, Zenon
<1>9. CASE UNCHANGED vars
  <2>1. /\ log' = log /\ days' = days /\ op' = op /\ next' = next /\ ready' = ready
        /\ cur' = cur /\ handle' = handle
    BY <1>9 DEF vars, listVars, netVars
  <2> QED  BY <1>0, <2>1, OrderStays
<1> QED  BY <1>1, <1>2, <1>3, <1>4, <1>5, <1>6, <1>7, <1>8, <1>9 DEF Next

-----------------------------------------------------------------------------
(* How each step moves the queue.                                           *)

\* A new day in front; the oldest may fall off at the end.
NewFront(ds, lg, es, mg, kept, t, last) ==
  /\ Sound(ds, lg) /\ Sound(es, mg) /\ kept \in Seq(Row) /\ last \in Row
  /\ FirstRow(es, t, kept) /\ t.total = 0 /\ (kept = ds \/ LastRow(ds, kept, last))
  /\ \A i \in 1..Len(kept) : mg[kept[i].date] = lg[kept[i].date]

Expires(p, q) == p = q \/ \E n \in 1..Len(q) : p = SubSeq(q, n + 1, Len(q))

LEMMA NewDayQueue ==
  ASSUME NEW ds, NEW lg, NEW es, NEW mg, NEW kept, NEW t, NEW last,
         NewFront(ds, lg, es, mg, kept, t, last)
  PROVE  Expires(QueueOf(es, mg), QueueOf(ds, lg))
<1> SUFFICES ASSUME Sound(ds, lg), Sound(es, mg), kept \in Seq(Row), last \in Row,
                    FirstRow(es, t, kept), t.total = 0, kept = ds \/ LastRow(ds, kept, last),
                    \A i \in 1..Len(kept) : mg[kept[i].date] = lg[kept[i].date]
             PROVE  Expires(QueueOf(es, mg), QueueOf(ds, lg))
  BY Zenon DEF NewFront
<1>1. /\ QueueOf(es, mg) = QueueOf(kept, mg) \o Rest(t, mg)
      /\ Sound(kept, mg) /\ SoundRow(t, mg)
  BY QueueCons
<1>2. Rest(t, mg) = << >>
  <2>1. Rest(t, mg) \in Seq(Events) /\ Len(Rest(t, mg)) = t.total - t.index
        /\ t.total - t.index \in Nat /\ t.index \in Nat
    BY <1>1, RestIn DEF Sound
  <2>2. Len(Rest(t, mg)) = 0  BY <2>1
  <2> QED  BY <2>1, <2>2
<1>3. QueueOf(kept, mg) \in Seq(Events) /\ Len(kept) \in Nat  BY <1>1, QueueIn
<1>4. QueueOf(es, mg) = QueueOf(kept, mg)  BY <1>1, <1>2, <1>3, ConcatIs
<1>5. QueueOf(kept, lg) = QueueOf(kept, mg)
  <2>1. ASSUME NEW i \in 1..Len(kept)  PROVE Rest(kept[i], lg) = Rest(kept[i], mg)
    BY DEF Rest
  <2> QED  BY <1>3, <2>1, QueueSame
<1>6. CASE kept = ds  BY <1>4, <1>5, <1>6 DEF Expires
<1>7. CASE LastRow(ds, kept, last)
  <2>1. ds \in Seq(Row) /\ lg \in [Dates -> Seq(Events)]  BY DEF Sound
  <2>2. QueueOf(ds, lg) = Rest(last, lg) \o QueueOf(kept, lg) /\ SoundRow(last, lg)
    BY <1>7, <2>1, QueueSnoc
  <2>3. Rest(last, lg) \in Seq(Events)  BY <2>1, <2>2, RestIn
  <2>4. PICK p, q : p = Rest(last, lg) /\ q = QueueOf(kept, lg)  OBVIOUS
  <2>5. p \in Seq(Events) /\ q \in Seq(Events)  BY <1>3, <1>5, <2>3, <2>4
  <2>6. QueueOf(es, mg) = q /\ QueueOf(ds, lg) = p \o q  BY <1>4, <1>5, <2>2, <2>4
  <2>7. \/ p \o q = q
        \/ \E n \in 1..Len(p \o q) : q = SubSeq(p \o q, n + 1, Len(p \o q))
    BY <2>5, DropFirst
  <2> QED  BY <2>6, <2>7, Zenon DEF Expires
<1> QED  BY <1>6, <1>7

LEMMA AppendBehind ==
  ASSUME NEW p \in Seq(Events), NEW q \in Seq(Events), NEW e \in Events
  PROVE  p \o Append(q, e) = Append(p \o q, e)
OBVIOUS

\* A line more of the newest day.
Grown(ds, lg, es, mg, e) ==
  /\ Sound(ds, lg) /\ Sound(es, mg) /\ e \in Events /\ Len(es) = Len(ds) /\ Len(ds) # 0
  /\ \A i \in 1..Len(ds) : i # 1 => es[i] = ds[i] /\ mg[ds[i].date] = lg[ds[i].date]
  /\ es[1].date = ds[1].date /\ es[1].total = ds[1].total + 1 /\ es[1].index = ds[1].index
  /\ ds[1].total = Len(lg[ds[1].date]) /\ mg[ds[1].date] = Append(lg[ds[1].date], e)

LEMMA AppendQueue ==
  ASSUME NEW ds, NEW lg, NEW es, NEW mg, NEW e, Grown(ds, lg, es, mg, e)
  PROVE  QueueOf(es, mg) = Append(QueueOf(ds, lg), e)
<1> SUFFICES ASSUME Sound(ds, lg), Sound(es, mg), e \in Events, Len(es) = Len(ds),
                    Len(ds) # 0,
                    \A i \in 1..Len(ds) : i # 1 => /\ es[i] = ds[i]
                                                /\ mg[ds[i].date] = lg[ds[i].date],
                    es[1].date = ds[1].date, es[1].total = ds[1].total + 1,
                    es[1].index = ds[1].index, ds[1].total = Len(lg[ds[1].date]),
                    mg[ds[1].date] = Append(lg[ds[1].date], e)
             PROVE  QueueOf(es, mg) = Append(QueueOf(ds, lg), e)
  BY Zenon DEF Grown
<1>1. /\ ds \in Seq(Row) /\ lg \in [Dates -> Seq(Events)]
      /\ es \in Seq(Row) /\ mg \in [Dates -> Seq(Events)]
  BY DEF Sound
<1>2. PICK r \in Seq(Row) : FirstRow(ds, ds[1], r) /\ Len(r) \in Nat /\ Len(r) < Len(ds)
  BY <1>1, HasFirst
<1>3. \A i \in 1..Len(r) : i + 1 \in 1..Len(ds) /\ i + 1 # 1 /\ ds[i + 1] = r[i]
  BY <1>2 DEF FirstRow
<1>4. FirstRow(es, es[1], r)  BY <1>2, <1>3 DEF FirstRow
<1>5. PICK t, u : t = ds[1] /\ u = es[1]  OBVIOUS
<1>6. /\ QueueOf(ds, lg) = QueueOf(r, lg) \o Rest(t, lg) /\ SoundRow(t, lg) /\ Sound(r, lg)
      /\ QueueOf(es, mg) = QueueOf(r, mg) \o Rest(u, mg) /\ SoundRow(u, mg)
  <2>1. QueueOf(ds, lg) = QueueOf(r, lg) \o Rest(t, lg) /\ SoundRow(t, lg) /\ Sound(r, lg)
    BY ONLY <1>2, <1>5, Sound(ds, lg), r \in Seq(Row), QueueCons
  <2>2. QueueOf(es, mg) = QueueOf(r, mg) \o Rest(u, mg) /\ SoundRow(u, mg)
    BY ONLY <1>4, <1>5, Sound(es, mg), r \in Seq(Row), QueueCons
  <2> QED  BY <2>1, <2>2
<1>7. QueueOf(r, lg) = QueueOf(r, mg)
  <2>1. ASSUME NEW i \in 1..Len(r)  PROVE Rest(r[i], lg) = Rest(r[i], mg)
    <3>1. mg[r[i].date] = lg[r[i].date]  BY <1>3
    <3> QED  BY <3>1 DEF Rest
  <2> QED  BY <1>2, <2>1, QueueSame
<1>8. Rest(u, mg) = Append(Rest(t, lg), e)
  <2>1. /\ t.total = Len(lg[t.date]) /\ u.date = t.date /\ u.total = t.total + 1
        /\ u.index = t.index /\ mg[t.date] = Append(lg[t.date], e)
    BY <1>5
  <2>2. LineMore(t, lg, u, mg, e)  BY <1>1, <1>6, <2>1 DEF LineMore
  <2> QED  BY <2>2, RestAppend
<1>9. QueueOf(r, lg) \in Seq(Events) /\ Rest(t, lg) \in Seq(Events)
  BY <1>1, <1>6, QueueIn, RestIn
<1>10. PICK p, q : p = QueueOf(r, lg) /\ q = Rest(t, lg)  OBVIOUS
<1>11. p \in Seq(Events) /\ q \in Seq(Events)  BY <1>9, <1>10
<1>12. p \o Append(q, e) = Append(p \o q, e)  BY <1>11, AppendBehind
<1> QED  BY <1>6, <1>7, <1>8, <1>10, <1>12

Moves ==
  \/ Queue' = Queue
  \/ \E e \in Events : Queue' = Append(Queue, e)
  \/ Queue # << >> /\ Queue' = Tail(Queue)
  \/ \E n \in 1..Len(Queue) : Queue' = SubSeq(Queue, n + 1, Len(Queue))

LEMMA MovesIs == Moves => Promise!Next \/ Queue' = Queue
BY DEF Moves, Promise!Next, Promise!Add, Promise!Acknowledge, Promise!Expire

LEMMA MoveSame ==
  ASSUME Queued, Queued', Table' = Table, log' = log
  PROVE  Moves
<1>1. Queue' = Queue  BY DEF Queued
<1> QED  BY <1>1 DEF Moves

LEMMA MoveNewDay ==
  ASSUME IInv, ready = TRUE, ready' = ready, Queued, Queued', NEW d \in Dates, NEW e, NEW k,
         AddNewDay(d, e, k)
  PROVE  Moves
<1>1. Table = days /\ Table' = days'  BY DEF Table
<1>2. PICK es, mg : es = days' /\ mg = log'  OBVIOUS
<1>3. /\ Queue = QueueOf(days, log) /\ Sound(days, log)
      /\ Queue' = QueueOf(es, mg) /\ Sound(es, mg)
  BY <1>1, <1>2 DEF Queued
<1>4. \A x \in Dates : Once(days, x)  BY <1>1 DEF Queued
<1>5. days \in Seq(Row) /\ Len(days) <= MaxDays /\ Len(days) \in Nat  BY DEF IInv, PairOK
<1>6. InFront(d, es)
  <2>1. es = NewTable(d)  BY <1>2 DEF AddNewDay, NewTable
  <2> QED  BY <1>5, <2>1, NewTableIs, Zenon
<1>7. PICK kept : kept = Kept  OBVIOUS
<1>8. /\ kept \in Seq(Row) /\ Len(kept) \in Nat
      /\ \A i \in 1..Len(kept) : kept[i] = days[i] /\ i \in 1..Len(days)
  BY <1>5, <1>7, KeptIs
<1>9. FirstRow(es, Entry(d), kept)  BY <1>6, <1>7 DEF InFront, FirstRow
<1>10. Entry(d).total = 0  BY DEF Entry
<1>11. CASE Len(days) >= MaxDays
  <2>1. PICK n \in Nat : Len(days) = n + 1
    <3>1. Len(days) - 1 \in Nat /\ Len(days) = (Len(days) - 1) + 1
      BY ONLY <1>5, <1>11, ListAssumption
    <3> QED  BY <3>1
  <2>2. PICK last : last = days[n + 1]  OBVIOUS
  <2>3. n + 1 \in 1..Len(days) /\ last \in Row  BY <1>5, <2>1, <2>2
  <2>4. Dropped = {last.date}  BY <1>11, <2>1, <2>2 DEF Dropped, Last
  <2>5. Len(kept) = n /\ Len(days) = Len(kept) + 1
    <3>1. kept = SubSeq(days, 1, Len(days) - 1)  BY <1>7, <1>11 DEF Kept, Front
    <3>2. Len(days) - 1 = n  BY <2>1
    <3>3. Len(SubSeq(days, 1, n)) = n  BY <1>5, <2>1
    <3> QED  BY <2>1, <3>1, <3>2, <3>3
  <2>6. LastRow(days, kept, last)  BY <1>8, <2>2, <2>5 DEF LastRow
  <2>7. ASSUME NEW i \in 1..Len(kept)  PROVE mg[kept[i].date] = log[kept[i].date]
    <3>1. kept[i] = days[i] /\ i \in 1..Len(days)  BY <1>8
    <3>2. kept[i].date \in Dates  BY <1>8, RowIs
    <3>3. i # n + 1  BY <2>5
    <3>4. kept[i].date # last.date
      <4>1. last.date \in Dates  BY <2>3, RowIs
      <4>2. Once(days, last.date)  BY <1>4, <4>1
      <4> QED  BY <2>2, <2>3, <3>1, <3>3, <4>2 DEF Once
    <3>5. mg = [x \in Dates |-> IF x \in {last.date} THEN << >> ELSE log[x]]
      BY <1>2, <2>4 DEF AddNewDay
    <3> QED  BY <3>2, <3>4, <3>5
  <2>8. NewFront(days, log, es, mg, kept, Entry(d), last)
    BY <1>3, <1>8, <1>9, <1>10, <2>3, <2>6, <2>7 DEF NewFront
  <2>9. Expires(QueueOf(es, mg), QueueOf(days, log))  BY ONLY <2>8, NewDayQueue, Zenon
  <2> QED  BY <1>3, <2>9 DEF Expires, Moves
<1>12. CASE ~(Len(days) >= MaxDays)
  <2>1. kept = days /\ Dropped = {}  BY <1>7, <1>12 DEF Kept, Dropped
  <2>2. Entry(d) \in Row  BY <1>6 DEF InFront
  <2>3. ASSUME NEW i \in 1..Len(kept)  PROVE mg[kept[i].date] = log[kept[i].date]
    <3>1. kept[i].date \in Dates  BY <1>8, RowIs
    <3>2. mg = [x \in Dates |-> IF x \in {} THEN << >> ELSE log[x]]
      BY <1>2, <2>1 DEF AddNewDay
    <3> QED  BY <3>1, <3>2
  <2>4. NewFront(days, log, es, mg, kept, Entry(d), Entry(d))
    BY <1>3, <1>8, <1>9, <1>10, <2>1, <2>2, <2>3 DEF NewFront
  <2>5. Expires(QueueOf(es, mg), QueueOf(days, log))  BY ONLY <2>4, NewDayQueue, Zenon
  <2> QED  BY <1>3, <2>5 DEF Expires, Moves
<1> QED  BY <1>11, <1>12

LEMMA MoveAppend ==
  ASSUME IInv, ready = TRUE, ready' = ready, Queued, Queued', AddAppend
  PROVE  Moves
<1>1. Table = days /\ Table' = days'  BY DEF Table
<1>2. PICK es, mg : es = days' /\ mg = log'  OBVIOUS
<1>3. /\ Queue = QueueOf(days, log) /\ Sound(days, log)
      /\ Queue' = QueueOf(es, mg) /\ Sound(es, mg)
      /\ \A x \in Dates : Once(days, x)
      /\ \A i \in 1..Len(days) : days[i].total = Len(log[days[i].date])
  BY <1>1, <1>2 DEF Queued
<1>4. /\ days \in Seq(Row) /\ days # << >> /\ op.date = days[1].date /\ op.event \in Events
      /\ log \in [Dates -> Seq(Events)]
  BY DEF IInv, PairOK, OpOK, HistoryOK, AddAppend
<1>5. 1 \in 1..Len(days) /\ Len(days) # 0 /\ days[1] \in Row  BY <1>4
<1>6. PICK d, e : d = op.date /\ e = op.event  OBVIOUS
<1>7. d \in Dates /\ e \in Events /\ d = days[1].date  BY <1>4, <1>5, <1>6, RowIs
<1>8. mg = [log EXCEPT ![d] = Append(@, e)]  BY <1>2, <1>6 DEF AddAppend
<1>9. mg[d] = Append(log[d], e) /\ \A x \in Dates : x # d => mg[x] = log[x]
  BY <1>4, <1>7, <1>8
<1>10. PICK u : u = [days[1] EXCEPT !.total = @ + 1]  OBVIOUS
<1>11. u.date = days[1].date /\ u.total = days[1].total + 1 /\ u.index = days[1].index
  BY ONLY <1>5, <1>10 DEF Row
<1>12. es = [days EXCEPT ![1] = u]  BY <1>2, <1>10 DEF AddAppend
<1>13. Len(es) = Len(days) /\ es[1] = u /\ \A i \in 1..Len(days) : i # 1 => es[i] = days[i]
  BY <1>4, <1>5, <1>12
<1>14. ASSUME NEW i \in 1..Len(days), i # 1  PROVE mg[days[i].date] = log[days[i].date]
  <2>1. days[i].date \in Dates  BY <1>4, RowIs
  <2>2. days[i].date # d  BY <1>3, <1>5, <1>7, <1>14 DEF Once
  <2> QED  BY <1>9, <2>1, <2>2
<1>15. Queue' = Append(Queue, e)
  <2>1. /\ es[1].date = days[1].date /\ es[1].total = days[1].total + 1
        /\ es[1].index = days[1].index /\ days[1].total = Len(log[days[1].date])
        /\ mg[days[1].date] = Append(log[days[1].date], e)
    BY <1>3, <1>5, <1>7, <1>9, <1>11, <1>13
  <2>2. Grown(days, log, es, mg, e)
    BY <1>3, <1>5, <1>7, <1>13, <1>14, <2>1 DEF Grown
  <2>3. QueueOf(es, mg) = Append(QueueOf(days, log), e)  BY ONLY <2>2, AppendQueue
  <2> QED  BY <1>3, <2>3
<1> QED  BY <1>7, <1>15 DEF Moves

\* The line that is acknowledged is the first of the queue.
LEMMA MoveAck ==
  ASSUME IInv, ready = TRUE, ready' = ready, Queued, Queued', torn' = {},
         NEW g, NEW b, NEW fails, Ack(g, fails), Handed(days, log, g, b)
  PROVE  Moves
<1>1. Table = days /\ Table' = days'  BY DEF Table
<1>2. days \in Seq(Row) /\ log \in [Dates -> Seq(Events)] /\ log' = log
  BY DEF IInv, PairOK, HistoryOK, Ack
<1>3. PICK es : es = days'  OBVIOUS
<1>4. /\ Queue = QueueOf(days, log) /\ Sound(days, log)
      /\ Queue' = QueueOf(es, log) /\ Sound(es, log)
      /\ \A i \in 1..Len(days) : days[i].total = Len(log[days[i].date])
  BY <1>1, <1>2, <1>3 DEF Queued
<1>5. PICK m \in 1..Len(days), u \in Row :
        /\ m = g.day /\ days' = [days EXCEPT ![m] = u] /\ days[m] \in Row
        /\ u.date = days[m].date /\ u.total = days[m].total /\ u.index = days[m].index + 1
  BY <1>2, AckTable
<1>6. PICK t : t = days[m]  OBVIOUS
<1>7. Len(es) = Len(days) /\ es[m] = u /\ \A i \in 1..Len(days) : i # m => es[i] = days[i]
  BY <1>2, <1>3, <1>5
<1>8. Current(t, g)  BY <1>5, <1>6 DEF Ack
<1>9. /\ t.date = g.date /\ t.index < Len(log[g.date]) /\ log[g.date][t.index + 1] = g.event
      /\ t.total = Len(log[t.date]) /\ t.index \in Nat /\ t.total \in Nat
  BY <1>4, <1>5, <1>6, <1>8, RowIs DEF Current
<1>10. NoneOlder(days, m)
  <2>1. t.index + 1 \in 1..Len(log[g.date]) /\ t.index + 1 > t.index  BY <1>9
  <2> QED  BY <1>5, <1>6, <1>9, <2>1 DEF Handed
<1>11. ASSUME NEW i \in 1..Len(days), i > m  PROVE Rest(days[i], log) = << >>
  <2>1. PICK r : r = days[i]  OBVIOUS
  <2>2. r.index >= r.total /\ SoundRow(r, log)  BY <1>4, <1>10, <1>11, <2>1 DEF NoneOlder, Sound
  <2>3. /\ Rest(r, log) \in Seq(Events) /\ Len(Rest(r, log)) = r.total - r.index
        /\ r.total - r.index \in Nat /\ r.index \in Nat /\ r.total \in Nat
    BY <1>2, <2>2, RestIn
  <2>4. Len(Rest(r, log)) = 0  BY ONLY <2>2, <2>3
  <2> QED  BY <2>1, <2>3, <2>4
<1>12. Rest(t, log) # << >> /\ Rest(u, log) = Tail(Rest(t, log))
  <2>1. SoundRow(t, log)  BY <1>4, <1>6 DEF Sound
  <2>2. SoundRow(u, log)
    <3>1. m \in 1..Len(es)  BY <1>7
    <3> QED  BY <1>4, <1>7, <3>1 DEF Sound
  <2>3. t.index < t.total  BY <1>9
  <2>4. u.date = t.date /\ u.total = t.total /\ u.index = t.index + 1  BY <1>5, <1>6
  <2> QED  BY <1>2, <2>1, <2>2, <2>3, <2>4, RestTail
<1>13. Taken(days, es, m, log)
  BY <1>4, <1>6, <1>7, <1>11, <1>12 DEF Taken
<1>14. es \in Seq(Row)  BY <1>4 DEF Sound
<1>15. QueueOf(days, log) # << >> /\ QueueOf(es, log) = Tail(QueueOf(days, log))
  BY <1>2, <1>13, <1>14, QueueTake
<1> QED  BY <1>4, <1>15 DEF Moves

\* A power cut that no day notices leaves the queue as it is.
LEMMA MoveCut ==
  ASSUME IInv, Queued, Queued', torn' = {}, Cut
  PROVE  Moves
<1>1. /\ ready = TRUE /\ ready' = FALSE /\ log' = log
      /\ torn' = torn \cup {d \in Dates : \/ Disagree(meta'.days, days, d)
                                       \/ /\ d \in Tracked(meta'.days) \ Tracked(days)
                                          /\ Remains(files, d)}
  BY DEF IInv, HistoryOK, Cut, PowerCut
<1>2. PICK old : old = meta'.days  OBVIOUS
<1>3. Table = days /\ Table' = old  BY <1>1, <1>2 DEF Table
<1>4. /\ Queue = QueueOf(days, log) /\ Sound(days, log) /\ \A x \in Dates : Once(days, x)
      /\ Queue' = QueueOf(old, log) /\ Sound(old, log) /\ \A x \in Dates : Once(old, x)
  BY <1>1, <1>3 DEF Queued
<1>5. \A d \in Dates : ~Disagree(old, days, d)  BY <1>1, <1>2
<1>6. Agree(old, days, log)
  <2>1. ASSUME NEW d \in Dates
        PROVE  /\ EntriesOf(old, d) = EntriesOf(days, d)
               /\ \A x \in Dates : ~(Newer(old, d, x) /\ Newer(days, x, d))
    BY <1>5 DEF Disagree
  <2> QED  BY <1>4, <2>1 DEF Agree
<1>7. old \in Seq(Row) /\ days \in Seq(Row)  BY <1>4 DEF Sound
<1>8. Queue' = Queue  BY <1>4, <1>6, <1>7, QueueAgree
<1> QED  BY <1>8 DEF Moves

LEMMA FifoStep ==
  ASSUME IInv, IInv', OrderInv, [Next]_vars, torn' = {}
  PROVE  Moves
<1>1. torn = {}
  <2>1. torn \subseteq torn'  BY TornGrows
  <2> QED  BY <2>1
<1>2. Queued /\ Queued'  BY <1>1, QueueIs, QueueIsNext
<1>3. ASSUME days' = days, meta' = meta, log' = log, ready' = ready  PROVE Moves
  <2>1. Table' = Table  BY <1>3 DEF Table
  <2> QED  BY <1>2, <1>3, <2>1, MoveSame
<1>4. ASSUME UNCHANGED listVars, ready' = ready  PROVE Moves
  BY <1>3, <1>4 DEF listVars
<1>5. ASSUME NEW d \in Dates, Store(d)  PROVE Moves
  <2>1. ready = TRUE /\ ready' = ready  BY <1>5 DEF IInv, HistoryOK, Store, Free
  <2>2. ASSUME NEW n, AddNewDay(d, next, n)  PROVE Moves  BY <1>2, <2>1, <2>2, MoveNewDay
  <2>3. CASE AddSameDay(d, next)  BY <1>3, <2>1, <2>3 DEF AddSameDay
  <2> QED  BY <1>5, <2>2, <2>3 DEF Store
<1>6. CASE Storage
  <2>1. op.kind # "idle" /\ ready' = ready
    BY <1>6 DEF Storage, AddAppend, AddFails, Save, SaveFails
  <2>2. ready = TRUE  BY <2>1 DEF IInv, Down, HistoryOK, Idle
  <2>3. CASE AddAppend  BY <1>2, <2>1, <2>2, <2>3, MoveAppend
  <2>4. CASE AddFails \/ Save \/ SaveFails
    <3>1. days' = days /\ log' = log  BY <2>4 DEF AddFails, Save, SaveFails
    <3>2. Table' = Table  BY <2>1, <2>2, <3>1 DEF Table
    <3> QED  BY <1>2, <3>1, <3>2, MoveSame
  <2> QED  BY <1>6, <2>3, <2>4 DEF Storage
<1>7. CASE Discard
  <2>1. /\ ready = TRUE /\ ready' = ready /\ MaySend /\ \E fails : Ack(Peek, fails)
    BY <1>7 DEF IInv, HistoryOK, Discard, MaySend, Free
  <2>2. Handed(days, log, Peek, Bound)  BY <1>1, <2>1, PeekOrder DEF OrderInv
  <2> QED  BY <1>2, <2>1, <2>2, MoveAck
<1>8. ASSUME NEW ok \in BOOLEAN, Result(ok)  PROVE Moves
  <2>1. ready = TRUE /\ ready' = ready  BY <1>8 DEF IInv, HistoryOK, Result, Free
  <2>2. CASE cur = "retx" /\ ok
    <3>1. \E fails : Ack(handle, fails)  BY <1>8, <2>2 DEF Result
    <3>2. Handed(days, log, handle, Bound)  BY <1>1, <2>2 DEF OrderInv
    <3> QED  BY <1>2, <2>1, <3>1, <3>2, MoveAck
  <2>3. CASE ~(cur = "retx" /\ ok)
    <3>1. UNCHANGED listVars  BY <1>8, <2>3 DEF Result
    <3> QED  BY <1>4, <2>1, <3>1
  <2> QED  BY <2>2, <2>3
<1>9. CASE TrySend \/ OtherEvent \/ Started \/ StartBusy \/ CloudAccepts \/ Tick
  BY <1>4, <1>9 DEF TrySend, OtherEvent, Started, StartBusy, CloudAccepts, Tick
<1>10. CASE Cut  BY <1>2, <1>10, MoveCut
<1>11. CASE SdReady
  <2>1. ready = FALSE /\ ready' = TRUE /\ days' = meta.days /\ log' = log
    BY <1>11 DEF IInv, HistoryOK, SdReady, Load
  <2>2. Table' = Table  BY <2>1 DEF Table
  <2> QED  BY <1>2, <2>1, <2>2, MoveSame
<1>12. CASE UNCHANGED vars  BY <1>4, <1>12 DEF vars
<1> QED  BY <1>5, <1>6, <1>7, <1>8, <1>9, <1>10, <1>11, <1>12 DEF Next

LEMMA InitOrder == Init => OrderInv
<1> SUFFICES ASSUME Init  PROVE OrderInv  OBVIOUS
<1>1. /\ next = 1 /\ op.kind = "idle" /\ cur = "none" /\ log = [d \in Dates |-> << >>]
  BY DEF Init, ListInit, Idle
<1>2. Bound = 1  BY <1>1 DEF Bound
<1>3. Below(log, 1)
  <2>1. \A d \in Dates : Len(log[d]) = 0  BY <1>1
  <2> QED  BY <2>1 DEF Below
<1> QED  BY <1>1, <1>2, <1>3 DEF OrderInv, Fresh

-----------------------------------------------------------------------------
(* Files that are left behind.                                              *)

\* File s of date d has lines a reader will be handed.
Wanted(ds, d, s) ==
  \E i \in 1..Len(ds) : ds[i].date = d /\ ds[i].index < Start(s + 1) /\ ds[i].index < ds[i].total

LEMMA OrphansIs ==
  NoOrphanFiles <=> \A d \in Dates \ torn, s \in 0..MaxSeq :
                      files[<<d, s>>] # << >> /\ <<d, s>> \notin undeleted => Wanted(Table, d, s)
BY DEF NoOrphanFiles, Wanted, Start

LEMMA OrphansNext ==
  ASSUME \A d \in Dates \ torn', s \in 0..MaxSeq :
           files'[<<d, s>>] # << >> /\ <<d, s>> \notin undeleted' => Wanted(Table', d, s)
  PROVE  NoOrphanFiles'
BY DEF NoOrphanFiles, Wanted, Start

LEMMA OrphansNewDay ==
  ASSUME IInv, NoOrphanFiles, ready = TRUE, ready' = ready,
         NEW d \in Dates, NEW e, NEW n, AddNewDay(d, e, n)
  PROVE  NoOrphanFiles'
<1>1. days \in Seq(Row) /\ Len(days) <= MaxDays  BY DEF IInv, PairOK
<1>2. PICK ds : ds = days'  OBVIOUS
<1>3. InFront(d, ds)
  <2>1. ds = NewTable(d)  BY <1>2 DEF AddNewDay, NewTable
  <2> QED  BY <1>1, <2>1, NewTableIs, Zenon
<1>4. \A i \in 1..Len(days) : i \in 1..Len(Kept) \/ Dropped = {days[i].date}  BY <1>1, KeptIs
<1>5. \A i \in 1..Len(Kept) : Kept[i] = days[i]  BY <1>1, KeptIs
<1>6. Table = days /\ Table' = ds /\ torn \subseteq torn'  BY <1>2 DEF Table, AddNewDay
<1>7. DOMAIN files = Dates \X (0..MaxSeq)  BY DEF IInv, HistoryOK
<1>8. ASSUME NEW x \in Dates \ torn', NEW s \in 0..MaxSeq,
             files'[<<x, s>>] # << >>, <<x, s>> \notin undeleted'
      PROVE  Wanted(Table', x, s)
  <2>1. x \notin Dropped /\ <<x, s>> \notin undeleted /\ files'[<<x, s>>] = files[<<x, s>>]
    BY <1>7, <1>8 DEF AddNewDay
  <2>2. PICK i \in 1..Len(days) : /\ days[i].date = x /\ days[i].index < Start(s + 1)
                                  /\ days[i].index < days[i].total
    BY <1>6, <1>8, <2>1, OrphansIs DEF Wanted
  <2>3. i \in 1..Len(Kept) /\ Kept[i] = days[i]  BY <1>4, <1>5, <2>1, <2>2
  <2>4. ds[i + 1] = days[i] /\ i + 1 \in 1..Len(ds)  BY <1>3, <2>3 DEF InFront
  <2> QED  BY <1>6, <2>2, <2>4 DEF Wanted
<1> QED  BY <1>8, OrphansNext

LEMMA OrphansAppend ==
  ASSUME IInv, NoOrphanFiles, ready = TRUE, ready' = ready, AddAppend
  PROVE  NoOrphanFiles'
<1>1. /\ PairOK(days, write) /\ days \in Seq(Row) /\ days # << >> /\ op.date = days[1].date
  BY DEF IInv, PairOK, OpOK, AddAppend
<1>2. 1 \in 1..Len(days) /\ days[1] \in Row  BY <1>1
<1>3. PICK w : w = NextWrite  OBVIOUS
<1>4. /\ w.seq \in Nat /\ w.lines \in Nat /\ w.lines < MaxLines
      /\ Start(w.seq) + w.lines = days[1].total
  BY <1>1, <1>3, NextWriteIs
<1>5. PICK ds : ds = days'  OBVIOUS
<1>6. /\ Len(ds) = Len(days) /\ ds[1].date = days[1].date /\ ds[1].index = days[1].index
      /\ ds[1].total = days[1].total + 1
      /\ \A i \in 1..Len(days) : i # 1 => ds[i] = days[i]
  BY <1>1, <1>2, <1>5 DEF AddAppend, Row
<1>7. Table = days /\ Table' = ds /\ torn \subseteq torn' /\ undeleted' = undeleted
  BY <1>5 DEF Table, AddAppend
<1>8. /\ DOMAIN files = Dates \X (0..MaxSeq)
      /\ files' = [files EXCEPT ![<<op.date, w.seq>>] = Append(@, op.event)]
  BY <1>3 DEF IInv, HistoryOK, AddAppend
<1>9. ASSUME NEW x \in Dates \ torn', NEW s \in 0..MaxSeq,
             files'[<<x, s>>] # << >>, <<x, s>> \notin undeleted'
      PROVE  Wanted(Table', x, s)
  <2>1. days[1].index \in Nat /\ days[1].total \in Nat  BY <1>2, RowIs
  <2>2. CASE x = op.date /\ s = w.seq
    <3>1. x \notin torn  BY <1>7, <1>9
    <3>2. days[1].index <= days[1].total
      BY <1>1, <1>2, <1>7, <2>2, <3>1 DEF IInv, DaysOK, DayOK, RowOK
    <3>3. Start(s + 1) = Start(s) + MaxLines /\ Start(s) \in Nat /\ MaxLines \in Nat
      BY <1>4, <2>2, StartIs
    <3>4. ds[1].index < Start(s + 1) /\ ds[1].index < ds[1].total
      BY <1>4, <1>6, <2>1, <2>2, <3>2, <3>3
    <3> QED  BY <1>1, <1>2, <1>6, <1>7, <2>2, <3>4 DEF Wanted
  <2>3. CASE ~(x = op.date /\ s = w.seq)
    <3>1. files'[<<x, s>>] = files[<<x, s>>]  BY <1>8, <2>3
    <3>2. PICK i \in 1..Len(days) : /\ days[i].date = x /\ days[i].index < Start(s + 1)
                                    /\ days[i].index < days[i].total
      BY <1>7, <1>9, <3>1, OrphansIs DEF Wanted
    <3>3. ds[i].date = x /\ ds[i].index < Start(s + 1) /\ ds[i].index < ds[i].total
      BY <1>6, <2>1, <3>2
    <3> QED  BY <1>6, <1>7, <3>3 DEF Wanted
  <2> QED  BY <2>2, <2>3
<1> QED  BY <1>9, OrphansNext

LEMMA OrphansAck ==
  ASSUME IInv, NoOrphanFiles, ready = TRUE, ready' = ready, NEW h, NEW fails, Ack(h, fails)
  PROVE  NoOrphanFiles'
<1>1. days \in Seq(Row)  BY DEF IInv, PairOK
<1>2. PICK m \in 1..Len(days), u \in Row :
        /\ m = h.day /\ days' = [days EXCEPT ![m] = u] /\ days[m] \in Row
        /\ u.date = days[m].date /\ u.total = days[m].total /\ u.index = days[m].index + 1
  BY <1>1, AckTable
<1>3. PICK r : r = days[m]  OBVIOUS
<1>4. PICK ds : ds = days'  OBVIOUS
<1>5. Len(ds) = Len(days) /\ ds[m] = u /\ \A i \in 1..Len(days) : i # m => ds[i] = days[i]
  BY <1>1, <1>2, <1>4
<1>6. Table = days /\ Table' = ds  BY <1>4 DEF Table
<1>7. DOMAIN files = Dates \X (0..MaxSeq)  BY DEF IInv, HistoryOK
<1>8. PICK done : done = {f \in DOMAIN files :
                           f[1] = h.date /\ f[2] \in Exhausted(r.index + 1, r.total)}
  OBVIOUS
<1>9. /\ files' = [f \in DOMAIN files |-> IF f \in done /\ ~fails THEN << >> ELSE files[f]]
      /\ undeleted' = IF fails THEN undeleted \cup done ELSE undeleted \ done
      /\ torn' = IF Current(r, h) THEN torn ELSE torn \cup {r.date, h.date}
  BY <1>2, <1>3, <1>8 DEF Ack
<1>10. ASSUME NEW x \in Dates \ torn', NEW s \in 0..MaxSeq,
              files'[<<x, s>>] # << >>, <<x, s>> \notin undeleted'
       PROVE  Wanted(Table', x, s)
  <2>1. /\ <<x, s>> \notin done /\ <<x, s>> \notin undeleted /\ files[<<x, s>>] # << >>
        /\ x \notin torn
    BY <1>7, <1>9, <1>10
  <2>2. PICK i \in 1..Len(days) : /\ days[i].date = x /\ days[i].index < Start(s + 1)
                                  /\ days[i].index < days[i].total
    BY <1>6, <2>1, OrphansIs DEF Wanted
  <2>3. CASE i # m  BY <1>5, <1>6, <2>2, <2>3 DEF Wanted
  <2>4. CASE i = m
    <3>1. r.date = x /\ Current(r, h)  BY <1>3, <1>9, <1>10, <2>2, <2>4
    <3>2. h.date = x  BY <3>1 DEF Current
    <3>3. s \notin Exhausted(r.index + 1, r.total)  BY <1>7, <1>8, <2>1, <3>2
    <3>4. s \in Nat /\ s + 1 \in Nat  BY ListAssumption
    <3>5. r \in Row /\ r.index \in Nat /\ r.total \in Nat /\ Start(s + 1) \in Nat /\ Start(s) \in Nat
      BY <1>2, <1>3, <3>4, RowIs, StartIs
    <3>6. ~Passed(s, r)  BY <1>3, <2>2, <2>4, <3>5 DEF Passed
    <3>7. FileOK(files[<<x, s>>], log[x], s, r)
      BY <1>3, <1>6, <2>1, <2>4, <3>1 DEF IInv, DaysOK, DayOK, RowOK
    <3>8. Len(files[<<x, s>>]) = LinesIn(s, r.total)  BY <3>6, <3>7 DEF FileOK, Holds
    <3>9. files[<<x, s>>] \in Seq(Events)  BY DEF IInv, HistoryOK
    <3>10. Start(s) < r.total
      <4>1. r.total <= Start(s) => LinesIn(s, r.total) = 0  BY DEF LinesIn
      <4>2. Len(files[<<x, s>>]) # 0  BY <2>1, <3>9
      <4> QED  BY <3>5, <3>8, <4>1, <4>2
    <3>11. ~Passed(s, u)
      BY <1>2, <1>3, <2>2, <2>4, <3>3, <3>4, <3>5, <3>6, <3>10, AckSpares
    <3>12. u.index < Start(s + 1) /\ u.index < u.total
      BY <1>2, <1>3, <3>5, <3>11 DEF Passed
    <3> QED  BY <1>2, <1>3, <1>5, <1>6, <3>1, <3>12 DEF Wanted
  <2> QED  BY <2>3, <2>4
<1> QED  BY <1>10, OrphansNext

\* A power cut that a day does not notice leaves its row.
LEMMA OrphansCut ==
  ASSUME IInv, NoOrphanFiles, Cut
  PROVE  NoOrphanFiles'
<1>1. /\ ready = TRUE /\ ready' = FALSE /\ files' = files /\ undeleted' = undeleted
      /\ torn' = torn \cup {d \in Dates : \/ Disagree(meta'.days, days, d)
                                       \/ /\ d \in Tracked(meta'.days) \ Tracked(days)
                                          /\ Remains(files, d)}
  BY DEF IInv, HistoryOK, Cut, PowerCut
<1>2. PICK old : old = meta'.days  OBVIOUS
<1>3. Table = days /\ Table' = old  BY <1>1, <1>2 DEF Table
<1>4. days \in Seq(Row)  BY DEF IInv, PairOK
<1>5. ASSUME NEW x \in Dates \ torn', NEW s \in 0..MaxSeq,
             files'[<<x, s>>] # << >>, <<x, s>> \notin undeleted'
      PROVE  Wanted(Table', x, s)
  <2>1. x \notin torn /\ ~Disagree(old, days, x)  BY <1>1, <1>2, <1>5
  <2>2. PICK i \in 1..Len(days) : /\ days[i].date = x /\ days[i].index < Start(s + 1)
                                  /\ days[i].index < days[i].total
    BY <1>1, <1>3, <1>5, <2>1, OrphansIs DEF Wanted
  <2>3. days[i].index \in Nat /\ days[i].total \in Nat  BY <1>4, RowIs
  <2>4. days[i] \in EntriesOf(days, x)  BY <2>2, <2>3 DEF EntriesOf
  <2>5. days[i] \in EntriesOf(old, x)  BY <2>1, <2>4 DEF Disagree
  <2>6. PICK j \in 1..Len(old) : old[j] = days[i]  BY <2>5 DEF EntriesOf
  <2> QED  BY <1>3, <2>2, <2>6 DEF Wanted
<1> QED  BY <1>5, OrphansNext

LEMMA OrphanStep == IInv /\ NoOrphanFiles /\ [Next]_vars => NoOrphanFiles'
<1> SUFFICES ASSUME IInv, NoOrphanFiles, [Next]_vars  PROVE NoOrphanFiles'  OBVIOUS
<1>1. ASSUME files' = files /\ undeleted' = undeleted /\ torn' = torn /\ Table' = Table
      PROVE  NoOrphanFiles'
  <2> SUFFICES ASSUME NEW x \in Dates \ torn', NEW s \in 0..MaxSeq,
                      files'[<<x, s>>] # << >>, <<x, s>> \notin undeleted'
               PROVE  Wanted(Table', x, s)
    BY OrphansNext
  <2> QED  BY <1>1, OrphansIs
<1>2. ASSUME UNCHANGED listVars, ready' = ready  PROVE NoOrphanFiles'
  <2>1. Table' = Table  BY <1>2 DEF Table, listVars
  <2> QED  BY <1>1, <1>2, <2>1 DEF listVars
<1>3. ASSUME NEW d \in Dates, Store(d)  PROVE NoOrphanFiles'
  <2>1. ready = TRUE /\ ready' = ready  BY <1>3 DEF IInv, HistoryOK, Store, Free
  <2>2. ASSUME NEW n, AddNewDay(d, next, n)  PROVE NoOrphanFiles'
    BY <2>1, <2>2, OrphansNewDay
  <2>3. CASE AddSameDay(d, next)
    <3>1. Table' = Table  BY <2>1, <2>3 DEF Table, AddSameDay
    <3> QED  BY <1>1, <2>3, <3>1 DEF AddSameDay
  <2> QED  BY <1>3, <2>2, <2>3 DEF Store
<1>4. CASE Storage
  <2>1. op.kind # "idle" /\ ready' = ready
    BY <1>4 DEF Storage, AddAppend, AddFails, Save, SaveFails
  <2>2. ready = TRUE  BY <2>1 DEF IInv, Down, HistoryOK, Idle
  <2>3. CASE AddAppend  BY <2>1, <2>2, <2>3, OrphansAppend
  <2>4. CASE AddFails \/ Save \/ SaveFails
    <3>1. /\ days' = days /\ files' = files /\ undeleted' = undeleted /\ torn' = torn
      BY <2>4 DEF AddFails, Save, SaveFails
    <3>2. Table' = Table  BY <2>1, <2>2, <3>1 DEF Table
    <3> QED  BY <1>1, <3>1, <3>2
  <2> QED  BY <1>4, <2>3, <2>4 DEF Storage
<1>5. CASE Discard
  <2>1. ready = TRUE /\ ready' = ready /\ \E fails : Ack(Peek, fails)
    BY <1>5 DEF IInv, HistoryOK, Discard, MaySend, Free
  <2> QED  BY <2>1, OrphansAck
<1>6. ASSUME NEW ok \in BOOLEAN, Result(ok)  PROVE NoOrphanFiles'
  <2>1. ready = TRUE /\ ready' = ready  BY <1>6 DEF IInv, HistoryOK, Result, Free
  <2>2. (\E fails : Ack(handle, fails)) \/ UNCHANGED listVars  BY <1>6 DEF Result
  <2> QED  BY <1>2, <2>1, <2>2, OrphansAck
<1>7. CASE TrySend \/ OtherEvent \/ Started \/ StartBusy \/ CloudAccepts \/ Tick
  BY <1>2, <1>7 DEF TrySend, OtherEvent, Started, StartBusy, CloudAccepts, Tick
<1>8. CASE Cut  BY <1>8, OrphansCut
<1>9. CASE SdReady
  <2>1. /\ ready = FALSE /\ ready' = TRUE /\ days' = meta.days /\ files' = files
        /\ undeleted' = undeleted /\ torn' = torn
    BY <1>9 DEF IInv, HistoryOK, SdReady, Load
  <2>2. Table' = Table  BY <2>1 DEF Table
  <2> QED  BY <1>1, <2>1, <2>2
<1>10. CASE UNCHANGED vars  BY <1>2, <1>10 DEF vars
<1> QED  BY <1>3, <1>4, <1>5, <1>6, <1>7, <1>8, <1>9, <1>10 DEF Next

-----------------------------------------------------------------------------
(* The theorems.                                                            *)

\* The inductive invariant: which lines each file of a day holds, by the counters of its row,
\* and that the write position counts the lines of the newest day.
THEOREM StoreInStep == Spec => []IInv
<1>1. Init => IInv  BY InitInv
<1>2. IInv /\ [Next]_vars => IInv'  BY NextInv
<1> QED  BY <1>1, <1>2, PTL DEF Spec

\* Every variable keeps its type; the handle of a record in flight is of a day of the table.
THEOREM StoreTypes == Spec => []TypeOK
<1>1. Init => IInv /\ NetTypes /\ Known
  BY InitInv, InitNet DEF Init, ListInit, Known
<1>2. (IInv /\ NetTypes /\ Known) /\ [Next]_vars => (IInv /\ NetTypes /\ Known)'
  BY NextInv, NextNet, NextKnown
<1>3. IInv /\ NetTypes /\ Known => TypeOK  BY IsTyped
<1> QED  BY <1>1, <1>2, <1>3, PTL DEF Spec

\* Of a day that met no accident the counters count exactly the lines that were stored, and
\* list_mgr_peek_next finds each that is left, in its file, after any number of roll-overs,
\* deletions, expired days and power cuts.
THEOREM StoreQueueExact == Spec => []QueueExact
<1>1. IInv => QueueExact  BY IsExact
<1> QED  BY <1>1, StoreInStep, PTL

\* A transaction is counted as consumed only if the cloud confirmed it or it can never be sent.
THEOREM StoreConsumedWasSent == Spec => []ConsumedWasSent
<1>1. IInv => ConsumedWasSent  BY IsConfirmed
<1> QED  BY <1>1, StoreInStep, PTL

\* No file outlives the last of its lines that is left, or the day it belongs to, but those
\* whose deletion failed and, of an expired day, those that come after one of them.
THEOREM StoreNoOrphanFiles == Spec => []NoOrphanFiles
<1>1. Init => IInv /\ NoOrphanFiles
  BY InitInv DEF Init, ListInit, NoOrphanFiles
<1>2. (IInv /\ NoOrphanFiles) /\ [Next]_vars => (IInv /\ NoOrphanFiles)'
  BY NextInv, OrphanStep
<1> QED  BY <1>1, <1>2, PTL DEF Spec

\* As long as no day met an accident, what a reader of the card would be handed changes as a
\* first-in first-out queue does: a line is added at the end, the first one is taken, or the
\* lines of the oldest day are given up together.
THEOREM StoreIsQueue == Spec => FifoUntilTorn
<1>1. Init => IInv /\ OrderInv  BY InitInv, InitOrder
<1>2. (IInv /\ OrderInv) /\ [Next]_vars => (IInv /\ OrderInv)'  BY NextInv, OrderStep
<1>3. IInv /\ OrderInv /\ IInv' /\ [Next]_vars => [torn' = {} => Promise!Next]_Queue
  BY FifoStep, MovesIs
<1> QED  BY <1>1, <1>2, <1>3, PTL DEF Spec, FifoUntilTorn

=============================================================================
