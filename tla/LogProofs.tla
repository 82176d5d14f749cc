------------------------------ MODULE LogProofs ------------------------------
(***************************************************************************)
(* Proofs about LogStream for every set of consoles, any window, any number    *)
(* of lines and faults.                                                      *)
(***************************************************************************)
EXTENDS LogStream, TLAPS, SequenceTheorems

USE LogAssumption

Lines == Seq(1..MaxAppends)
ViewerRecords == [at : Gap \cup {"new", "live", "eof", "gone"}, seen : Lines,
                  row : {"open", "terminal", "deleted"}, warm : BOOLEAN, left : BOOLEAN]
BufferRecords == [at : {"absent", "live", "done"}, lines : Text, armed : BOOLEAN]
WriteRecords == [at : {"idle", "mkdir", "open", "write"}, text : Text]
Types ==
  /\ job \in {"queued", "running", "over"} /\ row \in {"open", "terminal", "deleted"}
  /\ produced \in 0..MaxAppends /\ faults \in 0..MaxFaults
  /\ buf \in BufferRecords /\ writes \in [Flushes -> WriteRecords] /\ file \in Text
  /\ viewer \in [Viewers -> ViewerRecords]

(***************************************************************************)
(* The inductive invariant.  How far the job, the buffer and the file are.   *)
(***************************************************************************)
PhaseInv ==
  /\ job = "queued" => /\ produced = 0 /\ file = <<>> /\ buf.lines = <<>> /\ ~buf.armed
                       /\ \A w \in Flushes : writes[w].at = "idle"
                       /\ \A v \in Viewers : viewer[v].seen = <<>>
  /\ job = "running" => buf.at = "live"
  /\ job # "over" => writes["final"].at = "idle"
  /\ buf.at = "done" => job = "over"
  /\ buf.at = "absent" => buf.lines = <<>> /\ ~buf.armed

Rising(s) == \A i \in 1..(Len(s) - 1) : s[i] < s[i + 1]

\* What a file or a write may hold: a window of the log, or the beginning of an older one
\* before the rest of a newer one.  Only full windows have lost their first lines.
Stored(s, last) ==
  /\ Rising(s)
  /\ \A i \in 1..Len(s) : i <= s[i] /\ s[i] <= last
  /\ Len(s) < MaxLines => \A i \in 1..Len(s) : s[i] = i

\* The buffer ends with the line produced last, and drops none before it is full.
BufferInv ==
  /\ \A i \in 1..Len(buf.lines) : buf.lines[i] = produced - Len(buf.lines) + i
  /\ Stored(buf.lines, produced)
  /\ job # "over" /\ Len(buf.lines) < MaxLines => Len(buf.lines) = produced

FileInv ==
  /\ Stored(file, produced)
  /\ \A w \in Flushes : Stored(writes[w].text, produced)

\* A write that is on its way when the timer is not armed carries the buffer, and so does
\* the one of finish; the file is never longer than the buffer.
Carries(w) == writes[w].at \in {"open", "write"} => writes[w].text = buf.lines
DurableInv ==
  faults = 0 /\ (job = "running" \/ buf.at = "done") =>
    /\ Len(file) <= Len(buf.lines)
    /\ \A w \in Flushes : writes[w].at \in {"open", "write"} => Len(writes[w].text) <= Len(buf.lines)
    /\ Carries("final")
    /\ ~buf.armed => /\ Carries("debounced")
                     /\ file = buf.lines \/ \E w \in Flushes : writes[w].at # "idle"

\* What a console knows: one that attached to the live buffer is told of its end by Finish.
Knows(r) ==
  /\ Rising(r.seen)
  /\ \A i \in 1..Len(r.seen) : r.seen[i] <= produced
  /\ r.warm => r.at = "live" \/ (r.at = "eof" /\ job = "over")
  /\ r.warm => \A i \in 1..Len(r.seen) : r.seen[i] = produced - Len(r.seen) + i
  /\ r.row # "open" => row # "open"
  /\ r.at = "eof" => job = "over" \/ row # "open"
ConsoleInv == \A v \in Viewers : Knows(viewer[v])

StreamInv == Types /\ PhaseInv /\ BufferInv /\ FileInv /\ DurableInv /\ ConsoleInv

(***************************************************************************)
(* Windows and files as sequences of lines.                                 *)
(***************************************************************************)
LEMMA TextIsLines == Text = {s \in Lines : Len(s) <= MaxLines}
<1>1. ASSUME NEW s \in Text PROVE s \in Lines /\ Len(s) <= MaxLines
  <2>1. PICK n \in 0..MaxLines : s \in [1..n -> 1..MaxAppends]
    BY DEF Text
  <2>2. QED
    BY <2>1 DEF Lines
<1>2. ASSUME NEW s \in Lines, Len(s) <= MaxLines PROVE s \in Text
  <2>1. Len(s) \in 0..MaxLines /\ s \in [1..Len(s) -> 1..MaxAppends]
    BY <1>2 DEF Lines
  <2>2. QED
    BY <2>1 DEF Text
<1>3. QED
  BY <1>1, <1>2

LEMMA AppendLines ==
  ASSUME NEW s \in Lines, NEW n \in 1..MaxAppends
  PROVE  /\ Append(s, n) \in Lines /\ Len(Append(s, n)) = Len(s) + 1
         /\ Append(s, n)[Len(s) + 1] = n
         /\ \A i \in 1..Len(s) : Append(s, n)[i] = s[i]
BY DEF Lines

\* One more line: the window grows until it is full, then it moves on by one.
LEMMA WindowMoves ==
  ASSUME NEW s \in Text, NEW n \in 1..MaxAppends
  PROVE  /\ Window(s, n) \in Text
         /\ Len(s) < MaxLines => /\ Len(Window(s, n)) = Len(s) + 1
                                 /\ \A i \in 1..Len(s) : Window(s, n)[i] = s[i]
                                 /\ Window(s, n)[Len(s) + 1] = n
         /\ Len(s) = MaxLines => /\ Len(Window(s, n)) = MaxLines
                                 /\ \A i \in 1..(MaxLines - 1) : Window(s, n)[i] = s[i + 1]
                                 /\ Window(s, n)[MaxLines] = n
<1> DEFINE all == Append(s, n)
<1>1. s \in Lines /\ Len(s) \in Nat /\ Len(s) <= MaxLines
  BY TextIsLines DEF Lines
<1>2. all \in Lines /\ Len(all) = Len(s) + 1 /\ all[Len(s) + 1] = n /\ \A i \in 1..Len(s) : all[i] = s[i]
  BY <1>1, AppendLines
<1>3. Window(s, n) = IF Len(all) > MaxLines THEN Tail(all) ELSE all
  BY DEF Window
<1> HIDE DEF all
<1>4. CASE Len(s) < MaxLines
  BY <1>1, <1>2, <1>3, <1>4, TextIsLines
<1>5. CASE Len(s) = MaxLines
  <2>1. Window(s, n) = Tail(all) /\ all # <<>>
    BY <1>2, <1>3, <1>5
  <2>2. Tail(all) \in Lines /\ Len(Tail(all)) = Len(all) - 1 /\ \A i \in 1..Len(Tail(all)) : Tail(all)[i] = all[i + 1]
    BY <1>2, <2>1 DEF Lines
  <2>3. Len(Window(s, n)) = MaxLines /\ Window(s, n) \in Text
    BY <1>2, <1>5, <2>1, <2>2, TextIsLines
  <2>4. \A i \in 1..MaxLines : Window(s, n)[i] = all[i + 1]
    BY <2>1, <2>2, <2>3
  <2>5. QED
    BY <1>2, <1>5, <2>3, <2>4
<1>6. QED
  BY <1>1, <1>4, <1>5

\* What a write leaves of what the file held.
Over(t, f) == t \o SubSeq(f, Len(t) + 1, Len(f))

LEMMA OverText ==
  ASSUME NEW t \in Text, NEW f \in Text
  PROVE  /\ Over(t, f) \in Text
         /\ Len(Over(t, f)) = IF Len(f) <= Len(t) THEN Len(t) ELSE Len(f)
         /\ \A i \in 1..Len(t) : Over(t, f)[i] = t[i]
         /\ \A i \in (Len(t) + 1)..Len(f) : Over(t, f)[i] = f[i]
         /\ Len(f) <= Len(t) => Over(t, f) = t
<1> DEFINE r == SubSeq(f, Len(t) + 1, Len(f))
<1>1. t \in Lines /\ f \in Lines /\ Len(t) \in Nat /\ Len(f) \in Nat /\ Len(t) <= MaxLines /\ Len(f) <= MaxLines
  BY TextIsLines DEF Lines
<1>2. CASE Len(f) <= Len(t)
  <2>1. r = <<>>
    BY <1>1, <1>2 DEF Lines
  <2>2. Over(t, f) = t
    <3>1. t \o <<>> = t
      BY <1>1, ConcatEmptySeq DEF Lines
    <3>2. QED
      BY <2>1, <3>1 DEF Over
  <2>3. QED
    BY <1>1, <1>2, <2>2
<1>3. CASE Len(f) > Len(t)
  <2>1. /\ r \in Lines /\ Len(r) = Len(f) - Len(t)
        /\ \A i \in 1..Len(r) : r[i] = f[Len(t) + i]
    BY <1>1, <1>3 DEF Lines
  <2>2. /\ t \o r \in Lines /\ Len(t \o r) = Len(t) + Len(r)
        /\ \A i \in 1..(Len(t) + Len(r)) : (t \o r)[i] = IF i <= Len(t) THEN t[i] ELSE r[i - Len(t)]
    BY <1>1, <2>1 DEF Lines
  <2> HIDE DEF r
  <2>3. Over(t, f) = t \o r
    BY DEF Over, r
  <2>4. \A i \in (Len(t) + 1)..Len(f) : (t \o r)[i] = f[i]
    <3> SUFFICES ASSUME NEW i \in (Len(t) + 1)..Len(f) PROVE (t \o r)[i] = f[i]
      OBVIOUS
    <3>1. i - Len(t) \in 1..Len(r) /\ i \in 1..(Len(t) + Len(r)) /\ Len(t) + (i - Len(t)) = i
      BY <1>1, <2>1
    <3>2. (t \o r)[i] = IF i <= Len(t) THEN t[i] ELSE r[i - Len(t)]
      BY <2>2, <3>1
    <3>3. ~(i <= Len(t))
      BY <1>1
    <3>4. r[i - Len(t)] = f[Len(t) + (i - Len(t))]
      BY <2>1, <3>1
    <3>5. QED
      BY <3>1, <3>2, <3>3, <3>4
  <2>5. QED
    BY <1>1, <1>3, <2>1, <2>2, <2>3, <2>4, TextIsLines
<1>4. QED
  BY <1>1, <1>2, <1>3

LEMMA StoredLater ==
  ASSUME NEW s, NEW p \in Nat, NEW q \in Nat, p <= q, \A i \in 1..Len(s) : s[i] \in Nat, Stored(s, p)
  PROVE  Stored(s, q)
BY DEF Stored

LEMMA StoredEmpty == ASSUME NEW p \in Nat PROVE Stored(<<>>, p)
BY DEF Stored, Rising

\* A file in which an older write met a newer one is still in order.
LEMMA StoredOver ==
  ASSUME NEW t \in Text, NEW f \in Text, NEW p \in Nat, Stored(t, p), Stored(f, p)
  PROVE  Stored(Over(t, f), p)
<1> DEFINE o == Over(t, f)
<1>1. t \in Lines /\ f \in Lines /\ Len(t) \in Nat /\ Len(f) \in Nat /\ Len(t) <= MaxLines /\ Len(f) <= MaxLines
  BY TextIsLines DEF Lines
<1>2. (\A i \in 1..Len(t) : t[i] \in Nat) /\ (\A i \in 1..Len(f) : f[i] \in Nat)
  BY <1>1 DEF Lines
<1>3. CASE Len(f) <= Len(t)
  BY <1>3, OverText
<1>4. CASE Len(f) > Len(t)
  <2>1. /\ Len(o) = Len(f)
        /\ \A i \in 1..Len(t) : o[i] = t[i]
        /\ \A i \in (Len(t) + 1)..Len(f) : o[i] = f[i]
    BY <1>1, <1>4, OverText
  <2> HIDE DEF o
  <2>2. \A i \in 1..Len(t) : t[i] = i
    BY <1>1, <1>4 DEF Stored
  <2>3. Rising(o)
    <3> SUFFICES ASSUME NEW i \in 1..(Len(f) - 1) PROVE o[i] < o[i + 1]
      BY <2>1 DEF Rising
    <3>1. CASE i + 1 <= Len(t)
      BY <1>1, <2>1, <2>2, <3>1
    <3>2. CASE i > Len(t)
      <4>1. o[i] = f[i] /\ o[i + 1] = f[i + 1]
        BY <1>1, <2>1, <3>2
      <4>2. QED
        BY <4>1 DEF Stored, Rising
    <3>3. CASE i = Len(t)
      <4>1. o[i] = i /\ o[i + 1] = f[i + 1] /\ i + 1 \in 1..Len(f)
        BY <1>1, <2>1, <2>2, <3>3
      <4>2. i + 1 <= f[i + 1]
        BY <4>1 DEF Stored
      <4>3. QED
        BY <1>2, <4>1, <4>2
    <3>4. QED
      BY <1>1, <3>1, <3>2, <3>3
  <2>4. \A i \in 1..Len(f) : i \in 1..Len(t) \/ i \in (Len(t) + 1)..Len(f)
    BY <1>1
  <2>5. \A i \in 1..Len(t) : i <= o[i] /\ o[i] <= p
    BY <2>1 DEF Stored
  <2>6. \A i \in (Len(t) + 1)..Len(f) : i \in 1..Len(f) /\ i <= o[i] /\ o[i] <= p
    BY <1>1, <2>1 DEF Stored
  <2>7. Len(f) < MaxLines => \A i \in 1..Len(f) : o[i] = i
    BY <1>1, <2>1, <2>2, <2>4 DEF Stored
  <2>8. \A i \in 1..Len(o) : i <= o[i] /\ o[i] <= p
    BY <2>1, <2>4, <2>5, <2>6
  <2>9. Len(o) < MaxLines => \A i \in 1..Len(o) : o[i] = i
    BY <2>1, <2>7
  <2>10. QED
    BY <2>3, <2>8, <2>9 DEF Stored, o
<1>5. QED
  BY <1>1, <1>3, <1>4

\* The buffer after one more line.
LEMMA StoredWindow ==
  ASSUME NEW s \in Text, NEW p \in Nat, p + 1 <= MaxAppends, Stored(s, p),
         \A i \in 1..Len(s) : s[i] = p - Len(s) + i,
         Len(s) < MaxLines => Len(s) = p
  PROVE  /\ Window(s, p + 1) \in Text /\ Stored(Window(s, p + 1), p + 1)
         /\ \A i \in 1..Len(Window(s, p + 1)) : Window(s, p + 1)[i] = p + 1 - Len(Window(s, p + 1)) + i
         /\ Len(s) <= Len(Window(s, p + 1))
         /\ Len(Window(s, p + 1)) < MaxLines => Len(Window(s, p + 1)) = p + 1
<1> DEFINE w == Window(s, p + 1)
<1>1. s \in Lines /\ Len(s) \in Nat /\ Len(s) <= MaxLines /\ p + 1 \in 1..MaxAppends
  BY TextIsLines DEF Lines
<1>2. /\ w \in Text
      /\ Len(s) < MaxLines => /\ Len(w) = Len(s) + 1
                              /\ \A i \in 1..Len(s) : w[i] = s[i]
                              /\ w[Len(s) + 1] = p + 1
      /\ Len(s) = MaxLines => /\ Len(w) = MaxLines
                              /\ \A i \in 1..(MaxLines - 1) : w[i] = s[i + 1]
                              /\ w[MaxLines] = p + 1
  BY <1>1, WindowMoves
<1> HIDE DEF w
<1>3. Len(w) \in Nat /\ Len(w) >= Len(s) /\ Len(w) <= MaxLines /\ (Len(w) < MaxLines => Len(w) = p + 1)
  BY <1>1, <1>2
<1>4. \A i \in 1..Len(w) : w[i] = p + 1 - Len(w) + i
  <2> SUFFICES ASSUME NEW i \in 1..Len(w) PROVE w[i] = p + 1 - Len(w) + i
    OBVIOUS
  <2>1. CASE Len(s) < MaxLines
    <3>1. i \in 1..Len(s) \/ i = Len(s) + 1
      BY <1>1, <1>2, <2>1
    <3>2. QED
      BY <1>1, <1>2, <2>1, <3>1
  <2>2. CASE Len(s) = MaxLines
    <3>1. (i \in 1..(MaxLines - 1) /\ i + 1 \in 1..Len(s)) \/ i = MaxLines
      BY <1>1, <1>2, <2>2
    <3>2. QED
      BY <1>1, <1>2, <2>2, <3>1
  <2>3. QED
    BY <1>1, <2>1, <2>2
<1>5. Len(w) <= p + 1
  <2>1. CASE Len(s) < MaxLines
    BY <1>1, <1>2, <2>1
  <2>2. CASE Len(s) = MaxLines
    <3>1. 1 \in 1..Len(s) /\ 1 <= s[1] /\ s[1] = p - Len(s) + 1
      BY <1>1, <2>2 DEF Stored
    <3>2. QED
      BY <1>1, <1>2, <2>2, <3>1
  <2>3. QED
    BY <1>1, <2>1, <2>2
<1>6. Stored(w, p + 1)
  <2>1. \A i \in 1..Len(w) : i <= w[i] /\ w[i] <= p + 1 /\ (Len(w) < MaxLines => w[i] = i)
    BY <1>3, <1>4, <1>5
  <2>2. Rising(w)
    <3> SUFFICES ASSUME NEW i \in 1..(Len(w) - 1) PROVE w[i] < w[i + 1]
      BY DEF Rising
    <3>1. i \in 1..Len(w) /\ i + 1 \in 1..Len(w)
      BY <1>3
    <3>2. w[i] = p + 1 - Len(w) + i /\ w[i + 1] = p + 1 - Len(w) + (i + 1)
      BY <1>4, <3>1
    <3>3. QED
      BY <1>3, <3>2
  <2>3. QED
    BY <2>1, <2>2 DEF Stored
<1>7. QED
  BY <1>2, <1>3, <1>4, <1>6 DEF w

(***************************************************************************)
(* Steps.                                                                   *)
(***************************************************************************)
LEMMA TextMeans ==
  <<>> \in Text /\ <<>> \in Lines /\ \A s \in Text : s \in Lines /\ Len(s) \in Nat /\ Len(s) <= MaxLines
<1>1. <<>> \in Lines /\ Len(<<>>) = 0
  BY DEF Lines
<1>2. \A s \in Text : s \in Lines /\ Len(s) <= MaxLines
  BY TextIsLines
<1>3. \A s \in Lines : Len(s) \in Nat
  BY DEF Lines
<1>4. QED
  BY <1>1, <1>2, <1>3, TextIsLines

LEMMA TypesMean == Types => TypeOK
<1>1. \A r \in ViewerRecords : /\ r.at \in Gap \cup {"new", "live", "eof", "gone"}
                               /\ r.seen \in Seq(1..MaxAppends) /\ r.row \in {"open", "terminal", "deleted"}
                               /\ r.warm \in BOOLEAN /\ r.left \in BOOLEAN
  BY DEF ViewerRecords, Lines
<1>2. viewer \in [Viewers -> ViewerRecords] => \A v \in Viewers : viewer[v] \in ViewerRecords
  OBVIOUS
<1>3. QED
  BY <1>1, <1>2 DEF Types, TypeOK, BufferRecords, WriteRecords

\* What a line, once shown, leaves of a console's knowledge.
LEMMA Shift ==
  ASSUME NEW p \in Nat, NEW n \in Nat, NEW i \in Nat
  PROVE  p - n + i = (p + 1) - (n + 1) + i
OBVIOUS

LEMMA KnowsMore ==
  ASSUME Types, NEW v \in Viewers, Knows(viewer[v]), produced + 1 \in 1..MaxAppends,
         viewer[v].at = "live", produced' = produced + 1, UNCHANGED row,
         viewer'[v] = [viewer[v] EXCEPT !.seen = Append(@, produced + 1)]
  PROVE  viewer'[v] \in ViewerRecords /\ Knows(viewer[v])'
<1> DEFINE s == viewer[v].seen
           t == Append(s, produced + 1)
<1>1. viewer[v] \in ViewerRecords
  BY DEF Types
<1>2. s \in Lines /\ Len(s) \in Nat /\ produced \in Nat
  BY <1>1, TextMeans DEF Types, ViewerRecords, Lines
<1>3. t \in Lines /\ Len(t) = Len(s) + 1 /\ t[Len(s) + 1] = produced + 1 /\ \A i \in 1..Len(s) : t[i] = s[i]
  BY <1>2, AppendLines
<1> HIDE DEF t
<1>4. /\ viewer'[v] \in ViewerRecords /\ viewer'[v].seen = t /\ viewer'[v].at = "live"
      /\ viewer'[v].row = viewer[v].row /\ viewer'[v].warm = viewer[v].warm
  BY <1>1, <1>3 DEF ViewerRecords, t
<1>5. \A i \in 1..Len(s) : s[i] \in Nat /\ s[i] <= produced
  BY <1>2 DEF Knows, Lines
<1> HIDE DEF s
<1>6. \A i \in 1..Len(t) : i \in 1..Len(s) \/ i = Len(s) + 1
  BY <1>2, <1>3
<1>7. \A i \in 1..Len(t) : t[i] <= produced + 1
  <2>1. ASSUME NEW i \in 1..Len(s) PROVE t[i] <= produced + 1
    <3>1. t[i] = s[i] /\ s[i] \in Nat /\ s[i] <= produced
      BY <1>3, <1>5
    <3>2. QED
      BY <1>2, <3>1
  <2>2. t[Len(s) + 1] <= produced + 1
    BY <1>2, <1>3
  <2>3. QED
    BY <1>6, <2>1, <2>2
<1>8. Rising(t)
  <2> SUFFICES ASSUME NEW i \in 1..(Len(t) - 1) PROVE t[i] < t[i + 1]
    BY DEF Rising
  <2>1. CASE i < Len(s)
    <3>1. i \in 1..(Len(s) - 1) /\ i \in 1..Len(s) /\ i + 1 \in 1..Len(s)
      BY <1>2, <1>3, <2>1
    <3>2. QED
      BY <1>3, <3>1 DEF Knows, Rising, s
  <2>2. CASE i = Len(s)
    <3>1. t[i] = s[i] /\ t[i + 1] = produced + 1 /\ s[i] \in Nat /\ s[i] <= produced
      BY <1>2, <1>3, <1>5, <2>2
    <3>2. QED
      BY <1>2, <3>1
  <2>3. QED
    BY <1>2, <1>3, <2>1, <2>2
<1>9. viewer[v].warm => \A i \in 1..Len(t) : t[i] = (produced + 1) - Len(t) + i
  <2> SUFFICES ASSUME viewer[v].warm, NEW i \in 1..Len(t) PROVE t[i] = (produced + 1) - Len(t) + i
    OBVIOUS
  <2>1. CASE i \in 1..Len(s)
    <3>1. s[i] = produced - Len(s) + i
      BY <2>1 DEF Knows, s
    <3>2. t[i] = produced - Len(s) + i
      BY <1>3, <2>1, <3>1
    <3>3. i \in Nat /\ produced - Len(s) + i = (produced + 1) - (Len(s) + 1) + i
      <4>1. i \in Nat
        OBVIOUS
      <4>2. QED
        BY <1>2, <4>1, Shift
    <3>4. QED
      BY <1>3, <3>2, <3>3
  <2>2. CASE i = Len(s) + 1
    BY <1>2, <1>3, <2>2
  <2>3. QED
    BY <1>6, <2>1, <2>2
<1>10. QED
  <2>1. viewer'[v].warm => \A i \in 1..Len(viewer'[v].seen) :
                             viewer'[v].seen[i] = produced' - Len(viewer'[v].seen) + i
    <3>1. viewer'[v].warm = viewer[v].warm /\ viewer'[v].seen = t /\ produced' = produced + 1
      BY <1>4
    <3>2. ASSUME viewer[v].warm, NEW i \in 1..Len(t)
          PROVE  t[i] = produced' - Len(t) + i
      <4>1. t[i] = (produced + 1) - Len(t) + i
        BY <1>9, <3>2
      <4>2. QED
        BY <3>1, <4>1, Zenon
    <3>3. viewer[v].warm => \A i \in 1..Len(t) : t[i] = produced' - Len(t) + i
      BY <3>2
    <3>4. QED
      BY <3>1, <3>3
  <2>2. Rising(viewer'[v].seen) /\ \A i \in 1..Len(viewer'[v].seen) : viewer'[v].seen[i] <= produced'
    BY <1>4, <1>7, <1>8
  <2>3. viewer'[v].row # "open" => row' # "open"
    BY <1>4 DEF Knows
  <2>4. QED
    BY <1>4, <2>1, <2>2, <2>3 DEF Knows

\* A console keeps what it knows when nothing is produced.
LEMMA KnowsStill ==
  ASSUME ConsoleInv, UNCHANGED <<produced, viewer>>, job = "over" => job' = "over", row # "open" => row' # "open"
  PROVE  ConsoleInv'
BY DEF ConsoleInv, Knows

LEMMA AppendStep ==
  ASSUME StreamInv, AppendLine
  PROVE  StreamInv'
<1> DEFINE W == Window(buf.lines, produced + 1)
<1>1. /\ job # "over" /\ produced \in 0..MaxAppends /\ produced + 1 \in 1..MaxAppends
      /\ job' = "running" /\ produced' = produced + 1
      /\ UNCHANGED <<row, writes, file, faults>>
  BY DEF Types, StreamInv, AppendLine
<1>2. buf.at # "done" /\ buf.lines \in Text /\ buf \in BufferRecords
  BY <1>1, TextMeans DEF Types, StreamInv, PhaseInv, BufferRecords
<1>3. buf' = [at |-> "live", lines |-> W, armed |-> TRUE]
  BY <1>1, <1>2 DEF AppendLine, BufferRecords
<1>4. /\ W \in Text /\ Stored(W, produced + 1) /\ Len(buf.lines) <= Len(W)
      /\ \A i \in 1..Len(W) : W[i] = produced + 1 - Len(W) + i
      /\ Len(W) < MaxLines => Len(W) = produced + 1
  <2>1. Len(buf.lines) < MaxLines => Len(buf.lines) = produced
    BY <1>1 DEF StreamInv, BufferInv
  <2>2. produced \in Nat /\ produced + 1 <= MaxAppends
    BY <1>1
  <2>3. Stored(buf.lines, produced) /\ \A i \in 1..Len(buf.lines) : buf.lines[i] = produced - Len(buf.lines) + i
    BY DEF StreamInv, BufferInv
  <2>4. QED
    BY <1>2, <2>1, <2>2, <2>3, StoredWindow
<1> HIDE DEF W
<1>5. buf'.at = "live" /\ buf'.lines = W /\ buf'.armed = TRUE /\ buf' \in BufferRecords
  BY <1>3, <1>4 DEF BufferRecords
<1>6. ASSUME NEW v \in Viewers PROVE viewer'[v] \in ViewerRecords /\ Knows(viewer[v])'
  <2>1. viewer[v] \in ViewerRecords /\ Knows(viewer[v])
    BY DEF Types, StreamInv, ConsoleInv
  <2>2. viewer' = Shown(produced + 1)
    BY <1>1 DEF AppendLine
  <2>3. CASE viewer[v].at = "live"
    <3>1. viewer'[v] = [viewer[v] EXCEPT !.seen = Append(@, produced + 1)]
      BY <2>2, <2>3 DEF Shown
    <3>2. QED
      BY <1>1, <2>1, <2>3, <3>1, KnowsMore DEF StreamInv
  <2>4. CASE viewer[v].at # "live"
    <3>1. viewer'[v] = viewer[v]
      BY <2>2, <2>4 DEF Shown
    <3>2. ~viewer[v].warm
      BY <1>1, <2>1, <2>4 DEF Knows
    <3>3. \A i \in 1..Len(viewer[v].seen) : viewer[v].seen[i] \in Nat
      BY <2>1 DEF ViewerRecords, Lines
    <3>4. Knows(viewer[v])'
      <4>1. \A i \in 1..Len(viewer[v].seen) : viewer[v].seen[i] <= produced'
        BY <1>1, <2>1, <3>3 DEF Knows
      <4>2. QED
        BY <1>1, <2>1, <3>1, <3>2, <4>1 DEF Knows
    <3>5. QED
      BY <2>1, <3>1, <3>4
  <2>5. QED
    BY <2>3, <2>4
<1>7. viewer' \in [Viewers -> ViewerRecords]
  BY <1>1, <1>6 DEF AppendLine, Shown
<1>8. Types'
  <2>1. job' \in {"queued", "running", "over"} /\ produced' \in 0..MaxAppends
    BY <1>1
  <2>2. row' \in {"open", "terminal", "deleted"} /\ faults' \in 0..MaxFaults /\ writes' \in [Flushes -> WriteRecords] /\ file' \in Text
    BY <1>1, TextMeans DEF Types, StreamInv
  <2>3. QED
    BY <1>5, <1>7, <2>1, <2>2 DEF Types
<1>9. PhaseInv'
  BY <1>1, <1>5 DEF StreamInv, PhaseInv
<1>10. BufferInv'
  BY <1>1, <1>4, <1>5 DEF BufferInv
<1>11. FileInv'
  <2>1. ASSUME NEW s \in Text, Stored(s, produced) PROVE Stored(s, produced + 1)
    <3>1. \A i \in 1..Len(s) : s[i] \in Nat
      BY TextMeans DEF Lines
    <3>2. QED
      BY <1>1, <2>1, <3>1, StoredLater
  <2>2. file \in Text /\ \A w \in Flushes : writes[w].text \in Text
    BY DEF Types, StreamInv, WriteRecords
  <2>3. QED
    BY <1>1, <2>1, <2>2 DEF StreamInv, FileInv
<1>12. DurableInv'
  <2> SUFFICES ASSUME faults = 0
               PROVE  /\ Len(file) <= Len(W)
                      /\ \A w \in Flushes : writes[w].at \in {"open", "write"} => Len(writes[w].text) <= Len(W)
                      /\ writes["final"].at = "idle"
    BY <1>1, <1>5 DEF DurableInv, Carries
  <2>1. writes["final"].at = "idle"
    BY <1>1 DEF StreamInv, PhaseInv
  <2>2. CASE job = "queued"
    <3>1. file = <<>> /\ \A w \in Flushes : writes[w].at = "idle"
      BY <2>2 DEF StreamInv, PhaseInv
    <3>2. Len(W) \in Nat
      BY <1>4, TextMeans DEF Types
    <3>3. QED
      BY <2>1, <3>1, <3>2
  <2>3. CASE job = "running"
    <3>1. /\ Len(file) \in Nat /\ Len(W) \in Nat /\ Len(buf.lines) \in Nat
          /\ \A w \in Flushes : Len(writes[w].text) \in Nat
      BY <1>2, <1>4, TextMeans DEF Types, StreamInv, WriteRecords
    <3>2. QED
      BY <1>4, <2>1, <2>3, <3>1 DEF StreamInv, DurableInv
  <2>4. QED
    BY <1>1, <2>2, <2>3, TextMeans DEF Types, StreamInv
<1>13. ConsoleInv'
  BY <1>6 DEF ConsoleInv
<1> QED
  BY <1>8, <1>9, <1>10, <1>11, <1>12, <1>13 DEF StreamInv

LEMMA JobSteps ==
  ASSUME StreamInv, Settle \/ Finish \/ DeleteRow
  PROVE  StreamInv'
<1>1. CASE Settle \/ DeleteRow
  <2>1. UNCHANGED <<job, produced, buf, writes, file, viewer, faults>> /\ row' \in {"terminal", "deleted"}
    BY <1>1 DEF Settle, DeleteRow
  <2>2. Types'
    <3>1. row' \in {"open", "terminal", "deleted"}
      BY <2>1
    <3>2. QED
      BY <2>1, <3>1 DEF StreamInv, Types
  <2>3. ConsoleInv'
    BY <2>1, KnowsStill DEF StreamInv
  <2>4. QED
    BY <2>1, <2>2, <2>3 DEF StreamInv, PhaseInv, BufferInv, FileInv, DurableInv, Carries
<1>2. CASE Finish
  <2>1. /\ job = "running" /\ job' = "over" /\ buf' = [buf EXCEPT !.at = "done"]
        /\ viewer' = Ended /\ writes' = [writes EXCEPT !["final"].at = "mkdir"]
        /\ UNCHANGED <<row, produced, file>>
    BY <1>2 DEF Finish
  <2>2. faults' \in 0..MaxFaults /\ (faults' = 0 => faults = 0)
    BY <1>2, TextMeans DEF Types, Finish, StreamInv
  <2>3. /\ buf'.at = "done" /\ buf'.lines = buf.lines /\ buf'.armed = buf.armed /\ buf' \in BufferRecords
        /\ writes'["final"].at = "mkdir" /\ writes'["debounced"] = writes["debounced"]
        /\ \A w \in Flushes : writes'[w].text = writes[w].text
        /\ writes' \in [Flushes -> WriteRecords]
    BY <2>1, TextMeans DEF Types, StreamInv, BufferRecords, WriteRecords, Flushes
  <2>4. ASSUME NEW v \in Viewers
        PROVE  viewer'[v] \in ViewerRecords /\ viewer'[v].seen = viewer[v].seen /\ Knows(viewer[v])'
    <3>1. viewer[v] \in ViewerRecords /\ Knows(viewer[v])
      BY DEF Types, StreamInv, ConsoleInv
    <3>2. viewer'[v] = IF viewer[v].at = "live" THEN [viewer[v] EXCEPT !.at = "eof"] ELSE viewer[v]
      BY <2>1 DEF Ended
    <3>3. /\ viewer'[v] \in ViewerRecords /\ viewer'[v].seen = viewer[v].seen
          /\ viewer'[v].warm = viewer[v].warm /\ viewer'[v].row = viewer[v].row
          /\ viewer'[v].at \in {viewer[v].at, "eof"}
      BY <3>1, <3>2 DEF ViewerRecords
    <3>4. viewer[v].warm => viewer'[v].at = "eof"
      BY <3>1, <3>2, <3>3 DEF Knows, ViewerRecords
    <3>5. QED
      BY <2>1, <3>1, <3>3, <3>4 DEF Knows
  <2>5. viewer' \in [Viewers -> ViewerRecords]
    BY <2>1, <2>4 DEF Ended
  <2>6. Types'
    <3>1. row' \in {"open", "terminal", "deleted"} /\ produced' \in 0..MaxAppends /\ file' \in Text /\ job' \in {"queued", "running", "over"}
      BY <2>1, TextMeans DEF Types, StreamInv
    <3>2. QED
      BY <2>2, <2>3, <2>5, <3>1 DEF Types
  <2>7. PhaseInv'
    BY <2>1, <2>3 DEF PhaseInv
  <2>8. BufferInv' /\ FileInv'
    BY <2>1, <2>3 DEF StreamInv, BufferInv, FileInv
  <2>9. DurableInv'
    <3> SUFFICES ASSUME faults = 0
                 PROVE  /\ Len(file) <= Len(buf.lines)
                        /\ writes["debounced"].at \in {"open", "write"} => Len(writes["debounced"].text) <= Len(buf.lines)
                        /\ ~buf.armed => Carries("debounced")
      BY <2>1, <2>2, <2>3 DEF DurableInv, Carries, Flushes
    <3>1. QED
      BY <2>1 DEF StreamInv, DurableInv, Flushes
  <2>10. ConsoleInv'
    BY <2>4 DEF ConsoleInv
  <2>11. QED
    BY <2>6, <2>7, <2>8, <2>9, <2>10 DEF StreamInv
<1>3. QED
  BY <1>1, <1>2

\* A step of the file system changes at most the file, the writes and the timer.
LEMMA FileSteps ==
  ASSUME StreamInv, Persist \/ \E w \in Flushes : WriteFails(w)
  PROVE  StreamInv'
<1>1. UNCHANGED <<job, row, produced, viewer>>
  BY DEF Persist, FlushTimer, Snapshot, Truncate, Write, WriteFails
<1>2. ConsoleInv'
  BY <1>1, KnowsStill DEF StreamInv
<1>3. Types /\ PhaseInv /\ BufferInv /\ FileInv /\ DurableInv
  BY DEF StreamInv
<1>4. produced \in Nat /\ file \in Text /\ buf \in BufferRecords /\ buf.lines \in Text
  BY <1>3 DEF Types, BufferRecords
<1>5. \A w \in Flushes : writes[w] \in WriteRecords /\ writes[w].text \in Text
  BY <1>3 DEF Types, WriteRecords
<1>6. \A s \in Text : Len(s) \in Nat
  BY TextMeans
<1>7. CASE FlushTimer
  <2>1. /\ buf.armed /\ writes["debounced"].at = "idle" /\ buf' = [buf EXCEPT !.armed = FALSE]
        /\ writes' = [writes EXCEPT !["debounced"].at = "mkdir"] /\ UNCHANGED <<file, faults>>
    BY <1>7 DEF FlushTimer
  <2>2. buf' \in BufferRecords /\ buf'.at = buf.at /\ buf'.lines = buf.lines /\ ~buf'.armed
    BY <1>4, <2>1 DEF BufferRecords
  <2>3. /\ writes' \in [Flushes -> WriteRecords] /\ writes'["final"] = writes["final"]
        /\ writes'["debounced"].at = "mkdir" /\ \A w \in Flushes : writes'[w].text = writes[w].text
    BY <1>3, <2>1 DEF Types, WriteRecords, Flushes
  <2>4. Types'
    BY <1>1, <1>3, <2>1, <2>2, <2>3 DEF Types
  <2>5. PhaseInv' /\ BufferInv' /\ FileInv'
    BY <1>1, <1>3, <2>1, <2>2, <2>3 DEF PhaseInv, BufferInv, FileInv
  <2>6. DurableInv'
    BY <1>1, <1>3, <2>1, <2>2, <2>3 DEF DurableInv, Carries, Flushes
  <2>7. QED
    BY <1>2, <2>4, <2>5, <2>6 DEF StreamInv
<1>8. ASSUME NEW w \in Flushes, Snapshot(w) PROVE StreamInv'
  <2>1. /\ writes[w].at = "mkdir" /\ writes' = [writes EXCEPT ![w] = [at |-> "open", text |-> buf.lines]]
        /\ UNCHANGED <<buf, file, faults>>
    BY <1>8 DEF Snapshot
  <2>2. /\ writes' \in [Flushes -> WriteRecords] /\ writes'[w].at = "open" /\ writes'[w].text = buf.lines
        /\ \A x \in Flushes \ {w} : writes'[x] = writes[x]
    BY <1>3, <1>4, <2>1 DEF Types, WriteRecords
  <2>3. Types'
    BY <1>1, <1>3, <2>1, <2>2 DEF Types
  <2>4. job # "queued" /\ (job # "over" => w # "final") /\ "final" \in Flushes
    BY <1>3, <2>1 DEF PhaseInv, Flushes
  <2>5. PhaseInv' /\ BufferInv' /\ FileInv'
    BY <1>1, <1>3, <2>1, <2>2, <2>4 DEF PhaseInv, BufferInv, FileInv
  <2>6. DurableInv'
    BY <1>1, <1>3, <1>4, <1>6, <2>1, <2>2 DEF DurableInv, Carries, Flushes
  <2>7. QED
    BY <1>2, <2>3, <2>5, <2>6 DEF StreamInv
<1>9. ASSUME NEW w \in Flushes, Truncate(w) PROVE StreamInv'
  <2>1. /\ writes[w].at = "open" /\ writes' = [writes EXCEPT ![w].at = "write"]
        /\ file' = <<>> /\ UNCHANGED <<buf, faults>>
    BY <1>9 DEF Truncate
  <2>2. /\ writes' \in [Flushes -> WriteRecords] /\ writes'[w].at = "write" /\ writes'[w].text = writes[w].text
        /\ \A x \in Flushes \ {w} : writes'[x] = writes[x]
    BY <1>3, <2>1 DEF Types, WriteRecords
  <2>3. Types'
    BY <1>1, <1>3, <2>1, <2>2, TextMeans DEF Types
  <2>4. job # "queued" /\ (job # "over" => w # "final") /\ "final" \in Flushes
    BY <1>3, <2>1 DEF PhaseInv, Flushes
  <2>5. PhaseInv' /\ BufferInv'
    BY <1>1, <1>3, <2>1, <2>2, <2>4 DEF PhaseInv, BufferInv
  <2>6. FileInv'
    BY <1>1, <1>3, <1>4, <2>1, <2>2, StoredEmpty DEF FileInv
  <2>7. Len(file') = 0
    BY <2>1
  <2>8. DurableInv'
    BY <1>1, <1>3, <1>4, <1>6, <2>1, <2>2, <2>7 DEF DurableInv, Carries, Flushes
  <2>9. QED
    BY <1>2, <2>3, <2>5, <2>6, <2>8 DEF StreamInv
<1>10. ASSUME NEW w \in Flushes, Write(w) PROVE StreamInv'
  <2>1. /\ writes[w].at = "write" /\ writes' = [writes EXCEPT ![w] = NoWrite]
        /\ file' = Over(writes[w].text, file) /\ UNCHANGED <<buf, faults>>
    BY <1>10 DEF Write, Over
  <2>2. /\ writes' \in [Flushes -> WriteRecords] /\ writes'[w].at = "idle" /\ writes'[w].text = <<>>
        /\ \A x \in Flushes \ {w} : writes'[x] = writes[x]
    BY <1>3, <2>1, TextMeans DEF Types, WriteRecords, NoWrite
  <2>3. /\ file' \in Text
        /\ Len(file') = IF Len(file) <= Len(writes[w].text) THEN Len(writes[w].text) ELSE Len(file)
        /\ Len(file) <= Len(writes[w].text) => file' = writes[w].text
    BY <1>4, <1>5, <2>1, OverText
  <2>4. Types'
    BY <1>1, <1>3, <2>1, <2>2, <2>3 DEF Types
  <2>5. job # "queued" /\ (job # "over" => w # "final") /\ "final" \in Flushes
    BY <1>3, <2>1 DEF PhaseInv, Flushes
  <2>6. PhaseInv' /\ BufferInv'
    BY <1>1, <1>3, <2>1, <2>2, <2>5 DEF PhaseInv, BufferInv
  <2>7. FileInv'
    <3>1. Stored(file', produced)
      BY <1>3, <1>4, <1>5, <2>1, StoredOver DEF FileInv
    <3>2. QED
      BY <1>1, <1>3, <1>4, <2>2, <3>1, StoredEmpty DEF FileInv
  <2>8. DurableInv'
    <3> SUFFICES ASSUME faults = 0, job = "running" \/ buf.at = "done"
                 PROVE  /\ Len(file') <= Len(buf.lines)
                        /\ \A x \in Flushes : writes'[x].at \in {"open", "write"} => Len(writes'[x].text) <= Len(buf.lines)
                        /\ Carries("final")'
                        /\ ~buf.armed => Carries("debounced")' /\ file' = buf.lines
      BY <1>1, <2>1 DEF DurableInv
    <3>1. Len(file) <= Len(buf.lines) /\ Len(writes[w].text) <= Len(buf.lines)
      BY <1>3, <2>1 DEF DurableInv
    <3>2. Len(file') <= Len(buf.lines)
      BY <2>3, <3>1
    <3>3. \A x \in Flushes : writes'[x].at \in {"open", "write"} => Len(writes'[x].text) <= Len(buf.lines)
      BY <1>3, <2>2 DEF DurableInv
    <3>4. Carries("final")' /\ (~buf.armed => Carries("debounced")')
      BY <1>3, <2>1, <2>2 DEF DurableInv, Carries, Flushes
    <3>5. ~buf.armed => file' = buf.lines
      BY <1>3, <2>1, <2>3, <3>1 DEF DurableInv, Carries, Flushes
    <3>6. QED
      BY <3>2, <3>3, <3>4, <3>5
  <2>9. QED
    BY <1>2, <2>4, <2>6, <2>7, <2>8 DEF StreamInv
<1>11. ASSUME NEW w \in Flushes, WriteFails(w) PROVE StreamInv'
  <2>1. /\ writes[w].at # "idle" /\ writes' = [writes EXCEPT ![w] = NoWrite]
        /\ faults < MaxFaults /\ faults' = faults + 1 /\ UNCHANGED <<buf, file>>
    BY <1>11 DEF WriteFails
  <2>2. /\ writes' \in [Flushes -> WriteRecords] /\ writes'[w].at = "idle" /\ writes'[w].text = <<>>
        /\ \A x \in Flushes \ {w} : writes'[x] = writes[x]
    BY <1>3, <2>1, TextMeans DEF Types, WriteRecords, NoWrite
  <2>3. faults' \in 0..MaxFaults /\ faults' # 0
    BY <1>3, <2>1 DEF Types
  <2>4. Types'
    BY <1>1, <1>3, <2>1, <2>2, <2>3 DEF Types
  <2>5. job # "queued" /\ (job # "over" => w # "final") /\ "final" \in Flushes
    BY <1>3, <2>1 DEF PhaseInv, Flushes
  <2>6. PhaseInv' /\ BufferInv'
    BY <1>1, <1>3, <2>1, <2>2, <2>5 DEF PhaseInv, BufferInv
  <2>7. FileInv'
    BY <1>1, <1>3, <1>4, <2>1, <2>2, StoredEmpty DEF FileInv
  <2>8. QED
    BY <1>2, <2>3, <2>4, <2>6, <2>7 DEF StreamInv, DurableInv
<1>12. QED
  BY <1>7, <1>8, <1>9, <1>10, <1>11 DEF Persist

\* A step of a console changes its own record; it may create an empty buffer, once the job
\* is over or before it begins.
LEMMA ConsoleMoves ==
  ASSUME StreamInv, NEW v \in Viewers, NEW rec \in ViewerRecords, Move(v, rec), Knows(rec),
         job = "queued" => rec.seen = <<>>,
         UNCHANGED <<job, row, produced, writes, file, faults>>,
         buf' = buf \/ (buf.at = "absent" /\ buf' = [buf EXCEPT !.at = "live"])
  PROVE  StreamInv'
<1>1. Types /\ PhaseInv /\ BufferInv /\ FileInv /\ DurableInv /\ ConsoleInv
  BY DEF StreamInv
<1>2. /\ buf' \in BufferRecords /\ buf'.lines = buf.lines /\ buf'.armed = buf.armed
      /\ buf'.at \in {buf.at, "live"} /\ (buf'.at # buf.at => buf.at = "absent")
  BY <1>1 DEF Types, BufferRecords
<1>3. /\ viewer' \in [Viewers -> ViewerRecords] /\ viewer'[v] = rec
      /\ \A x \in Viewers \ {v} : viewer'[x] = viewer[x]
  BY <1>1 DEF Move, Types
<1>4. Types'
  BY <1>1, <1>2, <1>3 DEF Types
<1>5. PhaseInv'
  BY <1>1, <1>2, <1>3 DEF PhaseInv
<1>6. BufferInv' /\ FileInv'
  BY <1>1, <1>2 DEF BufferInv, FileInv
<1>7. DurableInv'
  BY <1>1, <1>2 DEF DurableInv, Carries, PhaseInv
<1>8. ConsoleInv'
  <2>1. Knows(rec)'
    BY DEF Knows
  <2>2. \A x \in Viewers \ {v} : Knows(viewer[x])'
    BY <1>1, <1>3 DEF Knows, ConsoleInv
  <2>3. QED
    BY <1>3, <2>1, <2>2 DEF ConsoleInv
<1>9. QED
  BY <1>4, <1>5, <1>6, <1>7, <1>8 DEF StreamInv

\* What the buffer and the file hold is in order and was produced.
LEMMA StoredKnown ==
  ASSUME NEW s, Stored(s, produced)
  PROVE  Rising(s) /\ \A i \in 1..Len(s) : s[i] <= produced
BY DEF Stored

\* What a console is that has shown nothing: new, or cut off.
LEMMA Blank ==
  ASSUME NEW r \in {NewViewer, Gone}
  PROVE  /\ r \in ViewerRecords /\ r.seen = <<>> /\ r.row = "open" /\ r.at \in {"new", "gone"}
         /\ r.warm = FALSE /\ Len(r.seen) = 0
<1>1. NewViewer \in ViewerRecords /\ Len(<<>>) = 0
  BY TextMeans DEF NewViewer, ViewerRecords
<1>2. Gone \in ViewerRecords /\ Gone.seen = <<>> /\ Gone.row = "open" /\ Gone.at = "gone" /\ Gone.warm = FALSE
  BY <1>1 DEF Gone, NewViewer, ViewerRecords
<1>3. NewViewer.seen = <<>> /\ NewViewer.row = "open" /\ NewViewer.at = "new" /\ NewViewer.warm = FALSE
  BY DEF NewViewer
<1>4. QED
  BY <1>1, <1>2, <1>3

LEMMA BlankKnows ==
  ASSUME NEW r, r.row = "open", r.at \in {"new", "gone"}, r.warm = FALSE, Len(r.seen) = 0
  PROVE  Knows(r)
<1>1. 1..0 = {} /\ 1..(0 - 1) = {}
  OBVIOUS
<1>2. Rising(r.seen) /\ \A i \in 1..Len(r.seen) : r.seen[i] <= produced
  BY <1>1 DEF Rising
<1>3. QED
  BY <1>2 DEF Knows

LEMMA ConsoleSteps ==
  ASSUME StreamInv, NEW v \in Viewers, Open(v) \/ Watch(v) \/ Leave(v)
  PROVE  StreamInv'
<1> DEFINE me == viewer[v]
<1>1. me \in ViewerRecords /\ Knows(me) /\ (job = "queued" => me.seen = <<>>)
  BY DEF StreamInv, Types, ConsoleInv, PhaseInv
<1>2. UNCHANGED <<job, row, produced, writes, file, faults>>
  BY DEF Open, Watch, ReadFile, ReadRow, Decide, Leave
<1>3. buf.lines \in Lines /\ file \in Lines /\ <<>> \in Lines /\ Len(<<>>) = 0
  BY TextMeans DEF StreamInv, Types, BufferRecords
<1>4. Rising(buf.lines) /\ \A i \in 1..Len(buf.lines) : buf.lines[i] <= produced
  BY StoredKnown DEF StreamInv, BufferInv
<1>5. Rising(file) /\ \A i \in 1..Len(file) : file[i] <= produced
  BY StoredKnown DEF StreamInv, FileInv
<1>6. Gone \in ViewerRecords /\ Knows(Gone) /\ Gone.seen = <<>>
  BY Blank, BlankKnows
<1>7. CASE Open(v)
  <2>1. PICK rec : /\ Move(v, rec)
                   /\ rec = CASE buf.at = "absent" -> [me EXCEPT !.at = "file"]
                              [] buf.at = "live" -> [me EXCEPT !.at = "live", !.seen = buf.lines, !.warm = TRUE]
                              [] buf.at = "done" -> [me EXCEPT !.at = "row", !.seen = buf.lines]
    BY <1>7 DEF Open
  <2>2. me.at = "new" /\ buf' = buf /\ ~me.warm
    BY <1>1, <1>7 DEF Open, Knows, ViewerRecords
  <2>3. buf.at \in {"absent", "live", "done"}
    BY DEF StreamInv, Types, BufferRecords
  <2>4. rec \in ViewerRecords /\ Knows(rec) /\ (job = "queued" => rec.seen = <<>>)
    <3>1. CASE buf.at = "absent"
      <4>1. rec = [me EXCEPT !.at = "file"]
        BY <2>1, <3>1
      <4>2. /\ rec \in ViewerRecords /\ rec.at = "file" /\ rec.seen = me.seen /\ rec.row = me.row /\ rec.warm = me.warm
        BY <1>1, <4>1 DEF ViewerRecords, Gap
      <4>3. QED
        BY <1>1, <2>2, <4>2 DEF Knows
    <3>2. CASE buf.at = "live"
      <4>1. rec = [me EXCEPT !.at = "live", !.seen = buf.lines, !.warm = TRUE]
        BY <2>1, <3>2
      <4>2. rec \in ViewerRecords /\ rec.at = "live" /\ rec.seen = buf.lines /\ rec.row = me.row /\ rec.warm = TRUE
        BY <1>1, <1>3, <4>1 DEF ViewerRecords
      <4>3. QED
        BY <1>1, <1>4, <4>2 DEF Knows, StreamInv, BufferInv, PhaseInv
    <3>3. CASE buf.at = "done"
      <4>1. rec = [me EXCEPT !.at = "row", !.seen = buf.lines]
        BY <2>1, <3>3
      <4>2. rec \in ViewerRecords /\ rec.at = "row" /\ rec.seen = buf.lines /\ rec.row = me.row /\ rec.warm = me.warm
        BY <1>1, <1>3, <4>1 DEF ViewerRecords, Gap
      <4>3. QED
        BY <1>1, <1>4, <2>2, <4>2 DEF Knows, StreamInv, PhaseInv
    <3>4. QED
      BY <2>3, <3>1, <3>2, <3>3
  <2>5. QED
    BY <1>2, <2>1, <2>2, <2>4, ConsoleMoves
<1>8. CASE ReadFile(v)
  <2>1. PICK rec : /\ Move(v, rec)
                   /\ rec = IF me.left THEN Gone
                            ELSE [me EXCEPT !.seen = file, !.at = IF buf.at = "live" THEN "live" ELSE "row"]
    BY <1>8 DEF ReadFile
  <2>2. me.at = "file" /\ buf' = buf /\ ~me.warm
    BY <1>1, <1>8 DEF ReadFile, Knows, ViewerRecords
  <2>3. rec \in ViewerRecords /\ Knows(rec) /\ (job = "queued" => rec.seen = <<>>)
    <3>1. CASE me.left
      BY <1>6, <2>1, <3>1
    <3>2. CASE ~me.left
      <4>1. rec = [me EXCEPT !.seen = file, !.at = IF buf.at = "live" THEN "live" ELSE "row"]
        BY <2>1, <3>2
      <4>2. rec \in ViewerRecords /\ rec.at \in {"live", "row"} /\ rec.seen = file /\ rec.row = me.row /\ rec.warm = me.warm
        BY <1>1, <1>3, <4>1 DEF ViewerRecords, Gap
      <4>3. QED
        BY <1>1, <1>5, <2>2, <4>2 DEF Knows, StreamInv, PhaseInv
    <3>3. QED
      BY <3>1, <3>2
  <2>4. QED
    BY <1>2, <2>1, <2>2, <2>3, ConsoleMoves
<1>9. CASE ReadRow(v)
  <2>1. PICK rec : Move(v, rec) /\ rec = [me EXCEPT !.at = "decide", !.row = row]
    BY <1>9 DEF ReadRow
  <2>2. me.at = "row" /\ buf' = buf /\ ~me.warm /\ row \in {"open", "terminal", "deleted"}
    BY <1>1, <1>9 DEF ReadRow, Knows, ViewerRecords, StreamInv, Types
  <2>3. rec \in ViewerRecords /\ rec.at = "decide" /\ rec.seen = me.seen /\ rec.row = row /\ rec.warm = me.warm
    BY <1>1, <2>1, <2>2 DEF ViewerRecords, Gap
  <2>4. Knows(rec) /\ (job = "queued" => rec.seen = <<>>)
    BY <1>1, <2>2, <2>3 DEF Knows
  <2>5. QED
    BY <1>2, <2>1, <2>2, <2>3, <2>4, ConsoleMoves
<1>10. CASE Decide(v)
  <2>1. me.at = "decide" /\ ~me.warm
    BY <1>1, <1>10 DEF Decide, Knows, ViewerRecords
  <2>2. PICK at \in {"eof", "live"} :
          /\ Move(v, [me EXCEPT !.at = at, !.row = "open"])
          /\ at = "eof" => \/ buf.at # "live" /\ (me.row # "open" \/ me.seen # <<>>)
                           \/ buf.at = "done"
    BY <1>10 DEF Decide, Attach
  <2>3. buf' = buf \/ (buf.at = "absent" /\ buf' = [buf EXCEPT !.at = "live"])
    <3>1. buf' = buf \/ buf' = [buf EXCEPT !.at = IF @ = "absent" THEN "live" ELSE @]
      BY <1>10 DEF Decide, Attach
    <3>2. buf \in BufferRecords
      BY DEF StreamInv, Types
    <3>3. QED
      BY <3>1, <3>2 DEF BufferRecords
  <2>4. at = "eof" => job = "over" \/ row # "open"
    <3>1. buf.at # "live" /\ me.seen # <<>> => job = "over"
      BY <1>1 DEF StreamInv, PhaseInv, Types
    <3>2. QED
      BY <1>1, <2>2, <3>1 DEF Knows, StreamInv, PhaseInv
  <2> DEFINE rec == [me EXCEPT !.at = at, !.row = "open"]
  <2>5. /\ rec \in ViewerRecords /\ rec.at = at /\ rec.seen = me.seen /\ rec.row = "open" /\ rec.warm = me.warm
    BY <1>1 DEF ViewerRecords
  <2> HIDE DEF rec
  <2>6. Knows(rec) /\ (job = "queued" => rec.seen = <<>>)
    BY <1>1, <2>1, <2>4, <2>5 DEF Knows
  <2>7. Move(v, rec)
    BY <2>2 DEF rec
  <2>8. QED
    BY <1>2, <2>3, <2>5, <2>6, <2>7, ConsoleMoves
<1>11. CASE Leave(v)
  <2>1. PICK rec : Move(v, rec) /\ rec = IF me.at = "live" THEN Gone ELSE [me EXCEPT !.left = TRUE]
    BY <1>11 DEF Leave
  <2>2. buf' = buf
    BY <1>11 DEF Leave
  <2>3. rec \in ViewerRecords /\ Knows(rec) /\ (job = "queued" => rec.seen = <<>>)
    <3>1. CASE me.at = "live"
      BY <1>6, <2>1, <3>1
    <3>2. CASE me.at # "live"
      <4>1. rec = [me EXCEPT !.left = TRUE]
        BY <2>1, <3>2
      <4>2. rec \in ViewerRecords /\ rec.at = me.at /\ rec.seen = me.seen /\ rec.row = me.row /\ rec.warm = me.warm
        BY <1>1, <4>1 DEF ViewerRecords
      <4>3. QED
        BY <1>1, <4>2 DEF Knows
    <3>3. QED
      BY <3>1, <3>2
  <2>4. QED
    BY <1>2, <2>1, <2>2, <2>3, ConsoleMoves
<1>12. QED
  BY <1>7, <1>8, <1>9, <1>10, <1>11 DEF Watch

LEMMA EvictStep ==
  ASSUME StreamInv, Evict
  PROVE  StreamInv'
<1>1. buf.at = "done" /\ buf' = NoBuffer /\ UNCHANGED <<job, row, produced, writes, file, viewer, faults>>
  BY DEF Evict
<1>2. job = "over" /\ produced \in Nat
  BY <1>1 DEF StreamInv, PhaseInv, Types
<1>3. buf' \in BufferRecords /\ buf'.at = "absent" /\ buf'.lines = <<>> /\ ~buf'.armed /\ Len(<<>>) = 0
  BY <1>1, TextMeans DEF NoBuffer, BufferRecords
<1>4. Types' /\ PhaseInv' /\ FileInv' /\ DurableInv'
  BY <1>1, <1>2, <1>3 DEF StreamInv, Types, PhaseInv, FileInv, DurableInv
<1>5. BufferInv'
  BY <1>1, <1>2, <1>3, StoredEmpty DEF BufferInv
<1>6. ConsoleInv'
  BY <1>1, KnowsStill DEF StreamInv
<1>7. QED
  BY <1>4, <1>5, <1>6 DEF StreamInv

LEMMA RestartStep ==
  ASSUME StreamInv, NEW pinged \in BOOLEAN, Restart(pinged)
  PROVE  StreamInv'
<1>1. /\ faults' \in 0..MaxFaults /\ faults' # 0
      /\ job' = "over" /\ buf' = NoBuffer /\ writes' = [w \in Flushes |-> NoWrite]
      /\ UNCHANGED <<produced, file>>
  BY DEF Restart, StreamInv, Types
<1>2. row' \in {"open", "terminal", "deleted"} /\ (row # "open" => row' = row)
  BY DEF Restart, StreamInv, Types
<1>3. /\ buf' \in BufferRecords /\ buf'.at = "absent" /\ buf'.lines = <<>> /\ ~buf'.armed /\ Len(<<>>) = 0
      /\ writes' \in [Flushes -> WriteRecords] /\ \A w \in Flushes : writes'[w].text = <<>>
  BY <1>1, TextMeans DEF NoBuffer, BufferRecords, NoWrite, WriteRecords
<1>4. ASSUME NEW v \in Viewers PROVE viewer'[v] \in ViewerRecords /\ Knows(viewer[v])'
  <2>1. viewer'[v] \in {NewViewer, Gone}
    BY DEF Restart
  <2>2. /\ viewer'[v] \in ViewerRecords /\ viewer'[v].row = "open" /\ viewer'[v].at \in {"new", "gone"}
        /\ viewer'[v].warm = FALSE /\ Len(viewer'[v].seen) = 0
    BY <2>1, Blank
  <2>3. Rising(viewer'[v].seen) /\ \A i \in 1..Len(viewer'[v].seen) : viewer'[v].seen[i] <= produced'
    <3>1. 1..0 = {} /\ 1..(0 - 1) = {}
      OBVIOUS
    <3>2. QED
      BY <2>2, <3>1 DEF Rising
  <2>4. QED
    BY <2>2, <2>3 DEF Knows
<1>5. viewer' \in [Viewers -> ViewerRecords]
  BY <1>4 DEF Restart
<1>6. produced \in 0..MaxAppends /\ file \in Text
  BY DEF StreamInv, Types
<1>7. Types'
  BY <1>1, <1>2, <1>3, <1>5, <1>6 DEF Types
<1>8. PhaseInv' /\ DurableInv'
  BY <1>1, <1>3 DEF PhaseInv, DurableInv
<1>9. BufferInv' /\ FileInv'
  <2>1. Stored(<<>>, produced)
    BY <1>6, StoredEmpty
  <2>2. QED
    BY <1>1, <1>3, <2>1 DEF StreamInv, BufferInv, FileInv
<1>10. ConsoleInv'
  BY <1>4 DEF ConsoleInv
<1>11. QED
  BY <1>7, <1>8, <1>9, <1>10 DEF StreamInv

LEMMA InitStream == Init => StreamInv
<1> SUFFICES ASSUME Init PROVE StreamInv
  OBVIOUS
<1>1. /\ job = "queued" /\ row = "open" /\ produced = 0 /\ faults = 0 /\ file = <<>> /\ Len(<<>>) = 0
      /\ buf \in BufferRecords /\ buf.at = "absent" /\ buf.lines = <<>> /\ ~buf.armed
  BY TextMeans DEF Init, NoBuffer, BufferRecords
<1>2. writes \in [Flushes -> WriteRecords] /\ \A w \in Flushes : writes[w].at = "idle" /\ writes[w].text = <<>>
  BY TextMeans DEF Init, NoWrite, WriteRecords
<1>3. NewViewer \in ViewerRecords /\ NewViewer.seen = <<>> /\ Knows(NewViewer)
  BY Blank, BlankKnows
<1>4. viewer \in [Viewers -> ViewerRecords] /\ \A v \in Viewers : viewer[v] = NewViewer
  BY <1>3 DEF Init
<1>5. Types
  BY <1>1, <1>2, <1>4, TextMeans DEF Types
<1>6. PhaseInv
  BY <1>1, <1>2, <1>3, <1>4 DEF PhaseInv, Flushes
<1>7. BufferInv /\ FileInv
  BY <1>1, <1>2, StoredEmpty DEF BufferInv, FileInv
<1>8. DurableInv
  BY <1>1 DEF DurableInv
<1>9. ConsoleInv
  BY <1>3, <1>4 DEF ConsoleInv
<1>10. QED
  BY <1>5, <1>6, <1>7, <1>8, <1>9 DEF StreamInv

LEMMA StepStream ==
  ASSUME StreamInv, [Next]_vars
  PROVE  StreamInv'
<1>1. CASE UNCHANGED vars
  BY <1>1 DEF vars, StreamInv, Types, PhaseInv, BufferInv, FileInv, DurableInv, Carries, ConsoleInv,
     Knows
<1>2. CASE Next
  BY <1>2, AppendStep, JobSteps, FileSteps, ConsoleSteps, EvictStep, RestartStep DEF Next
<1>3. QED
  BY <1>1, <1>2

LEMMA StreamHolds == Spec => []StreamInv
BY InitStream, StepStream, PTL DEF Spec

\* Buffer, file, writes under way and consoles keep their types.
THEOREM TypeCorrect == Spec => []TypeOK
<1>1. StreamInv => TypeOK
  BY TypesMean DEF StreamInv
<1> QED
  BY <1>1, StreamHolds, PTL

\* A console shows lines in order and, opened while the stream was live, misses none; it is
\* told of an end only when the build is over or settled; and once the last write is done
\* the file holds the window, whichever writes overlapped.
THEOREM NothingLost == Spec => []LogInv
<1>1. StreamInv => TypeOK /\ SeenInOrder
  BY TypesMean DEF StreamInv, ConsoleInv, Knows, Rising, SeenInOrder
<1>2. StreamInv => WarmMissesNothing /\ EofMeansOver
  BY DEF StreamInv, ConsoleInv, Knows, WarmMissesNothing, EofMeansOver
<1>3. StreamInv => FinishedIsDurable
  BY DEF StreamInv, DurableInv, FinishedIsDurable
<1>4. StreamInv => LogInv
  BY <1>1, <1>2, <1>3 DEF LogInv
<1> QED
  BY <1>4, StreamHolds, PTL
=============================================================================
