----------------------------- MODULE PlanProofs -----------------------------
(***************************************************************************)
(* The plans and the configuration behind them: that the plans of the      *)
(* stream only move on, whatever is restarted, rotated or lost on the way  *)
(* through the four stages; that each leans against the inventory it was   *)
(* made with; that the configuration store is mended by the next apply     *)
(* that runs alone; and that the tailer of the Condor routines passes no   *)
(* line over.                                                              *)
(*                                                                         *)
(* ChainInv orders the records on their way: what a stage has told of, is  *)
(* telling of and has not read yet.  StoreInv says what the files hold of  *)
(* an apply that runs alone, for each of its steps; applies that race are  *)
(* in it only by what they cannot do to one that comes after them.  The    *)
(* tailer is a matter of text: a text is whole lines and a rest after its  *)
(* last newline, and when more follows, the records of all of it are those *)
(* of the whole lines and those of the rest with what follows.             *)
(***************************************************************************)
EXTENDS StageChain, GridEngine, ConfigStore, CondorTailer, SequenceTheorems,
        WellFoundedInduction, TLAPS

-----------------------------------------------------------------------------
(* The streams *)

Records == Seq(1..MaxSnapshots)

Ascending(s) == \A i, j \in 1..Len(s) : i <= j => s[i] <= s[j]
AtMost(s, record) == \A i \in 1..Len(s) : s[i] <= record
NotAfter(s, u) == \A i \in 1..Len(s) : \A j \in 1..Len(u) : s[i] <= u[j]

\* The stream has told of the record, or of a later one.
Reached(n, record) == lines[n] # <<>> /\ record <= Last(lines[n])
AllReached(n, s) == \A i \in 1..Len(s) : Reached(n, s[i])

TailerOf(s) == <<s, Feeds[s]>>

\* What a stage has told of, what it is telling of and what it has not read yet
\* come in this order, and its feed is at none of them behind.
StageOrder(s) ==
    /\ Ascending(lines[s]) /\ Ascending(batch[s])
    /\ NotAfter(lines[s], batch[s])
    /\ NotAfter(lines[s], Unread(TailerOf(s))) /\ NotAfter(batch[s], Unread(TailerOf(s)))
    /\ AllReached(Feeds[s], lines[s]) /\ AllReached(Feeds[s], batch[s])

\* Stage 4 holds nothing a stream has not told of, and nothing older than the
\* last plan that it joined.
PlanOrder(n) ==
    /\ inputs[n] # 0 => Reached(n, inputs[n]) /\ planned[n] <= inputs[n]
    /\ planned[n] # 0 => Reached(n, planned[n])

ChainInv ==
    /\ ChainTypeOK
    /\ Ascending(lines["snapshot"])
    /\ \A s \in Stages : StageOrder(s)
    /\ \A n \in Streams : PlanOrder(n)

LEMMA ChainNames ==
  /\ Stages = {"state", "mode"} /\ Stages \subseteq Streams
  /\ \A s \in Stages : Feeds[s] \in Streams /\ Feeds[s] # s
  /\ \A s \in Stages : TailerOf(s) \in Tailers /\ TailerOf(s)[2] = Feeds[s]
  /\ \A s \in Stages : TailerOf(s)[1] = s /\ TailerOf(s)[1] # "plan"
  /\ \A n \in Streams : <<"plan", n>> \in Tailers
  /\ \A t \in Tailers : t[2] \in Streams
  BY DEF Stages, Streams, Feeds, TailerOf, Tailers

LEMMA RecordsAre == \A q \in Records : \A i \in 1..Len(q) : q[i] \in 1..MaxSnapshots
  BY ElementOfSeq DEF Records

\* The last of the records is one of them, and of an ascending sequence the most.
LEMMA LastOfRecords ==
  ASSUME NEW s \in Records, s # <<>>
  PROVE  /\ Len(s) \in Nat \ {0} /\ Last(s) = s[Len(s)] /\ Last(s) \in 1..MaxSnapshots
         /\ Ascending(s) => AtMost(s, Last(s))
  BY ChainAssumption DEF Records, Last, Ascending, AtMost

\* What an append leaves: the record is the last of its stream.
LEMMA AppendedLines ==
  ASSUME ChainTypeOK, NEW n \in Streams, NEW record \in 1..MaxSnapshots,
         AppendTo(n, record), Ascending(lines[n]), AtMost(lines[n], record)
  PROVE  /\ lines' \in [Streams -> Records] /\ epoch' \in [Streams -> Nat]
         /\ lines'[n] # <<>> /\ Last(lines'[n]) = record
         /\ Ascending(lines'[n]) /\ AtMost(lines'[n], record)
         /\ \A m \in Streams \ {n} : lines'[m] = lines[m] /\ epoch'[m] = epoch[m]
         /\ \/ lines'[n] = <<record>>
            \/ lines'[n] = Append(lines[n], record) /\ epoch'[n] = epoch[n]
  <1> DEFINE l == lines[n]
             new == lines'[n]
  <1>1. l \in Records /\ lines \in [Streams -> Records] /\ epoch \in [Streams -> Nat]
    BY DEF ChainTypeOK, Records
  <1>2. CASE new = <<record>>
    <2>1. new \in Records /\ Len(new) = 1 /\ new[1] = record
      BY <1>2 DEF Records
    <2> QED
      BY <1>1, <1>2, <2>1 DEF AppendTo, Ascending, AtMost, Last
  <1>3. CASE new = Append(l, record) /\ epoch'[n] = epoch[n]
    <2>1. /\ new \in Records /\ new # <<>> /\ Len(new) = Len(l) + 1 /\ Len(l) \in Nat
          /\ \A i \in 1..Len(l) : new[i] = l[i] /\ l[i] \in Nat
          /\ new[Len(l) + 1] = record
      <3>1. /\ Append(l, record) \in Records /\ Append(l, record) # <<>>
            /\ Len(Append(l, record)) = Len(l) + 1
            /\ \A i \in 1..Len(l) : Append(l, record)[i] = l[i]
            /\ Append(l, record)[Len(l) + 1] = record
        BY <1>1, AppendProperties DEF Records
      <3>2. Len(l) \in Nat /\ \A i \in 1..Len(l) : l[i] \in 1..MaxSnapshots
        BY <1>1, RecordsAre DEF Records
      <3>3. \A i \in 1..Len(l) : l[i] \in Nat
        BY ChainAssumption, <3>2
      <3> QED
        BY <1>3, <3>1, <3>2, <3>3
    <2>2. Last(new) = record
      BY <2>1 DEF Last
    <2>3. AtMost(new, record)
      BY <2>1 DEF AtMost
    <2>4. Ascending(new)
      <3>1. SUFFICES ASSUME NEW i \in 1..Len(new), NEW j \in 1..Len(new), i <= j
                     PROVE  new[i] <= new[j]
        BY DEF Ascending
      <3>2. CASE j \in 1..Len(l)
        BY <2>1, <3>1, <3>2 DEF Ascending
      <3>3. CASE i = Len(l) + 1
        BY ChainAssumption, <2>1, <3>1, <3>3
      <3>4. CASE i \in 1..Len(l) /\ j = Len(l) + 1
        BY <2>1, <3>4 DEF AtMost
      <3> QED
        BY <2>1, <3>1, <3>2, <3>3, <3>4
    <2> QED
      BY <1>1, <1>3, <2>1, <2>2, <2>3, <2>4 DEF AppendTo
  <1> QED
    BY <1>1, <1>2, <1>3 DEF AppendTo

\* How much a tailer has read, and of what.
LEMMA LineCounts ==
  ASSUME ChainTypeOK, NEW t \in Tailers
  PROVE  /\ t[2] \in Streams /\ lines[t[2]] \in Records /\ Len(lines[t[2]]) \in Nat
         /\ read_to[t].lines \in Nat
  <1>1. t[2] \in Streams
    BY ChainNames
  <1>2. lines[t[2]] \in Records
    BY <1>1 DEF ChainTypeOK, Records
  <1>3. read_to[t] \in [epoch : Nat, lines : Nat]
    BY DEF ChainTypeOK
  <1>4. read_to[t].lines \in Nat
    BY <1>3
  <1> QED
    BY <1>1, <1>2, <1>4 DEF Records

\* What is unread is the end of the file, or all of it.
LEMMA UnreadIsEnd ==
  ASSUME ChainTypeOK, NEW t \in Tailers
  PROVE  /\ Unread(t) \in Records
         /\ \A i \in 1..Len(Unread(t)) : \E j \in 1..Len(lines[t[2]]) :
               Unread(t)[i] = lines[t[2]][j]
         /\ Unread(t) # <<>> => lines[t[2]] # <<>> /\ Last(Unread(t)) = Last(lines[t[2]])
         /\ Ascending(lines[t[2]]) => Ascending(Unread(t))
  <1> DEFINE l == lines[t[2]]
             k == read_to[t].lines
  <1>1. l \in Records /\ k \in Nat /\ Len(l) \in Nat
    BY LineCounts
  <1>4. Unread(t) = IF read_to[t].epoch = epoch[t[2]] THEN SubSeq(l, k + 1, Len(l)) ELSE l
    BY DEF Unread
  <1> HIDE DEF l, k
  <1>2. CASE read_to[t].epoch # epoch[t[2]]
    <2>1. Unread(t) = l
      BY <1>2, <1>4
    <2> QED
      BY <1>1, <2>1 DEF l
  <1>3. CASE read_to[t].epoch = epoch[t[2]]
    <2> DEFINE u == SubSeq(l, k + 1, Len(l))
    <2>1. Unread(t) = u
      BY <1>3, <1>4
    <2>2. \A i \in (k + 1)..Len(l) : l[i] \in 1..MaxSnapshots
      BY ChainAssumption, <1>1 DEF Records
    <2>3. /\ u \in Records /\ Len(u) = IF k + 1 <= Len(l) THEN Len(l) - k ELSE 0
          /\ \A i \in 1..(Len(l) - k) : u[i] = l[k + i]
      <3>1. k + 1 \in Int /\ Len(l) \in Int
        BY <1>1
      <3>2. /\ SubSeq(l, k + 1, Len(l)) \in Seq(1..MaxSnapshots)
            /\ Len(SubSeq(l, k + 1, Len(l)))
                  = IF k + 1 <= Len(l) THEN Len(l) - (k + 1) + 1 ELSE 0
            /\ \A i \in 1..(Len(l) - (k + 1) + 1) :
                  SubSeq(l, k + 1, Len(l))[i] = l[k + 1 + i - 1]
        BY <3>1, <2>2, SubSeqProperties
      <3> QED
        BY <3>2, <1>1 DEF Records
    <2> HIDE DEF u
    <2>4. \A i \in 1..Len(u) : k + i \in 1..Len(l) /\ u[i] = l[k + i]
      BY <1>1, <2>3
    <2>5. Ascending(l) => Ascending(u)
      BY <1>1, <2>4 DEF Ascending
    <2>6. u # <<>> => l # <<>> /\ Last(u) = Last(l)
      <3> SUFFICES ASSUME u # <<>> PROVE l # <<>> /\ Last(u) = Last(l)
        OBVIOUS
      <3>1. Len(u) \in Nat \ {0}
        BY <2>3 DEF Records
      <3>2. Len(u) = Len(l) - k
        BY <1>1, <2>3, <3>1
      <3>3. u[Len(u)] = l[k + Len(u)] /\ k + Len(u) = Len(l) /\ Len(l) > 0
        BY <1>1, <2>4, <3>1, <3>2
      <3> QED
        BY <3>3 DEF Last
    <2> QED
      BY <2>1, <2>3, <2>4, <2>5, <2>6 DEF l
  <1> QED
    BY <1>2, <1>3

\* An append adds no more than the record to what is unread.
LEMMA UnreadGrows ==
  ASSUME ChainTypeOK, NEW n \in Streams, NEW record \in 1..MaxSnapshots,
         AppendTo(n, record), NEW t \in Tailers, t[2] = n, UNCHANGED read_to,
         NEW i \in 1..Len(Unread(t)')
  PROVE  Unread(t)'[i] = record \/ \E j \in 1..Len(Unread(t)) : Unread(t)'[i] = Unread(t)[j]
  <1> DEFINE l == lines[n]
             k == read_to[t].lines
             u == Unread(t)
             after == Unread(t)'
  <1>1. l \in Records /\ k \in Nat /\ Len(l) \in Nat
    BY LineCounts
  <1>4. u = IF read_to[t].epoch = epoch[n] THEN SubSeq(l, k + 1, Len(l)) ELSE l
    BY DEF Unread
  <1>5. after = IF read_to[t].epoch = epoch'[n]
                THEN SubSeq(lines'[n], k + 1, Len(lines'[n])) ELSE lines'[n]
    BY DEF Unread
  <1> HIDE DEF l, k
  <1>2. CASE lines'[n] = <<record>>
    <2>1. after = <<record>> \/ after = SubSeq(<<record>>, k + 1, 1)
      BY <1>2, <1>5
    <2>2. CASE after = SubSeq(<<record>>, k + 1, 1)
      <3>1. \A j \in (k + 1)..1 : <<record>>[j] \in {record}
        BY <1>1
      <3>2. after \in Seq({record})
        <4>1. k + 1 \in Int /\ 1 \in Int
          BY <1>1
        <4> QED
          BY <2>2, <3>1, <4>1, SubSeqProperties
      <3> QED
        BY <3>2
    <2> QED
      BY <2>1, <2>2
  <1>3. CASE lines'[n] = Append(l, record) /\ epoch'[n] = epoch[n]
    <2> DEFINE new == Append(l, record)
    <2>1. /\ new \in Records /\ Len(new) = Len(l) + 1 /\ new[Len(l) + 1] = record
          /\ \A j \in 1..Len(l) : new[j] = l[j]
      BY <1>1, AppendProperties DEF Records
    <2> HIDE DEF new
    <2>2. CASE read_to[t].epoch # epoch[n]
      <3>1. u = l /\ after = new
        BY <1>3, <1>4, <1>5, <2>2 DEF new, l
      <3>2. i \in 1..(Len(l) + 1)
        BY <3>1, <2>1
      <3> QED
        BY <3>1, <3>2, <2>1, <1>1
    <2>3. CASE read_to[t].epoch = epoch[n]
      <3>1. u = SubSeq(l, k + 1, Len(l)) /\ after = SubSeq(new, k + 1, Len(l) + 1)
        BY <1>3, <1>4, <1>5, <2>1, <2>3 DEF new, l
      <3>2. \A j \in (k + 1)..(Len(l) + 1) : new[j] \in 1..MaxSnapshots
        BY ChainAssumption, <1>1, <2>1 DEF Records
      <3>3. /\ Len(after) = IF k + 1 <= Len(l) + 1 THEN Len(l) + 1 - k ELSE 0
            /\ \A j \in 1..(Len(l) + 1 - k) : after[j] = new[k + j]
        <4>1. k + 1 \in Int /\ Len(l) + 1 \in Int
          BY <1>1
        <4>2. /\ Len(SubSeq(new, k + 1, Len(l) + 1))
                    = IF k + 1 <= Len(l) + 1 THEN Len(l) + 1 - (k + 1) + 1 ELSE 0
              /\ \A j \in 1..(Len(l) + 1 - (k + 1) + 1) :
                    SubSeq(new, k + 1, Len(l) + 1)[j] = new[k + 1 + j - 1]
          BY <4>1, <3>2, SubSeqProperties
        <4>3. Len(after) = IF k + 1 <= Len(l) + 1 THEN Len(l) + 1 - k ELSE 0
          <5>1. /\ Len(l) \in Int /\ k \in Int
                /\ Len(l) + 1 - (k + 1) + 1 = Len(l) + 1 - k
            BY <1>1
          <5>2. Len(after) = Len(SubSeq(new, k + 1, Len(l) + 1))
            BY <3>1
          <5>3. CASE k + 1 <= Len(l) + 1
            BY <4>2, <5>1, <5>2, <5>3
          <5>4. CASE ~(k + 1 <= Len(l) + 1)
            BY <4>2, <5>2, <5>4
          <5> QED
            BY <5>3, <5>4
        <4>4. ASSUME NEW j \in 1..(Len(l) + 1 - k) PROVE after[j] = new[k + j]
          <5>1. Len(l) \in Int /\ k \in Int /\ j \in Int
            BY <1>1
          <5>2. /\ 1..(Len(l) + 1 - (k + 1) + 1) = 1..(Len(l) + 1 - k)
                /\ k + 1 + j - 1 = k + j
            BY <5>1
          <5> QED
            BY <4>2, <4>4, <5>2, <3>1
        <4> QED
          BY <4>3, <4>4
      <3>4. \A j \in (k + 1)..Len(l) : l[j] \in 1..MaxSnapshots
        BY ChainAssumption, <1>1 DEF Records
      <3>5. /\ Len(u) = IF k + 1 <= Len(l) THEN Len(l) - k ELSE 0
            /\ \A j \in 1..(Len(l) - k) : u[j] = l[k + j]
        <4>1. k + 1 \in Int /\ Len(l) \in Int
          BY <1>1
        <4>2. /\ Len(SubSeq(l, k + 1, Len(l)))
                    = IF k + 1 <= Len(l) THEN Len(l) - (k + 1) + 1 ELSE 0
              /\ \A j \in 1..(Len(l) - (k + 1) + 1) :
                    SubSeq(l, k + 1, Len(l))[j] = l[k + 1 + j - 1]
          BY <4>1, <3>4, SubSeqProperties
        <4> QED
          BY <4>2, <3>1, <1>1
      <3> HIDE DEF u, after
      <3>6. i \in 1..(Len(l) + 1 - k) /\ after[i] = new[k + i]
        BY <3>3, <1>1 DEF after
      <3>7. CASE k + i = Len(l) + 1
        BY <3>6, <3>7, <2>1 DEF after
      <3>8. CASE k + i # Len(l) + 1
        <4>1. k + i \in 1..Len(l) /\ i \in 1..(Len(l) - k) /\ k + 1 <= Len(l)
          BY <3>6, <3>8, <1>1
        <4>2. i \in 1..Len(u) /\ after[i] = u[i]
          BY <4>1, <3>5, <3>6, <2>1
        <4> QED
          BY <4>2 DEF after, u
      <3> QED
        BY <3>7, <3>8
    <2> QED
      BY <2>2, <2>3
  <1>6. lines \in [Streams -> Records] /\ epoch \in [Streams -> Nat]
    BY DEF ChainTypeOK, Records
  <1>7. lines'[n] = <<record>> \/ (lines'[n] = Append(l, record) /\ epoch'[n] = epoch[n])
    BY <1>6 DEF AppendTo, l
  <1> HIDE DEF u, after
  <1>8. after[i] = record \/ \E j \in 1..Len(u) : after[i] = u[j]
    BY <1>2, <1>3, <1>7 DEF u, after
  <1> QED
    BY <1>8 DEF u, after

\* What a tailer that is at the end has not read.
LEMMA NothingUnread ==
  ASSUME ChainTypeOK, NEW t \in Tailers, read_to' = [read_to EXCEPT ![t] = AtEnd(t[2])],
         UNCHANGED <<lines, epoch>>
  PROVE  /\ Unread(t)' = <<>>
         /\ read_to' \in [Tailers -> [epoch : Nat, lines : Nat]]
         /\ \A other \in Tailers \ {t} : Unread(other)' = Unread(other)
  <1> DEFINE l == lines[t[2]]
  <1>1. t[2] \in Streams /\ l \in Records /\ Len(l) \in Nat /\ epoch[t[2]] \in Nat
    BY LineCounts DEF ChainTypeOK
  <1>2. read_to'[t] = [epoch |-> epoch[t[2]], lines |-> Len(l)]
    BY DEF ChainTypeOK, AtEnd
  <1>3. Unread(t)' = SubSeq(l, Len(l) + 1, Len(l))
    <2>1. read_to'[t].epoch = epoch[t[2]] /\ read_to'[t].lines = Len(l)
      BY <1>2
    <2> QED
      BY <2>1 DEF Unread
  <1>4. SubSeq(l, Len(l) + 1, Len(l)) = <<>>
    <2> HIDE DEF l
    <2>1. \A i \in (Len(l) + 1)..Len(l) : l[i] \in 1..MaxSnapshots
      BY <1>1
    <2>2. Len(l) + 1 \in Int /\ Len(l) \in Int
      BY <1>1
    <2>3. /\ SubSeq(l, Len(l) + 1, Len(l)) \in Seq(1..MaxSnapshots)
          /\ Len(SubSeq(l, Len(l) + 1, Len(l)))
               = IF Len(l) + 1 <= Len(l) THEN Len(l) - (Len(l) + 1) + 1 ELSE 0
      BY <2>1, <2>2, SubSeqProperties
    <2> QED
      BY <1>1, <2>3, EmptySeq
  <1>5. read_to' \in [Tailers -> [epoch : Nat, lines : Nat]]
    BY <1>1, <1>2 DEF ChainTypeOK, AtEnd
  <1>6. \A other \in Tailers \ {t} : Unread(other)' = Unread(other)
    BY DEF ChainTypeOK, Unread
  <1> QED
    BY <1>3, <1>4, <1>5, <1>6

\* Every stream ascends.
LEMMA StreamsAscend ==
  ASSUME ChainInv
  PROVE  \A n \in Streams : Ascending(lines[n])
  BY ChainNames DEF ChainInv, StageOrder, Streams

\* What a stream has told of it has told of for good, and who reads it learns of
\* nothing older.
LEMMA AppendKeeps ==
  ASSUME ChainInv, NEW n \in Streams, NEW record \in 1..MaxSnapshots,
         AppendTo(n, record), AtMost(lines[n], record),
         UNCHANGED <<read_to, inputs, planned>>
  PROVE  /\ lines' \in [Streams -> Records] /\ epoch' \in [Streams -> Nat]
         /\ \A m \in Streams : \A r \in 0..MaxSnapshots : Reached(m, r) => Reached(m, r)'
         /\ Reached(n, record)'
         /\ \A i \in 1..Len(lines'[n]) :
               lines'[n][i] <= record
         /\ Ascending(lines'[n])
         /\ \A m \in Streams \ {n} : lines'[m] = lines[m] /\ epoch'[m] = epoch[m]
         /\ \A m \in Streams : PlanOrder(m)'
  <1>1. ChainTypeOK /\ Ascending(lines[n])
    BY StreamsAscend DEF ChainInv
  <1>2. /\ lines' \in [Streams -> Records] /\ epoch' \in [Streams -> Nat]
        /\ lines'[n] # <<>> /\ Last(lines'[n]) = record
        /\ Ascending(lines'[n]) /\ AtMost(lines'[n], record)
        /\ \A m \in Streams \ {n} : lines'[m] = lines[m] /\ epoch'[m] = epoch[m]
    BY <1>1, AppendedLines
  <1>3. ASSUME NEW m \in Streams, NEW r \in 0..MaxSnapshots, Reached(m, r)
        PROVE  Reached(m, r)'
    <2>1. CASE m = n
      <3>1. lines[n] # <<>> /\ r <= Last(lines[n]) /\ lines[n] \in Records
        BY <1>1, <1>3, <2>1 DEF Reached, ChainTypeOK, Records
      <3>2. Last(lines[n]) = lines[n][Len(lines[n])] /\ Len(lines[n]) \in 1..Len(lines[n])
            /\ Last(lines[n]) \in 1..MaxSnapshots
        BY <3>1, LastOfRecords
      <3>3. Last(lines[n]) <= record
        BY <3>2 DEF AtMost
      <3>4. r <= record
        BY ChainAssumption, <3>1, <3>2, <3>3
      <3> QED
        BY <1>2, <2>1, <3>4 DEF Reached
    <2>2. CASE m # n
      BY <1>2, <1>3, <2>2 DEF Reached
    <2> QED
      BY <2>1, <2>2
  <1>4. Reached(n, record)'
    BY ChainAssumption, <1>2 DEF Reached
  <1>5. ASSUME NEW m \in Streams
        PROVE  PlanOrder(m)'
    <2>1. inputs[m] \in 0..MaxSnapshots /\ planned[m] \in 0..MaxSnapshots
      BY <1>1 DEF ChainTypeOK
    <2>2. PlanOrder(m)
      BY DEF ChainInv
    <2>3. inputs'[m] = inputs[m] /\ planned'[m] = planned[m]
      OBVIOUS
    <2>4. Reached(m, inputs[m]) => (lines'[m] # <<>> /\ inputs[m] <= Last(lines'[m]))
      BY <1>3, <2>1 DEF Reached
    <2>5. Reached(m, planned[m]) => (lines'[m] # <<>> /\ planned[m] <= Last(lines'[m]))
      BY <1>3, <2>1 DEF Reached
    <2> QED
      BY <2>2, <2>3, <2>4, <2>5 DEF PlanOrder, Reached
  <1> QED
    BY <1>2, <1>3, <1>4, <1>5 DEF AtMost

\* The stages that only read what was appended to, or nothing of it.
LEMMA ReadersKeepOrder ==
  ASSUME ChainInv, NEW n \in Streams, NEW record \in 1..MaxSnapshots,
         AppendTo(n, record), AtMost(lines[n], record),
         UNCHANGED <<read_to, inputs, planned>>,
         NEW s \in Stages, s # n, batch'[s] = batch[s]
  PROVE  StageOrder(s)'
  <1> DEFINE f == Feeds[s]
             t == TailerOf(s)
  <1>1. /\ s \in Streams /\ f \in Streams /\ f # s /\ t \in Tailers /\ t[2] = f
        /\ ChainTypeOK /\ StageOrder(s)
    BY ChainNames DEF ChainInv
  <1>2. /\ lines[s] \in Records /\ batch[s] \in Records /\ lines[n] \in Records
        /\ \A i \in 1..Len(lines[s]) : lines[s][i] \in 0..MaxSnapshots
        /\ \A i \in 1..Len(batch[s]) : batch[s][i] \in 0..MaxSnapshots
    <2>1. lines[s] \in Records /\ batch[s] \in Records /\ lines[n] \in Records
      BY <1>1 DEF ChainTypeOK, Records
    <2>2. \A q \in Records : \A i \in 1..Len(q) : q[i] \in 0..MaxSnapshots
      BY ChainAssumption DEF Records
    <2> QED
      BY <2>1, <2>2
  <1>3. /\ lines'[s] = lines[s]
        /\ \A m \in Streams : \A r \in 0..MaxSnapshots : Reached(m, r) => Reached(m, r)'
        /\ \A m \in Streams \ {n} : lines'[m] = lines[m] /\ epoch'[m] = epoch[m]
    BY <1>1, AppendKeeps
  <1>4. \A i \in 1..Len(Unread(t)') :
           \/ f = n /\ Unread(t)'[i] = record
           \/ \E j \in 1..Len(Unread(t)) : Unread(t)'[i] = Unread(t)[j]
    <2>1. CASE f = n
      BY <1>1, <2>1, UnreadGrows
    <2>2. CASE f # n
      <3>1. Unread(t)' = Unread(t)
        BY <1>1, <1>3, <2>2 DEF Unread
      <3> QED
        BY <3>1
    <2> QED
      BY <2>1, <2>2
  <1>5. ASSUME NEW r \in 0..MaxSnapshots, Reached(n, r)
        PROVE  r <= record
    <2>1. Last(lines[n]) = lines[n][Len(lines[n])] /\ Len(lines[n]) \in 1..Len(lines[n])
          /\ Last(lines[n]) \in 1..MaxSnapshots
      BY <1>2, <1>5, LastOfRecords DEF Reached
    <2> QED
      BY ChainAssumption, <1>5, <2>1 DEF Reached, AtMost
  <1>6. NotAfter(lines[s], Unread(t))'
    BY <1>1, <1>2, <1>3, <1>4, <1>5 DEF NotAfter, StageOrder, AllReached
  <1>7. NotAfter(batch[s], Unread(t))'
    BY <1>1, <1>2, <1>4, <1>5 DEF NotAfter, StageOrder, AllReached
  <1>8. AllReached(f, lines[s])' /\ AllReached(f, batch[s])'
    BY <1>1, <1>2, <1>3 DEF StageOrder, AllReached, Reached
  <1> QED
    BY <1>1, <1>3, <1>6, <1>7, <1>8 DEF StageOrder, Ascending, NotAfter

-----------------------------------------------------------------------------
(* The steps *)

LEMMA FaultsAreFew ==
  ASSUME ChainTypeOK, Faulted
  PROVE  faults' \in 0..MaxFaults /\ faulted' \in 0..MaxSnapshots
  <1>1. lines["snapshot"] \in Records
    BY ChainNames DEF ChainTypeOK, Records, Streams
  <1>2. Newest \in 0..MaxSnapshots
    BY ChainAssumption, <1>1, LastOfRecords DEF Newest
  <1> QED
    BY ChainAssumption, <1>2 DEF Faulted, ChainTypeOK

LEMMA CollectsKeeps == ASSUME ChainInv, Collects PROVE ChainInv'
  <1> DEFINE l == lines["snapshot"]
             record == Newest + 1
  <1>1. /\ ChainTypeOK /\ "snapshot" \in Streams /\ l \in Records /\ Ascending(l)
        /\ \A s \in Stages : s # "snapshot"
    BY ChainNames DEF ChainInv, ChainTypeOK, Records, Streams
  <1>2. record \in 1..MaxSnapshots /\ AtMost(l, record)
    <2>1. CASE l = <<>>
      BY ChainAssumption, <2>1 DEF Collects, Newest, AtMost
    <2>2. CASE l # <<>>
      BY ChainAssumption, <1>1, <2>2, LastOfRecords DEF Collects, Newest, AtMost, Records
    <2> QED
      BY <2>1, <2>2
  <1>3. /\ AppendTo("snapshot", record)
        /\ UNCHANGED <<read_to, batch, polling, booting, changed, inputs, planned, faults, faulted>>
    BY DEF Collects, NoFault
  <1> HIDE DEF record, l
  <1>4. /\ lines' \in [Streams -> Records] /\ epoch' \in [Streams -> Nat]
        /\ Ascending(lines'["snapshot"])
        /\ \A m \in Streams : PlanOrder(m)'
    BY <1>1, <1>2, <1>3, AppendKeeps DEF l
  <1>5. \A s \in Stages : StageOrder(s)'
    BY <1>1, <1>2, <1>3, ReadersKeepOrder DEF l
  <1>6. ChainTypeOK'
    BY <1>1, <1>3, <1>4 DEF ChainTypeOK, Records
  <1> QED
    BY <1>4, <1>5, <1>6 DEF ChainInv

\* What a stage has no more than read, or left unread, keeps the order of the rest.
LEMMA LessToTell ==
  ASSUME NEW q \in Records, NEW u \in Records, NEW s \in Streams,
         Ascending(q), NotAfter(q, u), AllReached(s, q), q # <<>>
  PROVE  /\ Head(q) \in 1..MaxSnapshots /\ Tail(q) \in Records /\ Ascending(Tail(q))
         /\ NotAfter(Tail(q), u) /\ AllReached(s, Tail(q)) /\ Reached(s, Head(q))
         /\ \A i \in 1..Len(Tail(q)) : Tail(q)[i] \in 1..MaxSnapshots /\ Head(q) <= Tail(q)[i]
         /\ \A i \in 1..Len(u) : Head(q) <= u[i]
         /\ \E i \in 1..Len(q) : Head(q) = q[i]
         /\ \A i \in 1..Len(Tail(q)) : \E j \in 1..Len(q) : Tail(q)[i] = q[j]
  <1>1. /\ Len(q) \in Nat \ {0} /\ Head(q) = q[1] /\ Tail(q) \in Records
        /\ Len(Tail(q)) = Len(q) - 1 /\ \A i \in 1..Len(Tail(q)) : Tail(q)[i] = q[i + 1]
    BY HeadTailProperties, ElementOfSeq, LenProperties, EmptySeq DEF Records
  <1>2. \A i \in 1..Len(Tail(q)) : i + 1 \in 1..Len(q) /\ 1 <= i + 1
    BY <1>1
  <1>3. 1 \in 1..Len(q)
    BY <1>1
  <1>4. \A i \in 1..Len(q) : q[i] \in 1..MaxSnapshots
    BY RecordsAre
  <1>5. Ascending(Tail(q))
    <2>1. \A i, j \in 1..Len(Tail(q)) : i <= j => i + 1 <= j + 1
      BY <1>1
    <2> QED
      BY <1>1, <1>2, <2>1 DEF Ascending
  <1> QED
    BY <1>1, <1>2, <1>3, <1>4, <1>5 DEF NotAfter, AllReached, Ascending

LEMMA StageAppendsKeeps ==
  ASSUME ChainInv, NEW s \in Stages, StageAppends(s) PROVE ChainInv'
  <1> DEFINE f == Feeds[s]
             t == TailerOf(s)
             q == batch[s]
             record == Head(q)
             u == Unread(t)
  <1>1. /\ s \in Streams /\ f \in Streams /\ f # s /\ t \in Tailers /\ t[2] = f
        /\ s # "snapshot" /\ ChainTypeOK /\ StageOrder(s)
    BY ChainNames DEF ChainInv
  <1>2. q \in Records /\ u \in Records /\ lines[s] \in Records /\ q # <<>>
    BY <1>1, UnreadIsEnd DEF ChainTypeOK, Records, StageAppends
  <1>3. /\ AppendTo(s, record) /\ batch' = [batch EXCEPT ![s] = Tail(q)]
        /\ UNCHANGED <<read_to, polling, booting, changed, inputs, planned, faults, faulted>>
    BY DEF StageAppends, NoFault
  <1>4. Ascending(q) /\ NotAfter(q, u) /\ AllReached(f, q) /\ AllReached(f, lines[s])
    BY <1>1 DEF StageOrder
  <1>5. /\ record \in 1..MaxSnapshots /\ Tail(q) \in Records /\ Ascending(Tail(q))
        /\ NotAfter(Tail(q), u) /\ AllReached(f, Tail(q)) /\ Reached(f, record)
        /\ \A i \in 1..Len(Tail(q)) : record <= Tail(q)[i]
        /\ \A i \in 1..Len(u) : record <= u[i]
        /\ \E i \in 1..Len(q) : record = q[i]
        /\ \A i \in 1..Len(Tail(q)) : \E j \in 1..Len(q) : Tail(q)[i] = q[j]
    <2> HIDE DEF q, u, f
    <2> QED
      BY <1>1, <1>2, <1>4, LessToTell
  <1>6. AtMost(lines[s], record)
    BY <1>1, <1>5 DEF StageOrder, NotAfter, AtMost
  <1> HIDE DEF record
  <1>7. /\ lines' \in [Streams -> Records] /\ epoch' \in [Streams -> Nat]
        /\ \A m \in Streams : \A r \in 0..MaxSnapshots : Reached(m, r) => Reached(m, r)'
        /\ \A i \in 1..Len(lines'[s]) : lines'[s][i] <= record
        /\ Ascending(lines'[s])
        /\ \A m \in Streams \ {s} : lines'[m] = lines[m] /\ epoch'[m] = epoch[m]
        /\ \A m \in Streams : PlanOrder(m)'
    BY <1>1, <1>3, <1>5, <1>6, AppendKeeps
  <1>8. ChainTypeOK'
    BY <1>1, <1>3, <1>5, <1>7 DEF ChainTypeOK, Records
  <1>9. \A other \in Stages \ {s} : StageOrder(other)'
    <2>1. \A other \in Stages \ {s} : batch'[other] = batch[other]
      BY <1>1, <1>3 DEF ChainTypeOK
    <2> QED
      BY <1>3, <1>1, <1>5, <1>6, <2>1, ReadersKeepOrder
  <1>10. StageOrder(s)'
    <2>1. /\ batch'[s] = Tail(q) /\ Unread(t)' = u /\ lines'[f] = lines[f]
          /\ t' = t /\ f' = f
      BY <1>1, <1>3, <1>7 DEF ChainTypeOK, Unread
    <2>2. /\ \A i \in 1..Len(lines'[s]) : lines'[s][i] \in 1..MaxSnapshots
          /\ \A i \in 1..Len(Tail(q)) : Tail(q)[i] \in 1..MaxSnapshots
          /\ \A i \in 1..Len(u) : u[i] \in 1..MaxSnapshots
      <3>1. lines'[s] \in Records
        BY <1>1, <1>7
      <3> HIDE DEF q, u
      <3> QED
        BY <1>2, <1>5, <3>1, RecordsAre
    <2> HIDE DEF q, u
    <2>3. NotAfter(lines'[s], Tail(q)) /\ NotAfter(lines'[s], u)
      <3>1. \A i \in 1..Len(lines'[s]) : lines'[s][i] <= record
        BY <1>7
      <3>2. /\ \A i \in 1..Len(Tail(q)) : record <= Tail(q)[i]
            /\ \A i \in 1..Len(u) : record <= u[i]
            /\ record \in 1..MaxSnapshots
        BY <1>5
      <3>3. \A a, b, c \in 1..MaxSnapshots : a <= b /\ b <= c => a <= c
        BY ChainAssumption
      <3> QED
        BY <2>2, <3>1, <3>2, <3>3 DEF NotAfter
    <2>4. AllReached(f, lines[s])'
      <3>1. CASE lines'[s] = <<record>>
        BY <1>5, <2>1, <3>1 DEF AllReached, Reached
      <3>2. CASE lines'[s] = Append(lines[s], record)
        <4>1. \A i \in 1..Len(lines'[s]) :
                 \/ lines'[s][i] = record
                 \/ \E j \in 1..Len(lines[s]) : lines'[s][i] = lines[s][j]
          BY <1>2, <1>5, <3>2, AppendProperties DEF Records
        <4> QED
          BY <1>4, <1>5, <2>1, <4>1 DEF AllReached, Reached
      <3>3. lines'[s] = <<record>> \/ lines'[s] = Append(lines[s], record)
        BY <1>1, <1>3 DEF AppendTo, ChainTypeOK
      <3> QED
        BY <3>1, <3>2, <3>3
    <2>5. AllReached(f, batch[s])'
      BY <1>5, <2>1 DEF AllReached, Reached
    <2> QED
      BY <1>5, <1>7, <2>1, <2>3, <2>4, <2>5 DEF StageOrder, u
  <1>11. Ascending(lines'["snapshot"])
    BY <1>1, <1>7 DEF ChainInv, Streams
  <1> QED
    BY <1>7, <1>8, <1>9, <1>10, <1>11 DEF ChainInv

LEMMA StagePollsKeeps ==
  ASSUME ChainInv, NEW s \in Stages, StagePolls(s) PROVE ChainInv'
  <1> DEFINE f == Feeds[s]
             t == TailerOf(s)
             u == Unread(t)
  <1>1. /\ s \in Streams /\ f \in Streams /\ t \in Tailers /\ t[2] = f /\ ChainTypeOK
        /\ \A other \in Stages : StageOrder(other)
        /\ \A other \in Stages \ {s} : TailerOf(other) \in Tailers \ {t}
    BY ChainNames DEF ChainInv
  <1>2. /\ batch' = [batch EXCEPT ![s] = u]
        /\ read_to' = [read_to EXCEPT ![t] = AtEnd(t[2])]
        /\ UNCHANGED <<lines, epoch, polling, booting, changed, inputs, planned, faults, faulted>>
    BY DEF StagePolls, NoFault, TailerOf
  <1>3. /\ Unread(t)' = <<>> /\ read_to' \in [Tailers -> [epoch : Nat, lines : Nat]]
        /\ \A other \in Tailers \ {t} : Unread(other)' = Unread(other)
    BY <1>1, <1>2, NothingUnread
  <1>4. /\ u \in Records /\ (lines[f] # <<>> => Ascending(u))
        /\ \A i \in 1..Len(u) : \E j \in 1..Len(lines[f]) : u[i] = lines[f][j]
    BY <1>1, UnreadIsEnd, StreamsAscend
  <1>5. Ascending(u) /\ AllReached(f, u)
    <2>1. lines[f] \in Records /\ Ascending(lines[f])
      BY <1>1, StreamsAscend DEF ChainTypeOK, Records
    <2>2. lines[f] # <<>> => AtMost(lines[f], Last(lines[f]))
      BY <2>1, LastOfRecords
    <2>3. Ascending(u)
      BY <1>1, <2>1, UnreadIsEnd
    <2>4. Len(lines[f]) = 0 => lines[f] = <<>>
      BY <2>1, EmptySeq DEF Records
    <2>5. ASSUME NEW i \in 1..Len(u) PROVE Reached(f, u[i])
      <3>1. PICK j \in 1..Len(lines[f]) : u[i] = lines[f][j]
        BY <1>4
      <3>2. lines[f] # <<>>
        BY <3>1
      <3> HIDE DEF u
      <3> QED
        BY <2>2, <3>1, <3>2 DEF AtMost, Reached
    <2> QED
      BY <2>3, <2>5 DEF AllReached
  <1> HIDE DEF u, t
  <1>6. /\ batch'[s] = u /\ \A other \in Stages \ {s} : batch'[other] = batch[other]
        /\ batch' \in [Stages -> Records]
    BY <1>1, <1>2, <1>4 DEF ChainTypeOK, Records
  <1>7. StageOrder(s)'
    <2>1. /\ Ascending(lines[s]) /\ NotAfter(lines[s], u) /\ AllReached(f, lines[s])
      BY <1>1 DEF StageOrder, u, t
    <2>2. /\ NotAfter(lines[s], Unread(t)') /\ NotAfter(u, Unread(t)')
      BY <1>3 DEF NotAfter
    <2> QED
      BY <1>2, <1>5, <1>6, <2>1, <2>2 DEF StageOrder, t, AllReached, Reached
  <1>8. \A other \in Stages \ {s} : StageOrder(other)'
    BY <1>1, <1>2, <1>3, <1>6 DEF StageOrder, AllReached, Reached
  <1>9. \A n \in Streams : PlanOrder(n)'
    BY <1>2 DEF ChainInv, PlanOrder, Reached
  <1>10. ChainTypeOK' /\ Ascending(lines'["snapshot"])
    BY <1>1, <1>2, <1>3, <1>6 DEF ChainInv, ChainTypeOK, Records
  <1> QED
    BY <1>7, <1>8, <1>9, <1>10 DEF ChainInv

LEMMA StageLosesKeeps ==
  ASSUME ChainInv, NEW s \in Stages, StageLoses(s) PROVE ChainInv'
  <1> DEFINE f == Feeds[s]
             q == batch[s]
             u == Unread(TailerOf(s))
  <1>1. /\ s \in Streams /\ f \in Streams /\ TailerOf(s) \in Tailers /\ ChainTypeOK
        /\ \A other \in Stages : StageOrder(other)
    BY ChainNames DEF ChainInv
  <1>2. /\ batch' = [batch EXCEPT ![s] = Tail(q)] /\ Faulted
        /\ UNCHANGED <<lines, epoch, read_to, polling, booting, changed, inputs, planned>>
    BY DEF StageLoses
  <1>3. q \in Records /\ u \in Records /\ q # <<>>
    BY <1>1, UnreadIsEnd DEF ChainTypeOK, Records, StageLoses
  <1>4. /\ Tail(q) \in Records /\ Ascending(Tail(q)) /\ NotAfter(Tail(q), u)
        /\ AllReached(f, Tail(q)) /\ \A i \in 1..Len(Tail(q)) : \E j \in 1..Len(q) : Tail(q)[i] = q[j]
    <2>1. Ascending(q) /\ NotAfter(q, u) /\ AllReached(f, q)
      BY <1>1 DEF StageOrder
    <2> HIDE DEF q, u, f
    <2> QED
      BY <1>1, <1>3, <2>1, LessToTell
  <1>5. /\ batch'[s] = Tail(q) /\ \A other \in Stages \ {s} : batch'[other] = batch[other]
        /\ batch' \in [Stages -> Records]
    BY <1>1, <1>2, <1>4 DEF ChainTypeOK, Records
  <1>6. \A t \in Tailers : Unread(t)' = Unread(t)
    BY <1>2 DEF Unread
  <1>7. StageOrder(s)'
    <2>1. /\ Ascending(lines[s]) /\ NotAfter(lines[s], q) /\ NotAfter(lines[s], u)
          /\ AllReached(f, lines[s])
      BY <1>1 DEF StageOrder
    <2>2. NotAfter(lines[s], Tail(q))
      <3> HIDE DEF q
      <3> QED
        BY <1>4, <2>1 DEF NotAfter
    <2>3. Unread(TailerOf(s))' = u
      BY <1>1, <1>6
    <2> HIDE DEF q, u
    <2> QED
      BY <1>2, <1>4, <1>5, <2>1, <2>2, <2>3 DEF StageOrder, AllReached, Reached
  <1>8. \A other \in Stages \ {s} : StageOrder(other)'
    BY <1>1, <1>2, <1>5, <1>6, ChainNames DEF StageOrder, AllReached, Reached
  <1>9. \A n \in Streams : PlanOrder(n)'
    BY <1>2 DEF ChainInv, PlanOrder, Reached
  <1>10. faults' \in 0..MaxFaults /\ faulted' \in 0..MaxSnapshots
    BY <1>1, <1>2, FaultsAreFew
  <1>11. ChainTypeOK' /\ Ascending(lines'["snapshot"])
    BY <1>1, <1>2, <1>5, <1>10 DEF ChainInv, ChainTypeOK, Records
  <1> QED
    BY <1>7, <1>8, <1>9, <1>11 DEF ChainInv

LEMMA StageRestartsKeeps ==
  ASSUME ChainInv, NEW s \in Stages, StageRestarts(s) PROVE ChainInv'
  <1> DEFINE f == Feeds[s]
             t == TailerOf(s)
  <1>1. /\ s \in Streams /\ f \in Streams /\ t \in Tailers /\ t[2] = f /\ ChainTypeOK
        /\ \A other \in Stages : StageOrder(other)
        /\ \A other \in Stages \ {s} : TailerOf(other) \in Tailers \ {t}
    BY ChainNames DEF ChainInv
  <1>2. /\ batch' = [batch EXCEPT ![s] = <<>>] /\ Faulted
        /\ read_to' = [read_to EXCEPT ![t] = AtEnd(t[2])]
        /\ UNCHANGED <<lines, epoch, polling, booting, changed, inputs, planned>>
    BY DEF StageRestarts, TailerOf
  <1>3. /\ Unread(t)' = <<>> /\ read_to' \in [Tailers -> [epoch : Nat, lines : Nat]]
        /\ \A other \in Tailers \ {t} : Unread(other)' = Unread(other)
    BY <1>1, <1>2, NothingUnread
  <1> HIDE DEF t
  <1>4. /\ batch'[s] = <<>> /\ \A other \in Stages \ {s} : batch'[other] = batch[other]
        /\ batch' \in [Stages -> Records]
    BY <1>1, <1>2 DEF ChainTypeOK, Records
  <1>5. StageOrder(s)'
    <2>1. Ascending(lines[s]) /\ AllReached(f, lines[s])
      BY <1>1 DEF StageOrder
    <2> QED
      BY <1>2, <1>3, <1>4, <2>1 DEF StageOrder, AllReached, Reached, NotAfter, Ascending, t
  <1>6. \A other \in Stages \ {s} : StageOrder(other)'
    BY <1>1, <1>2, <1>3, <1>4 DEF StageOrder, AllReached, Reached
  <1>7. \A n \in Streams : PlanOrder(n)'
    BY <1>2 DEF ChainInv, PlanOrder, Reached
  <1>8. faults' \in 0..MaxFaults /\ faulted' \in 0..MaxSnapshots
    BY <1>1, <1>2, FaultsAreFew
  <1>9. ChainTypeOK' /\ Ascending(lines'["snapshot"])
    BY <1>1, <1>2, <1>3, <1>4, <1>8 DEF ChainInv, ChainTypeOK, Records
  <1> QED
    BY <1>5, <1>6, <1>7, <1>9 DEF ChainInv

\* What Stage 4 takes is the last that the stream has told of.
LEMMA PlanPollsKeeps ==
  ASSUME ChainInv, NEW n \in Streams, PlanPolls(n) PROVE ChainInv'
  <1> DEFINE t == <<"plan", n>>
             u == Unread(t)
  <1>1. /\ t \in Tailers /\ t[2] = n /\ ChainTypeOK
        /\ \A s \in Stages : TailerOf(s) \in Tailers \ {t} /\ StageOrder(s)
        /\ \A m \in Streams : PlanOrder(m)
    BY ChainNames DEF ChainInv
  <1>2. /\ \/ u # <<>> /\ inputs' = [inputs EXCEPT ![n] = Last(u)] /\ changed' = TRUE
           \/ UNCHANGED <<inputs, changed>>
        /\ polling' = AfterTailer[n] /\ read_to' = [read_to EXCEPT ![t] = AtEnd(t[2])]
        /\ UNCHANGED <<lines, epoch, batch, booting, planned, faults, faulted>>
    BY DEF PlanPolls, NoFault
  <1>3. /\ read_to' \in [Tailers -> [epoch : Nat, lines : Nat]]
        /\ \A other \in Tailers \ {t} : Unread(other)' = Unread(other)
    BY <1>1, <1>2, NothingUnread
  <1>4. u # <<>> => lines[n] # <<>> /\ Last(u) = Last(lines[n]) /\ Last(u) \in 1..MaxSnapshots
    BY <1>1, UnreadIsEnd, LastOfRecords
  <1> HIDE DEF u, t
  <1>5. /\ inputs' \in [Streams -> 0..MaxSnapshots]
        /\ \A m \in Streams \ {n} : inputs'[m] = inputs[m]
        /\ inputs'[n] # inputs[n] => lines[n] # <<>> /\ inputs'[n] = Last(lines[n])
                                     /\ inputs'[n] \in 1..MaxSnapshots
    BY <1>1, <1>2, <1>4 DEF ChainTypeOK
  <1>6. \A m \in Streams : PlanOrder(m)'
    <2>1. \A m \in Streams : planned'[m] = planned[m] /\ planned[m] \in 0..MaxSnapshots
      BY <1>1, <1>2 DEF ChainTypeOK
    <2>2. \A m \in Streams \ {n} : PlanOrder(m)'
      BY <1>1, <1>2, <1>5 DEF PlanOrder, Reached
    <2>3. PlanOrder(n)'
      BY ChainAssumption, <1>1, <1>2, <1>5, <2>1 DEF PlanOrder, Reached
    <2> QED
      BY <2>2, <2>3
  <1>7. \A s \in Stages : StageOrder(s)'
    BY <1>1, <1>2, <1>3 DEF StageOrder, AllReached, Reached
  <1>8. polling' \in Streams \union {"emit"} /\ changed' \in BOOLEAN
    <2>1. AfterTailer[n] \in Streams \union {"emit"}
      BY DEF AfterTailer, Streams
    <2>2. changed' \in BOOLEAN
      BY <1>1, <1>2 DEF ChainTypeOK
    <2> QED
      BY <1>2, <2>1, <2>2
  <1>9. ChainTypeOK' /\ Ascending(lines'["snapshot"])
    BY <1>1, <1>2, <1>3, <1>5, <1>8 DEF ChainInv, ChainTypeOK
  <1> QED
    BY <1>6, <1>7, <1>9 DEF ChainInv

LEMMA PlanEmitsKeeps ==
  ASSUME ChainInv, PlanEmits \/ PlanLoses PROVE ChainInv'
  <1>1. /\ planned' = planned \/ (Ready /\ planned' = inputs)
        /\ AfterEmit /\ (NoFault \/ Faulted)
        /\ UNCHANGED <<lines, epoch, read_to, batch, inputs>>
    BY DEF PlanEmits, PlanLoses
  <1>2. ChainTypeOK /\ faults' \in 0..MaxFaults /\ faulted' \in 0..MaxSnapshots
    BY <1>1, FaultsAreFew DEF ChainInv, ChainTypeOK, NoFault
  <1>3. ChainTypeOK'
    BY <1>1, <1>2 DEF ChainTypeOK, AfterEmit, Streams
  <1>4. \A n \in Streams : PlanOrder(n)'
    BY ChainAssumption, <1>1, <1>2 DEF ChainInv, PlanOrder, Reached, Ready, ChainTypeOK
  <1>5. \A s \in Stages : StageOrder(s)'
    BY <1>1 DEF ChainInv, StageOrder, AllReached, Reached, Unread
  <1> QED
    BY <1>1, <1>3, <1>4, <1>5 DEF ChainInv

LEMMA PlanRestartsKeeps ==
  ASSUME ChainInv, PlanRestarts PROVE ChainInv'
  <1>1. /\ Faulted /\ polling' = "snapshot" /\ booting' = TRUE /\ changed' = FALSE
        /\ inputs' = [n \in Streams |-> 0]
        /\ read_to' = [t \in Tailers |-> IF t[1] = "plan" THEN AtNothing ELSE read_to[t]]
        /\ UNCHANGED <<lines, epoch, batch, planned>>
    BY DEF PlanRestarts
  <1>2. ChainTypeOK /\ faults' \in 0..MaxFaults /\ faulted' \in 0..MaxSnapshots
    BY <1>1, FaultsAreFew DEF ChainInv
  <1>3. ChainTypeOK'
    <2>1. AtNothing \in [epoch : Nat, lines : Nat]
      BY DEF AtNothing
    <2>2. read_to' \in [Tailers -> [epoch : Nat, lines : Nat]]
      BY <1>1, <1>2, <2>1 DEF ChainTypeOK
    <2>3. inputs' \in [Streams -> 0..MaxSnapshots] /\ "snapshot" \in Streams
      BY ChainAssumption, <1>1 DEF Streams
    <2> QED
      BY <1>1, <1>2, <2>2, <2>3 DEF ChainTypeOK
  <1>4. \A n \in Streams : PlanOrder(n)'
    BY <1>1 DEF ChainInv, PlanOrder, Reached
  <1>5. \A s \in Stages : StageOrder(s)'
    <2>1. \A s \in Stages : Unread(TailerOf(s))' = Unread(TailerOf(s))
      BY <1>1, ChainNames DEF Unread
    <2> QED
      BY <1>1, <2>1 DEF ChainInv, StageOrder, AllReached, Reached
  <1> QED
    BY <1>1, <1>3, <1>4, <1>5 DEF ChainInv

LEMMA ChainStarts == ChainInit => ChainInv
  <1> SUFFICES ASSUME ChainInit PROVE ChainInv
    OBVIOUS
  <1>1. <<>> \in Records
    BY EmptySeq DEF Records
  <1>2. ChainTypeOK
    <2>1. AtNothing \in [epoch : Nat, lines : Nat]
      BY DEF AtNothing
    <2>2. read_to \in [Tailers -> [epoch : Nat, lines : Nat]]
      BY <2>1 DEF ChainInit
    <2>3. /\ "snapshot" \in Streams /\ faults \in 0..MaxFaults /\ faulted \in 0..MaxSnapshots
          /\ {inputs, planned} \subseteq [Streams -> 0..MaxSnapshots]
      BY ChainAssumption DEF ChainInit, Streams
    <2>4. /\ lines \in [Streams -> Seq(1..MaxSnapshots)] /\ epoch \in [Streams -> Nat]
          /\ batch \in [Stages -> Seq(1..MaxSnapshots)]
      BY <1>1 DEF ChainInit, Records
    <2> QED
      BY <2>2, <2>3, <2>4 DEF ChainInit, ChainTypeOK
  <1>3. \A n \in Streams : PlanOrder(n) /\ lines[n] = <<>>
    BY DEF ChainInit, PlanOrder
  <1>4. \A s \in Stages : StageOrder(s)
    BY <1>3, ChainNames DEF ChainInit, StageOrder, Ascending, NotAfter, AllReached
  <1> QED
    BY <1>2, <1>3, <1>4, ChainNames DEF ChainInv, Ascending, Streams

LEMMA ChainStep == ChainInv /\ [ChainNext]_chainVars => ChainInv'
  <1> SUFFICES ASSUME ChainInv, [ChainNext]_chainVars PROVE ChainInv'
    OBVIOUS
  <1>1. CASE Collects
    BY <1>1, CollectsKeeps
  <1>2. CASE PlanRuns
    BY <1>2, PlanEmitsKeeps, PlanPollsKeeps DEF PlanRuns
  <1>3. CASE PlanLoses
    BY <1>3, PlanEmitsKeeps
  <1>4. CASE PlanRestarts
    BY <1>4, PlanRestartsKeeps
  <1>5. ASSUME NEW s \in Stages, StageRuns(s) \/ StageLoses(s) \/ StageRestarts(s)
        PROVE  ChainInv'
    BY <1>5, StagePollsKeeps, StageAppendsKeeps, StageLosesKeeps, StageRestartsKeeps
       DEF StageRuns
  <1>6. CASE UNCHANGED chainVars
    BY <1>6 DEF chainVars, ChainInv, ChainTypeOK, StageOrder, PlanOrder, AllReached,
                Reached, Unread
  <1> QED
    BY <1>1, <1>2, <1>3, <1>4, <1>5, <1>6 DEF ChainNext

\* The streams, the positions of the tailers and what Stage 4 holds keep their
\* types, through restarts, lost appends and rotations (Stages 1 to 4).
THEOREM ChainTypeCorrect == ChainSpec => []ChainTypeOK
  <1>1. ChainInv => ChainTypeOK
    BY DEF ChainInv
  <1> QED
    BY ChainStarts, ChainStep, <1>1, PTL DEF ChainSpec

\* No plan of the stream is made of an older snapshot, state or mode than the one
\* before it, whatever is restarted, lost or rotated (emit_if_ready).
THEOREM PlansAdvance == ChainSpec => PlanInputsOnlyAdvance
  <1>1. ChainInv /\ [ChainNext]_chainVars
          => [\A n \in Streams : planned'[n] >= planned[n]]_planned
    <2> SUFFICES ASSUME ChainInv, ChainNext, planned' # planned
                 PROVE  \A n \in Streams : planned'[n] >= planned[n]
      BY DEF chainVars
    <2>1. Ready /\ planned' = inputs
      BY DEF ChainNext, Collects, PlanRuns, PlanEmits, PlanPolls, PlanLoses, PlanRestarts,
             StageRuns, StagePolls, StageAppends, StageLoses, StageRestarts
    <2>2. \A n \in Streams : inputs[n] \in Nat /\ planned[n] \in Nat
      BY ChainAssumption DEF ChainInv, ChainTypeOK
    <2> QED
      BY <2>1, <2>2 DEF Ready, ChainInv, PlanOrder
  <1> QED
    BY ChainStarts, ChainStep, <1>1, PTL DEF ChainSpec, PlanInputsOnlyAdvance

-----------------------------------------------------------------------------
(* The grid leans against the inventory *)

GridSpec == EngineInit /\ [][Build]_engine

LEMMA ClampGrows ==
  ASSUME NEW low \in Int, NEW high \in Int, low <= high,
         NEW x \in Int, NEW y \in Int, x <= y
  PROVE  Clamp(x, low, high) \in Int /\ Clamp(x, low, high) <= Clamp(y, low, high)
  BY DEF Clamp

LEMMA ShareGrows ==
  ASSUME NEW units \in Nat, NEW x \in Int, NEW y \in Int, x <= y
  PROVE  /\ (x * units) \div 100 \in Int /\ (y * units) \div 100 \in Int
         /\ (x * units) \div 100 <= (y * units) \div 100
  <1>1. x * units \in Int /\ y * units \in Int /\ x * units <= y * units
    OBVIOUS
  <1>2. \A a, b \in Int : a <= b => a \div 100 \in Int /\ b \div 100 \in Int
                                    /\ a \div 100 <= b \div 100
    OBVIOUS
  <1> QED
    BY <1>1, <1>2

\* Whatever the direction asks for (calculate_final_center), and wherever the
\* clamps cut in (calculate_allocation_bias).
LEMMA MoreLeansLower ==
  ASSUME NEW in \in Input, NEW more \in Input, in.mode \in WorkingMode,
         more = [in EXCEPT !.ratio = more.ratio], in.ratio <= more.ratio
  PROVE  Center(more) <= Center(in) /\ BuyAllocation(more) <= BuyAllocation(in)
  <1> DEFINE few == Clamp(in.ratio, -100, 100)
             many == Clamp(more.ratio, -100, 100)
  <1>1. /\ {in.direction, in.ratio, in.reference, more.ratio} \subseteq Int
        /\ more.mode = in.mode /\ more.direction = in.direction
        /\ more.reference = in.reference
    <2>1. \A r \in Int : [in EXCEPT !.ratio = r] \in Input
      BY DEF Input
    <2> QED
      BY <2>1 DEF Input
  <1>2. few \in Int /\ many \in Int /\ few <= many
    BY <1>1 DEF Clamp
  <1>3. /\ {MaxDirectionShift, MaxInventoryShift, MaxTotalShift} \subseteq Nat
        /\ {DirectionalBias, InventoryStrength, MaxBias, MinSide, MaxSide} \subseteq 0..100
        /\ MinSide <= MaxSide
    BY GridAssumption
  <1> HIDE DEF few, many
  <1>4. Center(more) <= Center(in)
    <2>1. DirectionShift(more) = DirectionShift(in) /\ DirectionShift(in) \in Int
      <3>1. Clamp(in.direction, -100, 100) \in Int
        BY <1>1 DEF Clamp
      <3>2. (Clamp(in.direction, -100, 100) * MaxDirectionShift) \div 100 \in Int
        BY <1>3, <3>1, ShareGrows
      <3> QED
        BY <1>1, <3>2 DEF DirectionShift
    <2>2. /\ InventoryShift(in) \in Int /\ InventoryShift(more) \in Int
          /\ InventoryShift(more) <= InventoryShift(in)
      <3>1. /\ (few * MaxInventoryShift) \div 100 \in Int
            /\ (many * MaxInventoryShift) \div 100 \in Int
            /\ (few * MaxInventoryShift) \div 100 <= (many * MaxInventoryShift) \div 100
        BY <1>2, <1>3, ShareGrows
      <3>2. /\ InventoryShift(in) = - ((few * MaxInventoryShift) \div 100)
            /\ InventoryShift(more) = - ((many * MaxInventoryShift) \div 100)
        BY DEF InventoryShift, few, many
      <3>3. \A a, b \in Int : a <= b => -a \in Int /\ -b \in Int /\ -b <= -a
        OBVIOUS
      <3> QED
        BY <3>1, <3>2, <3>3
    <2> DEFINE x == DirectionShift(more) + InventoryShift(more)
               y == DirectionShift(in) + InventoryShift(in)
    <2>3. x \in Int /\ y \in Int /\ x <= y
      BY <2>1, <2>2
    <2>4. -MaxTotalShift \in Int /\ MaxTotalShift \in Int /\ -MaxTotalShift <= MaxTotalShift
      BY <1>3
    <2> HIDE DEF x, y
    <2>5. /\ Clamp(x, -MaxTotalShift, MaxTotalShift) <= Clamp(y, -MaxTotalShift, MaxTotalShift)
          /\ Clamp(x, -MaxTotalShift, MaxTotalShift) \in Int
          /\ Clamp(y, -MaxTotalShift, MaxTotalShift) \in Int
      BY <2>3, <2>4, ClampGrows
    <2> QED
      BY <1>1, <2>5 DEF Center, x, y
  <1>5. BuyAllocation(more) <= BuyAllocation(in)
    <2>1. AllocationBias(more.mode) = AllocationBias(in.mode) /\ AllocationBias(in.mode) \in Int
      BY <1>1, <1>3 DEF AllocationBias
    <2>2. /\ (few * InventoryStrength) \div 100 \in Int
          /\ (many * InventoryStrength) \div 100 \in Int
          /\ (few * InventoryStrength) \div 100 <= (many * InventoryStrength) \div 100
      BY <1>2, <1>3, ShareGrows
    <2> DEFINE x == AllocationBias(more.mode) - (many * InventoryStrength) \div 100
               y == AllocationBias(in.mode) - (few * InventoryStrength) \div 100
    <2>3. x \in Int /\ y \in Int /\ x <= y
      BY <2>1, <2>2
    <2>4. -MaxBias \in Int /\ MaxBias \in Int /\ -MaxBias <= MaxBias
      BY <1>3
    <2>5. NetBias(more) = Clamp(x, -MaxBias, MaxBias) /\ NetBias(in) = Clamp(y, -MaxBias, MaxBias)
      BY DEF NetBias, few, many
    <2> HIDE DEF x, y
    <2>6. NetBias(more) \in Int /\ NetBias(in) \in Int /\ NetBias(more) <= NetBias(in)
      BY <2>3, <2>4, <2>5, ClampGrows
    <2>7. \A a, b \in Int : a <= b =>
             100 - Clamp(100 - Clamp(50 + a \div 2, MinSide, MaxSide), MinSide, MaxSide)
               <= 100 - Clamp(100 - Clamp(50 + b \div 2, MinSide, MaxSide), MinSide, MaxSide)
      BY <1>3 DEF Clamp
    <2> QED
      BY <2>6, <2>7 DEF BuyAllocation
  <1> QED
    BY <1>4, <1>5

LEMMA EnabledPlan ==
  ASSUME NEW in \in Input, Built(in).enabled
  PROVE  in.mode \in WorkingMode /\ Built(in).center = Center(in) /\ Built(in).buy = BuyAllocation(in)
  BY DEF Built, DisabledPlan, Input

\* The last plan is that of the last input, but for what is said of its change.
PlanOfInput ==
    /\ input \in Inputs
    /\ previous_plan = [Built(input) EXCEPT !.significant = previous_plan.significant]

\* For every configuration and all inputs: with more inventory, and all else the
\* same, no plan has a higher center or buys with more of the capital
\* (calculate_final_center, calculate_allocation_bias).
THEOREM InventoryLeans == GridSpec => []LeansAgainstInventory
  <1>1. EngineInit => PlanOfInput
    BY DEF EngineInit, PlanOfInput, Built, DisabledPlan
  <1>2. PlanOfInput /\ [Build]_engine => PlanOfInput'
    <2>1. \A in : \A b : [Built(in) EXCEPT !.significant = b].significant = b
      BY DEF Built, DisabledPlan
    <2>2. CASE Build
      <3> DEFINE significant == PlanChangeSignificant(Built(input'), previous_plan)
      <3>1. previous_plan' = [Built(input') EXCEPT !.significant = significant]
        BY <2>2 DEF Build
      <3>2. input' \in Inputs
        BY <2>2 DEF Build
      <3> HIDE DEF significant
      <3>3. previous_plan'.significant = significant
        BY <2>1, <3>1
      <3> QED
        BY <3>1, <3>2, <3>3 DEF PlanOfInput
    <2>3. CASE UNCHANGED engine
      BY <2>3 DEF PlanOfInput, engine, Built, DisabledPlan
    <2> QED
      BY <2>2, <2>3
  <1>3. PlanOfInput => LeansAgainstInventory
    <2> SUFFICES ASSUME PlanOfInput, NEW more \in Inputs, previous_plan.enabled,
                        Built(more).enabled, input.ratio <= more.ratio,
                        more = [input EXCEPT !.ratio = more.ratio]
                 PROVE  /\ Built(more).center <= previous_plan.center
                        /\ Built(more).buy <= previous_plan.buy
      BY DEF LeansAgainstInventory
    <2>1. input \in Input /\ more \in Input
      BY GridAssumption DEF PlanOfInput
    <2>2. /\ previous_plan.enabled = Built(input).enabled
          /\ previous_plan.center = Built(input).center
          /\ previous_plan.buy = Built(input).buy
      BY DEF PlanOfInput, Built, DisabledPlan
    <2> QED
      BY <2>1, <2>2, EnabledPlan, MoreLeansLower
  <1> QED
    BY <1>1, <1>2, <1>3, PTL DEF GridSpec

-----------------------------------------------------------------------------
(* The configuration store *)

Writes == {"profile", "strategy", "controller", "history", "event"}

\* A configuration has its two halves and nothing else.
Bundled(bundle) ==
    /\ DOMAIN bundle = {"competition", "strategy"}
    /\ bundle = [competition |-> bundle.competition, strategy |-> bundle.strategy]

JobShape(job) ==
    job # NoJob =>
      /\ {"step", "bundle", "from"} \subseteq DOMAIN job
      /\ job.step \in {"read", "version"} \cup Writes
      /\ Bundled(job.bundle)
      /\ job.step \in Writes => "version" \in DOMAIN job /\ job.version \in Nat \ {0}

SessionShape(s) ==
    /\ {"open", "staged", "job"} \subseteq DOMAIN session[s]
    /\ Bundled(session[s].staged) /\ JobShape(session[s].job)

HasLargest(D) == \E m \in {0} \cup D : \A v \in D : v <= m

StoreShape ==
    /\ DOMAIN session = Sessions /\ \A s \in Sessions : SessionShape(s)
    /\ DOMAIN history \subseteq Nat \ {0} /\ HasLargest(DOMAIN history)
    /\ \A v \in DOMAIN history : Bundled(history[v].config)
    /\ \E T : events \in Seq(T)

\* No other apply has run since this one was begun.
Alone(s) == session[s].job # NoJob /\ s \notin overlapped

AloneIsAlone ==
    \A s \in Sessions : Alone(s) => \A t \in Sessions \ {s} : session[t].job = NoJob

\* How far an apply has come, and what of its bundle the files then hold.
Written(job) ==
    /\ job.step \in {"strategy", "controller", "history", "event"} =>
         profile = job.bundle.competition
    /\ job.step \in {"controller", "history", "event"} => strategy = job.bundle.strategy
    /\ job.step \in {"history", "event"} => controller = ControllerOf(profile)
    /\ job.step \in Writes \ {"event"} => job.version = Version + 1
    /\ job.step = "event" => job.version = Version /\ history[Version].config = job.bundle

AloneHasWritten == \A s \in Sessions : Alone(s) => Written(session[s].job)

\* While the files are those of a whole apply, no other one has begun to write.
WholeIsUntouched ==
    whole => \A s \in Sessions : session[s].job # NoJob =>
               session[s].job.step \in {"read", "version", "profile"}

EventHasVersion ==
    \A s \in Sessions : session[s].job # NoJob /\ session[s].job.step = "event" =>
      session[s].job.version \in DOMAIN history

StoreInv ==
    /\ StoreShape /\ AloneIsAlone /\ AloneHasWritten /\ WholeIsUntouched /\ EventHasVersion
    /\ LoneApplyMends /\ LoggedIsRecorded

\* The largest number of a history.
LEMMA LargestIs ==
  ASSUME NEW D \in SUBSET Nat, HasLargest(D)
  PROVE  /\ Max({0} \cup D) \in {0} \cup D /\ Max({0} \cup D) \in Nat
         /\ \A v \in D : v <= Max({0} \cup D)
  <1>1. PICK m \in {0} \cup D : \A v \in D : v <= m
    BY DEF HasLargest
  <1>2. \A v \in {0} \cup D : m >= v
    BY <1>1
  <1> DEFINE max == Max({0} \cup D)
  <1>3. max \in {0} \cup D /\ \A v \in {0} \cup D : max >= v
    BY <1>2 DEF Max
  <1> HIDE DEF max
  <1>4. {0} \cup D \subseteq Nat
    OBVIOUS
  <1>5. max \in Nat
    BY <1>3, <1>4
  <1>6. \A v \in D : v <= max
    BY <1>3, <1>4, <1>5
  <1> QED
    BY <1>3, <1>5, <1>6 DEF max

\* The number of the newest version: the number after it is one that is free.
LEMMA VersionIsLargest ==
  ASSUME StoreShape
  PROVE  /\ Version \in {0} \cup DOMAIN history /\ Version \in Nat
         /\ \A v \in DOMAIN history : v <= Version
  BY LargestIs DEF StoreShape, Version

\* What is saved is a configuration of two halves.
LEMMA SavedIsBundled == Bundled(Saved)
  BY DEF Bundled, Saved

\* Most operations write no file and begin no apply: they end one, bring it to
\* where it will write, or leave it where it is.
LEMMA QuietKeeps ==
  ASSUME StoreInv, UNCHANGED <<files, ghosts>>, DOMAIN session' = Sessions,
         \A s \in Sessions :
           /\ SessionShape(s)'
           /\ \/ session'[s].job = NoJob
              \/ session'[s].job = session[s].job
              \/ /\ session[s].job # NoJob
                 /\ session'[s].job.step \in {"read", "version", "profile"}
                 /\ session'[s].job.step = "profile" => session'[s].job.version = Version + 1
  PROVE  StoreInv'
  <1>1. /\ profile' = profile /\ strategy' = strategy /\ controller' = controller
        /\ history' = history /\ events' = events
        /\ overlapped' = overlapped /\ whole' = whole /\ Version' = Version
    BY DEF files, ghosts, Version
  <1>2. StoreShape'
    BY <1>1 DEF StoreInv, StoreShape
  <1>3. AloneIsAlone'
    BY <1>1 DEF StoreInv, AloneIsAlone, Alone
  <1>4. AloneHasWritten'
    <2> SUFFICES ASSUME NEW s \in Sessions, Alone(s)' PROVE Written(session[s].job)'
      BY DEF AloneHasWritten
    <2>1. Alone(s)
      BY <1>1 DEF Alone
    <2>2. CASE session'[s].job = session[s].job
      BY <1>1, <2>1, <2>2 DEF StoreInv, AloneHasWritten, Written, ControllerOf
    <2>3. CASE /\ session'[s].job.step \in {"read", "version", "profile"}
               /\ session'[s].job.step = "profile" => session'[s].job.version = Version + 1
      BY <1>1, <2>3 DEF Written, Writes
    <2> QED
      BY <2>2, <2>3 DEF Alone
  <1>5. WholeIsUntouched'
    BY <1>1 DEF StoreInv, WholeIsUntouched
  <1>6. EventHasVersion'
    BY <1>1 DEF StoreInv, EventHasVersion
  <1>7. LoneApplyMends' /\ LoggedIsRecorded'
    BY <1>1 DEF StoreInv, LoneApplyMends, LoggedIsRecorded, Saved, ControllerOf
  <1> QED
    BY <1>2, <1>3, <1>4, <1>5, <1>6, <1>7 DEF StoreInv

\* The sessions after one of them has changed.
LEMMA OthersStay ==
  ASSUME StoreShape, NEW s \in Sessions, NEW record, session' = [session EXCEPT ![s] = record]
  PROVE  /\ DOMAIN session' = Sessions /\ session'[s] = record
         /\ \A t \in Sessions \ {s} : session'[t] = session[t] /\ SessionShape(t)'
  <1>1. DOMAIN session' = Sessions /\ session'[s] = record
    BY DEF StoreShape
  <1>2. \A t \in Sessions \ {s} : session'[t] = session[t]
    BY DEF StoreShape
  <1>3. \A t \in Sessions \ {s} : SessionShape(t)'
    BY <1>2 DEF StoreShape, SessionShape
  <1> QED
    BY <1>1, <1>2, <1>3

\* What is staged is what was entered, and no apply of the session is running.
LEMMA StagingKeeps ==
  ASSUME StoreInv, NEW s \in Sessions, NEW bundle, Bundled(bundle), NEW open_,
         session' = [session EXCEPT ![s] = [open |-> open_, staged |-> bundle, job |-> NoJob]],
         UNCHANGED <<files, ghosts>>
  PROVE  StoreInv'
  <1>1. StoreShape
    BY DEF StoreInv
  <1>2. /\ DOMAIN session' = Sessions
        /\ session'[s] = [open |-> open_, staged |-> bundle, job |-> NoJob]
        /\ \A t \in Sessions \ {s} : session'[t] = session[t] /\ SessionShape(t)'
    BY <1>1, OthersStay
  <1>3. SessionShape(s)' /\ session'[s].job = NoJob
    BY <1>2 DEF SessionShape, JobShape, Bundled
  <1> QED
    BY <1>2, <1>3, QuietKeeps

LEMMA OpenKeeps == ASSUME StoreInv, NEW s \in Sessions, Open(s) PROVE StoreInv'
  BY StagingKeeps, SavedIsBundled DEF Open

LEMMA ResetKeeps == ASSUME StoreInv, NEW s \in Sessions, Reset(s) PROVE StoreInv'
  <1>1. StoreShape /\ SessionShape(s)
    BY DEF StoreInv, StoreShape
  <1>2. session' = [session EXCEPT ![s] = [session[s] EXCEPT !.staged = Saved]]
    BY DEF Reset
  <1>3. /\ DOMAIN session' = Sessions /\ session'[s] = [session[s] EXCEPT !.staged = Saved]
        /\ \A t \in Sessions \ {s} : session'[t] = session[t] /\ SessionShape(t)'
    BY <1>1, <1>2, OthersStay
  <1>4. SessionShape(s)' /\ session'[s].job = NoJob
    BY <1>1, <1>3, SavedIsBundled DEF SessionShape, JobShape, Bundled, Reset, Idle
  <1> QED
    BY <1>3, <1>4, QuietKeeps DEF Reset

LEMMA StageKeeps ==
  ASSUME StoreInv, NEW s \in Sessions, NEW bundle, Bundled(bundle), Stage(s, bundle)
  PROVE  StoreInv'
  <1>1. StoreShape /\ SessionShape(s)
    BY DEF StoreInv, StoreShape
  <1> DEFINE staged == IF Valid(bundle.competition) THEN bundle ELSE session[s].staged
  <1>2. /\ session' = [session EXCEPT ![s] = [session[s] EXCEPT !.staged = staged]]
        /\ Bundled(staged)
    BY <1>1 DEF Stage, SessionShape
  <1> HIDE DEF staged
  <1>3. /\ DOMAIN session' = Sessions /\ session'[s] = [session[s] EXCEPT !.staged = staged]
        /\ \A t \in Sessions \ {s} : session'[t] = session[t] /\ SessionShape(t)'
    BY <1>1, <1>2, OthersStay
  <1>4. SessionShape(s)' /\ session'[s].job = NoJob
    BY <1>1, <1>2, <1>3 DEF SessionShape, JobShape, Bundled, Stage, Idle
  <1> QED
    BY <1>3, <1>4, QuietKeeps DEF Stage

\* Whatever a page stages has the two halves of what was staged before.
LEMMA FormsKeep ==
  ASSUME StoreInv, NEW s \in Sessions,
         \/ StageStrategy(s) \/ StageRisk(s) \/ StageExecution(s) \/ StageAssets(s)
         \/ StageEnvironment(s) \/ StageTemplate(s)
  PROVE  StoreInv'
  <1>1. Bundled(session[s].staged)
    BY DEF StoreInv, StoreShape, SessionShape
  <1>2. PICK bundle : Stage(s, bundle) /\ Bundled(bundle)
    <2>1. CASE StageStrategy(s)
      BY <1>1, <2>1 DEF StageStrategy, Bundled
    <2>2. CASE StageRisk(s)
      BY <1>1, <2>2 DEF StageRisk, Bundled
    <2>3. CASE StageExecution(s)
      <3>1. PICK enabled \in BOOLEAN, risk \in Risks :
               Stage(s, [session[s].staged EXCEPT !.competition.execution = enabled,
                                                  !.competition.risk = risk])
        BY <2>3 DEF StageExecution
      <3> DEFINE one == [session[s].staged EXCEPT !.competition.execution = enabled]
                 both == [one EXCEPT !.competition.risk = risk]
      <3>2. Bundled(one)
        BY <1>1 DEF Bundled
      <3>3. Stage(s, both)
        BY <3>1
      <3> HIDE DEF one
      <3>4. Bundled(both)
        BY <3>2 DEF Bundled
      <3> QED
        BY <3>3, <3>4
    <2>4. CASE StageAssets(s)
      BY <1>1, <2>4 DEF StageAssets, Bundled
    <2>5. CASE StageEnvironment(s)
      BY <1>1, <2>5 DEF StageEnvironment, Bundled
    <2>6. CASE StageTemplate(s)
      BY <1>1, <2>6 DEF StageTemplate, Bundled
    <2> QED
      BY <2>1, <2>2, <2>3, <2>4, <2>5, <2>6
  <1> QED
    BY <1>2, StageKeeps

\* An apply changes nothing but its own job.
LEMMA JobChanges ==
  ASSUME StoreShape, NEW s \in Sessions, NEW job, JobShape(job), Step(s, job)
  PROVE  /\ DOMAIN session' = Sessions /\ session'[s].job = job
         /\ \A t \in Sessions \ {s} : session'[t] = session[t]
         /\ \A t \in Sessions : SessionShape(t)'
  <1>1. session' = [session EXCEPT ![s] = [session[s] EXCEPT !.job = job]]
    BY DEF Step
  <1>2. /\ DOMAIN session' = Sessions /\ session'[s] = [session[s] EXCEPT !.job = job]
        /\ \A t \in Sessions \ {s} : session'[t] = session[t] /\ SessionShape(t)'
    BY <1>1, OthersStay
  <1>3. SessionShape(s) /\ session'[s].job = job
    BY <1>2 DEF StoreShape, SessionShape
  <1>4. SessionShape(s)'
    BY <1>2, <1>3 DEF SessionShape, JobShape, Bundled
  <1> QED
    BY <1>2, <1>3, <1>4

LEMMA ReadCurrentKeeps == ASSUME StoreInv, NEW s \in Sessions, ReadCurrent(s) PROVE StoreInv'
  <1> DEFINE old == session[s].job
             job == [step |-> "version", bundle |-> old.bundle, from |-> old.from,
                     previous |-> Saved]
  <1>1. StoreShape /\ JobShape(old) /\ old # NoJob
    BY DEF StoreInv, StoreShape, SessionShape, ReadCurrent, At
  <1>2. JobShape(job) /\ Step(s, job)
    BY <1>1 DEF JobShape, ReadCurrent, Writes
  <1>3. session'[s].job.step = "version"
    BY <1>1, <1>2, JobChanges
  <1> HIDE DEF job
  <1> QED
    BY <1>1, <1>2, <1>3, JobChanges, QuietKeeps DEF ReadCurrent

LEMMA TakeVersionKeeps == ASSUME StoreInv, NEW s \in Sessions, TakeVersion(s) PROVE StoreInv'
  <1> DEFINE old == session[s].job
             job == [step |-> "profile", bundle |-> old.bundle, from |-> old.from,
                     previous |-> old.previous, version |-> Version + 1]
  <1>1. StoreShape /\ JobShape(old) /\ old # NoJob
    BY DEF StoreInv, StoreShape, SessionShape, TakeVersion, At
  <1>2. Version + 1 \in Nat \ {0}
    BY <1>1, VersionIsLargest
  <1>3. JobShape(job) /\ Step(s, job)
    BY <1>1, <1>2 DEF JobShape, TakeVersion, Writes
  <1>4. session'[s].job.step = "profile" /\ session'[s].job.version = Version + 1
    BY <1>1, <1>3, JobChanges
  <1> HIDE DEF job
  <1> QED
    BY <1>1, <1>3, <1>4, JobChanges, QuietKeeps DEF TakeVersion

LEMMA FailWriteKeeps == ASSUME StoreInv, NEW s \in Sessions, FailWrite(s) PROVE StoreInv'
  <1>1. StoreShape /\ JobShape(NoJob) /\ Step(s, NoJob)
    BY DEF StoreInv, FailWrite, Step, JobShape
  <1> QED
    BY <1>1, JobChanges, QuietKeeps DEF FailWrite

LEMMA CrashKeeps == ASSUME StoreInv, Crash PROVE StoreInv'
  <1>1. \A s \in Sessions : SessionShape(s)
    BY DEF StoreInv, StoreShape
  <1>2. /\ DOMAIN session' = Sessions
        /\ \A s \in Sessions : session'[s] = [session[s] EXCEPT !.open = FALSE, !.job = NoJob]
    BY DEF Crash
  <1>3. ASSUME NEW s \in Sessions PROVE SessionShape(s)' /\ session'[s].job = NoJob
    BY <1>1, <1>2 DEF SessionShape, JobShape, Bundled
  <1> QED
    BY <1>2, <1>3, QuietKeeps DEF Crash

\* An apply is alone when it begins, or is counted with those that it began beside.
LEMMA BeginKeeps ==
  ASSUME StoreInv, NEW s \in Sessions, NEW bundle, NEW from, Bundled(bundle),
         Begin(s, bundle, from)
  PROVE  StoreInv'
  <1> DEFINE job == [step |-> "read", bundle |-> bundle, from |-> from]
             others == {t \in Sessions \ {s} : session[t].job # NoJob}
  <1>1. StoreShape /\ session[s].job = NoJob /\ JobShape(job) /\ Step(s, job)
    <2>1. StoreShape /\ session[s].job = NoJob /\ Step(s, job)
      BY DEF StoreInv, Begin, Idle, Step
    <2>2. /\ DOMAIN job = {"step", "bundle", "from"}
          /\ job.step = "read" /\ job.bundle = bundle
      OBVIOUS
    <2> QED
      BY <2>1, <2>2 DEF JobShape, Writes
  <1>2. session'[s].job.step = "read"
    BY <1>1, JobChanges
  <1> HIDE DEF job
  <1>3. /\ DOMAIN session' = Sessions
        /\ \A t \in Sessions \ {s} : session'[t] = session[t]
        /\ \A t \in Sessions : SessionShape(t)'
    BY <1>1, JobChanges
  <1>4. /\ profile' = profile /\ strategy' = strategy /\ controller' = controller
        /\ history' = history /\ events' = events /\ whole' = whole /\ Version' = Version
    BY DEF Begin, files, Version
  <1>5. overlapped' = IF others = {} THEN overlapped \ {s}
                                     ELSE overlapped \cup others \cup {s}
    BY DEF Begin
  <1>6. StoreShape'
    BY <1>3, <1>4 DEF StoreInv, StoreShape
  <1>7. \A t \in Sessions \ {s} : Alone(t)' => t \notin others /\ Alone(t) /\ others # {}
    <2> SUFFICES ASSUME NEW t \in Sessions \ {s}, Alone(t)'
                 PROVE  t \notin others /\ Alone(t) /\ others # {}
      OBVIOUS
    <2>1. t \in others
      BY <1>3 DEF Alone
    <2>2. t \in overlapped'
      BY <1>5, <2>1
    <2> QED
      BY <2>2 DEF Alone
  <1>8. \A t \in Sessions : Alone(t)' => t = s /\ others = {}
    <2>1. \A t \in Sessions : t \in others => t \in Sessions \ {s} /\ session[t].job # NoJob
      OBVIOUS
    <2>2. \A t \in Sessions \ {s} : ~Alone(t)'
      BY <1>3, <1>7 DEF Alone
    <2>3. Alone(s)' => others = {}
      BY <1>5 DEF Alone
    <2> QED
      BY <2>2, <2>3
  <1>9. AloneIsAlone'
    BY <1>3, <1>8 DEF AloneIsAlone
  <1>10. AloneHasWritten'
    <2> SUFFICES ASSUME NEW t \in Sessions, Alone(t)' PROVE Written(session[t].job)'
      BY DEF AloneHasWritten
    <2> QED
      BY <1>2, <1>8 DEF Written, Writes
  <1>11. WholeIsUntouched' /\ EventHasVersion'
    BY <1>2, <1>3, <1>4 DEF StoreInv, WholeIsUntouched, EventHasVersion
  <1>12. LoneApplyMends' /\ LoggedIsRecorded'
    BY <1>4 DEF StoreInv, LoneApplyMends, LoggedIsRecorded, Saved, ControllerOf
  <1> QED
    BY <1>6, <1>9, <1>10, <1>11, <1>12 DEF StoreInv

\* A write takes its apply to the next step, and nothing else of it changes.
LEMMA WriteMovesOn ==
  ASSUME StoreInv, NEW s \in Sessions, At(s, "profile") \/ At(s, "strategy")
            \/ At(s, "controller") \/ At(s, "history"),
         NEW step \in Writes \ {"profile"}, Goto(s, step)
  PROVE  /\ DOMAIN session' = Sessions /\ \A t \in Sessions : SessionShape(t)'
         /\ \A t \in Sessions \ {s} : session'[t] = session[t]
         /\ session[s].job # NoJob /\ session'[s].job # NoJob
         /\ session'[s].job.step = step
         /\ session'[s].job.bundle = session[s].job.bundle
         /\ session'[s].job.version = session[s].job.version
         /\ session[s].job.version \in Nat \ {0} /\ Bundled(session[s].job.bundle)
  <1> DEFINE old == session[s].job
             job == [old EXCEPT !.step = step]
  <1>1. StoreShape /\ JobShape(old) /\ old # NoJob /\ old.step \in Writes
    BY DEF StoreInv, StoreShape, SessionShape, At, Writes
  <1>2. /\ {"step", "bundle", "from", "version"} \subseteq DOMAIN old
        /\ Bundled(old.bundle) /\ old.version \in Nat \ {0}
    BY <1>1 DEF JobShape
  <1>3. /\ job.step = step /\ job.bundle = old.bundle /\ job.version = old.version
        /\ DOMAIN job = DOMAIN old /\ job # NoJob
    BY <1>2 DEF NoJob
  <1> HIDE DEF job
  <1>4. JobShape(job)
    BY <1>2, <1>3 DEF JobShape
  <1>5. Step(s, job)
    BY DEF Goto, job
  <1> QED
    BY <1>1, <1>2, <1>3, <1>4, <1>5, JobChanges

\* What a write of an apply leaves for the others: they are not alone with it.
LEMMA WriteLeavesOthers ==
  ASSUME StoreInv, NEW s \in Sessions, session[s].job # NoJob, overlapped' = overlapped,
         \A t \in Sessions \ {s} : session'[t] = session[t]
  PROVE  /\ Alone(s)' => Alone(s) /\ \A t \in Sessions \ {s} : session'[t].job = NoJob
         /\ \A t \in Sessions : Alone(t)' => t = s
         /\ AloneIsAlone'
  <1>1. AloneIsAlone
    BY DEF StoreInv
  <1>2. Alone(s)' => Alone(s) /\ \A t \in Sessions \ {s} : session'[t].job = NoJob
    BY <1>1 DEF Alone, AloneIsAlone
  <1>3. \A t \in Sessions : Alone(t)' => t = s
    <2> SUFFICES ASSUME NEW t \in Sessions \ {s}, Alone(t)' PROVE FALSE
      OBVIOUS
    <2>1. Alone(t)
      BY DEF Alone
    <2> QED
      BY <1>1, <2>1 DEF AloneIsAlone
  <1> QED
    BY <1>2, <1>3 DEF AloneIsAlone

\* The last apply that came to its end no longer tells what the files hold.
LEMMA WriteProfileKeeps == ASSUME StoreInv, NEW s \in Sessions, WriteProfile(s) PROVE StoreInv'
  <1>1. At(s, "profile") /\ Goto(s, "strategy") /\ "strategy" \in Writes \ {"profile"}
    BY DEF WriteProfile, Writes
  <1>2. /\ DOMAIN session' = Sessions /\ \A t \in Sessions : SessionShape(t)'
        /\ \A t \in Sessions \ {s} : session'[t] = session[t]
        /\ session[s].job # NoJob /\ session'[s].job.step = "strategy"
        /\ session'[s].job.bundle = session[s].job.bundle
    BY <1>1, WriteMovesOn
  <1>3. /\ profile' = session[s].job.bundle.competition /\ ~whole'
        /\ history' = history /\ events' = events /\ overlapped' = overlapped
        /\ Version' = Version /\ session[s].job.step = "profile"
        /\ session'[s].job.version = session[s].job.version
    BY <1>1, WriteMovesOn DEF WriteProfile, Version, At
  <1>4. /\ \A t \in Sessions : Alone(t)' => t = s /\ Alone(s)
        /\ AloneIsAlone'
    BY <1>2, <1>3, WriteLeavesOthers
  <1>5. StoreShape'
    BY <1>2, <1>3 DEF StoreInv, StoreShape
  <1>6. ASSUME Alone(s)' PROVE Written(session[s].job)'
    <2>1. Written(session[s].job)
      BY <1>4, <1>6 DEF StoreInv, AloneHasWritten
    <2> QED
      BY <1>2, <1>3, <2>1 DEF Written, Writes
  <1>7. AloneHasWritten'
    BY <1>4, <1>6 DEF AloneHasWritten
  <1>8. WholeIsUntouched' /\ EventHasVersion'
    BY <1>2, <1>3 DEF StoreInv, WholeIsUntouched, EventHasVersion
  <1>9. LoneApplyMends' /\ LoggedIsRecorded'
    BY <1>3 DEF StoreInv, LoneApplyMends, LoggedIsRecorded
  <1> QED
    BY <1>4, <1>5, <1>7, <1>8, <1>9 DEF StoreInv

\* Once it has written its profile, no other apply is one that came to its end.
LEMMA WritesAreNotWhole ==
  ASSUME StoreInv, NEW s \in Sessions, session[s].job # NoJob,
         session[s].job.step \in Writes \ {"profile"}
  PROVE  ~whole
  BY DEF StoreInv, WholeIsUntouched, Writes

LEMMA WriteStrategyKeeps == ASSUME StoreInv, NEW s \in Sessions, WriteStrategy(s) PROVE StoreInv'
  <1>1. At(s, "strategy") /\ Goto(s, "controller") /\ "controller" \in Writes \ {"profile"}
    BY DEF WriteStrategy, Writes
  <1>2. /\ DOMAIN session' = Sessions /\ \A t \in Sessions : SessionShape(t)'
        /\ \A t \in Sessions \ {s} : session'[t] = session[t]
        /\ session[s].job # NoJob /\ session'[s].job.step = "controller"
        /\ session'[s].job.bundle = session[s].job.bundle
        /\ session'[s].job.version = session[s].job.version
    BY <1>1, WriteMovesOn
  <1>3. /\ strategy' = session[s].job.bundle.strategy /\ session[s].job.step = "strategy"
        /\ profile' = profile /\ controller' = controller /\ whole' = whole
        /\ history' = history /\ events' = events /\ overlapped' = overlapped
        /\ Version' = Version
    BY DEF WriteStrategy, Version, At, ghosts
  <1>4. ~whole'
    BY <1>2, <1>3, WritesAreNotWhole DEF Writes
  <1>5. /\ \A t \in Sessions : Alone(t)' => t = s /\ Alone(s)
        /\ AloneIsAlone'
    BY <1>2, <1>3, WriteLeavesOthers
  <1>6. StoreShape'
    BY <1>2, <1>3 DEF StoreInv, StoreShape
  <1>7. ASSUME Alone(s)' PROVE Written(session[s].job)'
    <2>1. Written(session[s].job)
      BY <1>5, <1>7 DEF StoreInv, AloneHasWritten
    <2> QED
      BY <1>2, <1>3, <2>1 DEF Written, Writes
  <1>8. AloneHasWritten'
    BY <1>5, <1>7 DEF AloneHasWritten
  <1>9. WholeIsUntouched' /\ EventHasVersion'
    BY <1>2, <1>3, <1>4 DEF StoreInv, WholeIsUntouched, EventHasVersion
  <1>10. LoneApplyMends' /\ LoggedIsRecorded'
    BY <1>3, <1>4 DEF StoreInv, LoneApplyMends, LoggedIsRecorded
  <1> QED
    BY <1>5, <1>6, <1>8, <1>9, <1>10 DEF StoreInv

LEMMA WriteControllerKeeps ==
  ASSUME StoreInv, NEW s \in Sessions, WriteController(s) PROVE StoreInv'
  <1>1. At(s, "controller") /\ Goto(s, "history") /\ "history" \in Writes \ {"profile"}
    BY DEF WriteController, Writes
  <1>2. /\ DOMAIN session' = Sessions /\ \A t \in Sessions : SessionShape(t)'
        /\ \A t \in Sessions \ {s} : session'[t] = session[t]
        /\ session[s].job # NoJob /\ session'[s].job.step = "history"
        /\ session'[s].job.bundle = session[s].job.bundle
        /\ session'[s].job.version = session[s].job.version
    BY <1>1, WriteMovesOn
  <1>3. /\ controller' = ControllerOf(session[s].job.bundle.competition)
        /\ profile' = profile /\ strategy' = strategy /\ whole' = whole
        /\ history' = history /\ events' = events /\ overlapped' = overlapped
        /\ Version' = Version /\ session[s].job.step = "controller"
    BY DEF WriteController, Version, At, ghosts
  <1>4. ~whole'
    BY <1>2, <1>3, WritesAreNotWhole DEF Writes
  <1>5. /\ \A t \in Sessions : Alone(t)' => t = s /\ Alone(s)
        /\ AloneIsAlone'
    BY <1>2, <1>3, WriteLeavesOthers
  <1>6. StoreShape'
    BY <1>2, <1>3 DEF StoreInv, StoreShape
  <1>7. ASSUME Alone(s)' PROVE Written(session[s].job)'
    <2>1. Written(session[s].job)
      BY <1>5, <1>7 DEF StoreInv, AloneHasWritten
    <2>2. controller' = ControllerOf(profile')
      BY <1>3, <2>1 DEF Written, ControllerOf
    <2>3. ControllerOf(profile)' = ControllerOf(profile')
      BY DEF ControllerOf
    <2> QED
      BY <1>2, <1>3, <2>1, <2>2, <2>3 DEF Written, Writes
  <1>8. AloneHasWritten'
    BY <1>5, <1>7 DEF AloneHasWritten
  <1>9. WholeIsUntouched' /\ EventHasVersion'
    BY <1>2, <1>3, <1>4 DEF StoreInv, WholeIsUntouched, EventHasVersion
  <1>10. LoneApplyMends' /\ LoggedIsRecorded'
    BY <1>3, <1>4 DEF StoreInv, LoneApplyMends, LoggedIsRecorded
  <1> QED
    BY <1>5, <1>6, <1>8, <1>9, <1>10 DEF StoreInv

\* The number of an apply that runs alone is the newest; that of a racing one may
\* be a version that the history already holds, whose file it replaces.
LEMMA WriteHistoryKeeps == ASSUME StoreInv, NEW s \in Sessions, WriteHistory(s) PROVE StoreInv'
  <1> DEFINE job == session[s].job
  <1>1. At(s, "history") /\ Goto(s, "event") /\ "event" \in Writes \ {"profile"}
    BY DEF WriteHistory, Writes
  <1>2. /\ DOMAIN session' = Sessions /\ \A t \in Sessions : SessionShape(t)'
        /\ \A t \in Sessions \ {s} : session'[t] = session[t]
        /\ session[s].job # NoJob /\ session'[s].job.step = "event"
        /\ session'[s].job.bundle = job.bundle /\ session'[s].job.version = job.version
        /\ job.version \in Nat \ {0} /\ Bundled(job.bundle)
    BY <1>1, WriteMovesOn
  <1>3. /\ DOMAIN history' = DOMAIN history \cup {job.version}
        /\ history'[job.version].config = job.bundle
        /\ \A v \in DOMAIN history \ {job.version} : history'[v] = history[v]
        /\ profile' = profile /\ strategy' = strategy /\ controller' = controller
        /\ events' = events /\ overlapped' = overlapped /\ whole' = whole
        /\ job.step = "history"
    BY DEF WriteHistory, At, ghosts
  <1> HIDE DEF job
  <1>4. ~whole'
    BY <1>2, <1>3, WritesAreNotWhole DEF Writes, job
  <1>5. /\ \A t \in Sessions : Alone(t)' => t = s /\ Alone(s)
        /\ AloneIsAlone'
    BY <1>2, <1>3, WriteLeavesOthers
  <1>6. StoreShape /\ DOMAIN history \subseteq Nat \ {0}
    BY DEF StoreInv, StoreShape
  <1>7. HasLargest(DOMAIN history')
    <2>1. PICK m \in {0} \cup DOMAIN history : \A v \in DOMAIN history : v <= m
      BY <1>6 DEF StoreShape, HasLargest
    <2> DEFINE largest == IF job.version <= m THEN m ELSE job.version
    <2>2. m \in Nat /\ job.version \in Nat
      BY <1>2, <1>6
    <2>3. largest \in {0} \cup DOMAIN history' /\ \A v \in DOMAIN history' : v <= largest
      BY <1>3, <1>6, <2>1, <2>2
    <2> HIDE DEF largest
    <2> QED
      BY <2>3 DEF HasLargest
  <1>8. StoreShape'
    <2>1. DOMAIN history' \subseteq Nat \ {0}
      BY <1>2, <1>3, <1>6
    <2>2. \A v \in DOMAIN history' : Bundled(history'[v].config)
      BY <1>2, <1>3, <1>6 DEF StoreShape
    <2> QED
      BY <1>2, <1>3, <1>6, <1>7, <2>1, <2>2 DEF StoreShape
  <1>9. ASSUME Alone(s)' PROVE Written(session[s].job)'
    <2>1. Written(job)
      BY <1>5, <1>9 DEF StoreInv, AloneHasWritten, job
    <2>2. job.version = Version + 1 /\ Version \in Nat
      BY <1>3, <1>6, <2>1, VersionIsLargest DEF Written, Writes
    <2>3. \A v \in DOMAIN history : v <= Version
      BY <1>6, VersionIsLargest
    <2>4. Version' = job.version
      <3>1. Version' \in {0} \cup DOMAIN history' /\ \A v \in DOMAIN history' : v <= Version'
        <4>1. DOMAIN history' \in SUBSET Nat
          BY <1>8 DEF StoreShape
        <4> QED
          BY <1>7, <4>1, LargestIs DEF Version
      <3>2. job.version <= Version' /\ Version' \in Nat
        BY <1>3, <1>8, <3>1 DEF StoreShape
      <3> QED
        BY <1>3, <2>2, <2>3, <3>1, <3>2
    <2>5. history'[Version'].config = job.bundle
      BY <1>3, <2>4
    <2>6. /\ profile = job.bundle.competition /\ strategy = job.bundle.strategy
          /\ controller = ControllerOf(profile)
      BY <1>3, <2>1 DEF Written
    <2>7. ControllerOf(profile)' = ControllerOf(profile)
      BY <1>3 DEF ControllerOf
    <2> QED
      BY <1>2, <1>3, <2>4, <2>5, <2>6, <2>7 DEF Written, Writes
  <1>10. AloneHasWritten'
    BY <1>5, <1>9 DEF AloneHasWritten
  <1>11. WholeIsUntouched'
    BY <1>4 DEF WholeIsUntouched
  <1>12. EventHasVersion'
    BY <1>2, <1>3 DEF StoreInv, EventHasVersion
  <1>13. LoneApplyMends' /\ LoggedIsRecorded'
    BY <1>3, <1>4 DEF StoreInv, LoneApplyMends, LoggedIsRecorded
  <1> QED
    BY <1>5, <1>8, <1>10, <1>11, <1>12, <1>13 DEF StoreInv

LEMMA LogGrows ==
  ASSUME NEW T, NEW log \in Seq(T), NEW event
  PROVE  /\ Append(log, event) \in Seq(T \cup {event})
         /\ Len(Append(log, event)) = Len(log) + 1 /\ Len(log) \in Nat
         /\ \A n \in 1..Len(log) : Append(log, event)[n] = log[n]
         /\ Append(log, event)[Len(log) + 1] = event
  <1>1. log \in Seq(T \cup {event}) /\ event \in T \cup {event}
    BY SeqMonotonic
  <1> QED
    BY <1>1, AppendProperties

\* An apply that was alone leaves everything of its own configuration.
LEMMA AppendEventKeeps == ASSUME StoreInv, NEW s \in Sessions, AppendEvent(s) PROVE StoreInv'
  <1> DEFINE job == session[s].job
             event == [version |-> job.version, old |-> job.previous, new |-> job.bundle]
             record == IF job.from = "sidebar"
                       THEN [session[s] EXCEPT !.job = NoJob, !.staged = Saved]
                       ELSE [session[s] EXCEPT !.job = NoJob]
  <1>1. /\ StoreShape /\ SessionShape(s) /\ job # NoJob /\ job.step = "event"
        /\ "event" \in Writes \ {"profile"} /\ Bundled(job.bundle)
        /\ job.version \in Nat \ {0}
    BY DEF StoreInv, StoreShape, SessionShape, JobShape, AppendEvent, At, Writes
  <1>2. /\ events' = Append(events, event)
        /\ session' = [session EXCEPT ![s] = record]
        /\ whole' = (s \notin overlapped)
        /\ profile' = profile /\ strategy' = strategy /\ controller' = controller
        /\ history' = history /\ overlapped' = overlapped /\ Version' = Version
    BY DEF AppendEvent, Version
  <1>3. SessionShape(s) /\ record.job = NoJob /\ Bundled(record.staged)
        /\ {"open", "staged", "job"} \subseteq DOMAIN record
    BY <1>1, SavedIsBundled DEF SessionShape
  <1>4. job.version \in DOMAIN history
    BY <1>1 DEF StoreInv, EventHasVersion
  <1>5. PICK T : events \in Seq(T)
    BY <1>1 DEF StoreShape
  <1>6. event.version = job.version /\ event.new = job.bundle
    OBVIOUS
  <1> HIDE DEF event, record
  <1>7. /\ DOMAIN session' = Sessions /\ session'[s] = record
        /\ \A t \in Sessions \ {s} : session'[t] = session[t] /\ SessionShape(t)'
    BY <1>1, <1>2, OthersStay
  <1>8. SessionShape(s)' /\ session'[s].job = NoJob
    BY <1>3, <1>7 DEF SessionShape, JobShape, Bundled
  <1>9. /\ events' \in Seq(T \cup {event}) /\ Len(events') = Len(events) + 1
        /\ Len(events) \in Nat /\ events'[Len(events')] = event
        /\ \A n \in 1..Len(events) : events'[n] = events[n]
    BY <1>2, <1>5, LogGrows
  <1>10. StoreShape'
    BY <1>1, <1>2, <1>7, <1>8, <1>9 DEF StoreShape
  <1>11. \A t \in Sessions : Alone(t)' => t # s /\ Alone(t)
    BY <1>2, <1>7, <1>8 DEF Alone
  <1>12. AloneIsAlone'
    BY <1>7, <1>8, <1>11 DEF StoreInv, AloneIsAlone
  <1>13. AloneHasWritten'
    <2> SUFFICES ASSUME NEW t \in Sessions, Alone(t)' PROVE Written(session[t].job)'
      BY DEF AloneHasWritten
    <2>1. Written(session[t].job) /\ session'[t] = session[t]
      BY <1>7, <1>11 DEF StoreInv, AloneHasWritten
    <2> QED
      BY <1>2, <2>1 DEF Written, ControllerOf
  <1>14. ASSUME whole'
         PROVE  Alone(s) /\ \A t \in Sessions : session'[t].job = NoJob
    <2>1. Alone(s)
      BY <1>1, <1>2, <1>14 DEF Alone
    <2> QED
      BY <1>7, <1>8, <2>1 DEF StoreInv, AloneIsAlone
  <1>15. WholeIsUntouched'
    BY <1>14 DEF WholeIsUntouched
  <1>16. EventHasVersion'
    BY <1>2, <1>7, <1>8 DEF StoreInv, EventHasVersion
  <1>17. LoneApplyMends'
    <2> SUFFICES ASSUME whole'
                 PROVE  /\ Version > 0 /\ history[Version].config = Saved
                        /\ controller = ControllerOf(profile)
                        /\ event.version = Version /\ event.new = Saved
      BY <1>2, <1>9 DEF LoneApplyMends, Saved, ControllerOf
    <2>1. Written(job)
      BY <1>14 DEF StoreInv, AloneHasWritten
    <2>2. /\ profile = job.bundle.competition /\ strategy = job.bundle.strategy
          /\ controller = ControllerOf(profile) /\ job.version = Version
          /\ history[Version].config = job.bundle
      BY <1>1, <2>1 DEF Written
    <2>3. Saved = job.bundle
      BY <1>1, <2>2 DEF Saved, Bundled
    <2> QED
      BY <1>1, <1>6, <2>2, <2>3
  <1>18. LoggedIsRecorded'
    <2> SUFFICES ASSUME NEW n \in 1..Len(events') PROVE events'[n].version \in DOMAIN history
      BY <1>2 DEF LoggedIsRecorded
    <2>1. CASE n \in 1..Len(events)
      BY <1>9, <2>1 DEF StoreInv, LoggedIsRecorded
    <2>2. CASE n = Len(events')
      BY <1>4, <1>6, <1>9, <2>2
    <2> QED
      BY <1>9, <2>1, <2>2
  <1> QED
    BY <1>10, <1>12, <1>13, <1>15, <1>16, <1>17, <1>18 DEF StoreInv

LEMMA ApplyKeeps ==
  ASSUME StoreInv, NEW s \in Sessions,
         Apply(s) \/ \E version \in 1..MaxVersions : Restore(s, version)
  PROVE  StoreInv'
  <1>1. CASE Apply(s)
    <2>1. Bundled(session[s].staged)
      BY DEF StoreInv, StoreShape, SessionShape
    <2> QED
      BY <1>1, <2>1, BeginKeeps DEF Apply
  <1>2. CASE \E version \in 1..MaxVersions : Restore(s, version)
    <2>1. PICK version \in DOMAIN history : Begin(s, history[version].config, "history")
      BY <1>2 DEF Restore
    <2>2. Bundled(history[version].config)
      BY DEF StoreInv, StoreShape
    <2> QED
      BY <2>1, <2>2, BeginKeeps
  <1> QED
    BY <1>1, <1>2

LEMMA StoreStarts == StoreInit => StoreInv
  <1> SUFFICES ASSUME StoreInit PROVE StoreInv
    OBVIOUS
  <1>1. /\ DOMAIN history = {} /\ events \in Seq({}) /\ Len(events) = 0 /\ whole = FALSE
        /\ session = [s \in Sessions |-> [open |-> FALSE, staged |-> Saved, job |-> NoJob]]
    BY EmptySeq DEF StoreInit
  <1>2. \A s \in Sessions : SessionShape(s) /\ session[s].job = NoJob
    BY <1>1, SavedIsBundled DEF SessionShape, JobShape, Bundled
  <1>3. HasLargest(DOMAIN history)
    BY <1>1 DEF HasLargest
  <1>4. StoreShape
    BY <1>1, <1>2, <1>3 DEF StoreShape
  <1>5. AloneIsAlone /\ AloneHasWritten /\ WholeIsUntouched /\ EventHasVersion
    BY <1>2 DEF AloneIsAlone, AloneHasWritten, WholeIsUntouched, EventHasVersion, Alone
  <1>6. LoneApplyMends /\ LoggedIsRecorded
    BY <1>1 DEF LoneApplyMends, LoggedIsRecorded
  <1> QED
    BY <1>4, <1>5, <1>6 DEF StoreInv

LEMMA StoreStep == StoreInv /\ [StoreNext]_storeVars => StoreInv'
  <1> SUFFICES ASSUME StoreInv, [StoreNext]_storeVars PROVE StoreInv'
    OBVIOUS
  <1>1. ASSUME NEW s \in Sessions,
               \/ Open(s) \/ Reset(s) \/ Apply(s)
               \/ StageStrategy(s) \/ StageRisk(s) \/ StageExecution(s) \/ StageAssets(s)
               \/ StageEnvironment(s) \/ StageTemplate(s)
               \/ \E version \in 1..MaxVersions : Restore(s, version)
        PROVE  StoreInv'
    BY <1>1, OpenKeeps, ResetKeeps, ApplyKeeps, FormsKeep
  <1>2. ASSUME NEW s \in Sessions,
               \/ ReadCurrent(s) \/ TakeVersion(s) \/ WriteProfile(s) \/ WriteStrategy(s)
               \/ WriteController(s) \/ WriteHistory(s) \/ AppendEvent(s) \/ FailWrite(s)
        PROVE  StoreInv'
    BY <1>2, ReadCurrentKeeps, TakeVersionKeeps, WriteProfileKeeps, WriteStrategyKeeps,
       WriteControllerKeeps, WriteHistoryKeeps, AppendEventKeeps, FailWriteKeeps
  <1>3. CASE Crash
    BY <1>3, CrashKeeps
  <1>4. CASE UNCHANGED storeVars
    <2>1. UNCHANGED <<files, ghosts>> /\ session' = session
      BY <1>4 DEF storeVars
    <2>2. \A s \in Sessions : SessionShape(s)'
      BY <2>1 DEF StoreInv, StoreShape, SessionShape
    <2> QED
      BY <2>1, <2>2, QuietKeeps DEF StoreInv, StoreShape
  <1> QED
    BY <1>1, <1>2, <1>3, <1>4 DEF StoreNext

\* Whatever sessions race, writes fail and servers die, the next apply that runs
\* alone to its end leaves three files, the newest version and the last event of
\* one configuration, and every event tells of a version that the history holds
\* (ConfigStore.apply).
THEOREM StoreMends == StoreSpec => []StoreMendsAndRecords
  <1>1. StoreInv => StoreMendsAndRecords
    BY DEF StoreInv, StoreMendsAndRecords
  <1> QED
    BY StoreStarts, StoreStep, <1>1, PTL DEF StoreSpec

-----------------------------------------------------------------------------
(* Text *)

Text == Seq(Unit)

\* The place of the last newline, 0 if there is none.
IsLastNewline(text, n) ==
    /\ n \in 0..Len(text)
    /\ n > 0 => text[n] = Newline
    /\ \A i \in (n + 1)..Len(text) : text[i] # Newline

LEMMA GreatestExists ==
  ASSUME NEW len \in Nat, NEW I \in SUBSET (1..len), I # {}
  PROVE  \E n \in I : \A i \in I : n >= i
  <1> DEFINE R == OpToRel(<, Nat)
             T == {len - i : i \in I}
  <1>1. IsWellFoundedOn(R, Nat)
    BY NatLessThanWellFounded
  <1>2. T \subseteq Nat /\ T # {}
    <2>1. PICK i \in I : TRUE
      OBVIOUS
    <2>2. len - i \in T
      BY <2>1
    <2>3. \A j \in I : len - j \in Nat
      OBVIOUS
    <2> QED BY <2>2, <2>3
  <1>3. PICK d \in T : \A e \in T : ~(<<e, d>> \in R)
    <2> HIDE DEF R, T
    <2> QED BY <1>1, <1>2, WFMin
  <1>4. PICK n \in I : len - n = d
    OBVIOUS
  <1>5. ASSUME NEW i \in I PROVE n >= i
    <2>1. len - i \in Nat /\ len - n \in Nat /\ len - i \in T
      OBVIOUS
    <2>2. ~(<<len - i, len - n>> \in R)
      BY <1>3, <1>4, <2>1
    <2>3. ~(len - i < len - n)
      BY <2>1, <2>2 DEF OpToRel
    <2>4. len \in Int /\ i \in Int /\ n \in Int
      OBVIOUS
    <2> HIDE DEF R, T
    <2> QED BY <2>3, <2>4
  <1> QED BY <1>5

\* Unfinished and Finished cut a text at its last newline.
LEMMA CutAtNewline ==
  ASSUME NEW text \in Text
  PROVE  \E n \in 0..Len(text) :
            /\ IsLastNewline(text, n)
            /\ Unfinished(text) = SubSeq(text, n + 1, Len(text))
            /\ Finished(text) = SubSeq(text, 1, n)
  <1> DEFINE I == {i \in 1..Len(text) : text[i] = Newline}
             n == IF I # {} THEN Max(I) ELSE 0
  <1>1. Len(text) \in Nat
    BY DEF Text
  <1>2. SelectLastInSeq(text, LAMBDA u : u = Newline) = n
    BY DEF SelectLastInSeq
  <1>3. n \in 0..Len(text) /\ IsLastNewline(text, n)
    <2>1. CASE I = {}
      BY <1>1, <2>1 DEF IsLastNewline
    <2>2. CASE I # {}
      <3>1. n \in I /\ \A i \in I : n >= i
        BY <1>1, <2>2, GreatestExists DEF Max
      <3>2. \A i \in 1..Len(text) : text[i] = Newline => n >= i
        BY <3>1
      <3>3. n \in 1..Len(text) /\ text[n] = Newline
        BY <3>1
      <3> HIDE DEF n
      <3> QED BY <1>1, <3>2, <3>3 DEF IsLastNewline
    <2> QED BY <2>1, <2>2
  <1>4. Unfinished(text) = SubSeq(text, 1 + n, Len(text))
    BY <1>2 DEF Unfinished
  <1>5. Finished(text) = SubSeq(text, 1, n)
    BY <1>2 DEF Finished
  <1> HIDE DEF n
  <1> QED BY <1>1, <1>3, <1>4, <1>5

LEMMA LastNewlineIsOne ==
  ASSUME NEW text \in Text, NEW m, NEW n, IsLastNewline(text, m), IsLastNewline(text, n)
  PROVE  m = n
  <1>1. Len(text) \in Nat
    BY DEF Text
  <1> QED BY <1>1 DEF IsLastNewline

LEMMA TextsAre ==
  ASSUME NEW a \in Text, NEW b \in Text
  PROVE  /\ Len(a) \in Nat /\ Len(b) \in Nat
         /\ a \o b \in Text /\ Len(a \o b) = Len(a) + Len(b)
         /\ \A i \in 1..Len(a) : (a \o b)[i] = a[i]
         /\ \A i \in (Len(a) + 1)..(Len(a) + Len(b)) : (a \o b)[i] = b[i - Len(a)]
  BY ConcatProperties DEF Text

\* A stretch of a text.
LEMMA StretchIs ==
  ASSUME NEW text \in Text, NEW m \in 1..(Len(text) + 1), NEW n \in (m - 1)..Len(text)
  PROVE  /\ SubSeq(text, m, n) \in Text /\ Len(SubSeq(text, m, n)) = n - m + 1
         /\ \A i \in 1..(n - m + 1) : SubSeq(text, m, n)[i] = text[m + i - 1]
  <1>1. Len(text) \in Nat /\ \A i \in 1..Len(text) : text[i] \in Unit
    BY LenProperties, ElementOfSeq DEF Text
  <1>2. \A i \in m..n : text[i] \in Unit
    BY <1>1
  <1> QED BY <1>1, <1>2, SubSeqProperties DEF Text

\* What follows a place of a text.
LEMMA AfterPlace ==
  ASSUME NEW text \in Text, NEW n \in 0..Len(text)
  PROVE  /\ SubSeq(text, n + 1, Len(text)) \in Text
         /\ Len(SubSeq(text, n + 1, Len(text))) = Len(text) - n
         /\ \A i \in 1..(Len(text) - n) : SubSeq(text, n + 1, Len(text))[i] = text[n + i]
  <1>1. Len(text) \in Nat
    BY DEF Text
  <1>2. n + 1 \in 1..(Len(text) + 1) /\ Len(text) \in (n + 1 - 1)..Len(text)
    BY <1>1
  <1>3. /\ SubSeq(text, n + 1, Len(text)) \in Text
        /\ Len(SubSeq(text, n + 1, Len(text))) = Len(text) - (n + 1) + 1
        /\ \A i \in 1..(Len(text) - (n + 1) + 1) :
              SubSeq(text, n + 1, Len(text))[i] = text[n + 1 + i - 1]
    BY <1>2, StretchIs
  <1>4. Len(text) - (n + 1) + 1 = Len(text) - n
    BY <1>1
  <1>5. \A i \in 1..(Len(text) - n) : n + 1 + i - 1 = n + i
    OBVIOUS
  <1> QED BY <1>3, <1>4, <1>5

LEMMA Adjoining ==
  ASSUME NEW text \in Text, NEW m \in 0..Len(text), NEW k \in m..Len(text)
  PROVE  SubSeq(text, m + 1, k) \o SubSeq(text, k + 1, Len(text)) = SubSeq(text, m + 1, Len(text))
  <1> DEFINE from == m + 1
  <1>1. Len(text) \in Nat /\ text \in Seq(Unit)
    BY DEF Text
  <1>2. from \in 1..(Len(text) + 1) /\ k \in (from - 1)..Len(text) /\ Len(text) \in k..Len(text)
    BY <1>1
  <1> HIDE DEF from
  <1>3. SubSeq(text, from, k) \o SubSeq(text, k + 1, Len(text)) = SubSeq(text, from, Len(text))
    BY <1>1, <1>2, ConcatAdjacentSubSeq
  <1> QED BY <1>3 DEF from

\* The records of a text by its places.
LEMMA RecordOf ==
  ASSUME NEW text \in Text, NEW r \in 1..MaxRecords
  PROVE  r \in RecordsIn(text) <=>
            \E i \in 1..(Len(text) - 2) :
               /\ text[i] = <<r, 1>> /\ text[i + 1] = <<r, 2>> /\ text[i + 2] = Newline
               /\ i = 1 \/ text[i - 1] = Newline
  <1>1. Len(text) \in Nat
    BY DEF Text
  <1>2. ASSUME NEW i \in 1..(Len(text) - 2)
        PROVE  SubSeq(text, i, i + 2) = Line(r) <=>
                  text[i] = <<r, 1>> /\ text[i + 1] = <<r, 2>> /\ text[i + 2] = Newline
    <2> DEFINE last == i + 2
               three == SubSeq(text, i, last)
    <2>0. i \in 1..(Len(text) + 1) /\ last \in (i - 1)..Len(text) /\ last - i + 1 = 3 /\ i \in Int
      BY <1>1
    <2>1. /\ three \in Text /\ Len(three) = 3 /\ \A k \in 1..3 : three[k] = text[i + k - 1]
      <3> HIDE DEF last
      <3>1. /\ three \in Text /\ Len(three) = last - i + 1
            /\ \A k \in 1..(last - i + 1) : three[k] = text[i + k - 1]
        BY <2>0, StretchIs
      <3> QED BY <2>0, <3>1
    <2>2. three[1] = text[i] /\ three[2] = text[i + 1] /\ three[3] = text[i + 2]
      <3> HIDE DEF three
      <3>1. i + 1 - 1 = i /\ i + 2 - 1 = i + 1 /\ i + 3 - 1 = i + 2
        BY <2>0
      <3>2. three[1] = text[i + 1 - 1] /\ three[2] = text[i + 2 - 1] /\ three[3] = text[i + 3 - 1]
        BY <2>1
      <3> QED BY <3>1, <3>2
    <2>3. Line(r) \in Seq({<<r, 1>>, <<r, 2>>, Newline}) /\ Len(Line(r)) = 3
          /\ Line(r)[1] = <<r, 1>> /\ Line(r)[2] = <<r, 2>> /\ Line(r)[3] = Newline
      BY DEF Line
    <2>4. CASE SubSeq(text, i, i + 2) = Line(r)
      BY <2>2, <2>3, <2>4
    <2>5. ASSUME text[i] = <<r, 1>>, text[i + 1] = <<r, 2>>, text[i + 2] = Newline
          PROVE  SubSeq(text, i, i + 2) = Line(r)
      <3>1. \A k \in 1..3 : SubSeq(text, i, i + 2)[k] = Line(r)[k]
        BY <2>2, <2>3, <2>5
      <3> HIDE DEF Line, Newline
      <3> QED BY <2>1, <2>3, <3>1, SeqEqual DEF Text
    <2> QED BY <2>4, <2>5
  <1> QED BY <1>2 DEF RecordsIn

\* A text of which what follows its last newline is kept, and then more comes:
\* what is kept of the two is what is kept of all, and all records of it are
\* those of the first and those of the whole lines of the two.
LEMMA MoreText ==
  ASSUME NEW text \in Text, NEW more \in Text
  PROVE  LET combined == Unfinished(text) \o more
         IN  /\ Unfinished(text) \in Text /\ combined \in Text
             /\ Unfinished(text \o more) = Unfinished(combined)
             /\ RecordsIn(text \o more) \subseteq RecordsIn(text) \union RecordsIn(Finished(combined))
  <1> DEFINE rest == Unfinished(text)
             combined == rest \o more
             all == text \o more
  <1>1. PICK n \in 0..Len(text) :
            IsLastNewline(text, n) /\ rest = SubSeq(text, n + 1, Len(text))
    BY CutAtNewline
  <1>2. /\ Len(text) \in Nat /\ Len(more) \in Nat /\ all \in Text
        /\ Len(all) = Len(text) + Len(more)
        /\ \A i \in 1..Len(text) : all[i] = text[i]
        /\ \A i \in (Len(text) + 1)..(Len(text) + Len(more)) : all[i] = more[i - Len(text)]
    BY TextsAre
  <1>3. /\ rest \in Text /\ Len(rest) = Len(text) - n
        /\ \A i \in 1..(Len(text) - n) : rest[i] = text[n + i]
    <2> HIDE DEF rest
    <2> QED BY <1>1, AfterPlace
  <1> HIDE DEF rest
  <1>4. /\ combined \in Text /\ Len(combined) = Len(all) - n
        /\ \A i \in 1..Len(rest) : combined[i] = rest[i]
        /\ \A i \in (Len(rest) + 1)..(Len(rest) + Len(more)) : combined[i] = more[i - Len(rest)]
    <2>1. /\ rest \o more \in Text /\ Len(rest \o more) = Len(rest) + Len(more)
          /\ \A i \in 1..Len(rest) : (rest \o more)[i] = rest[i]
          /\ \A i \in (Len(rest) + 1)..(Len(rest) + Len(more)) :
                (rest \o more)[i] = more[i - Len(rest)]
      BY <1>3, TextsAre
    <2>2. combined \in Text /\ Len(combined) = Len(rest) + Len(more)
      BY <2>1
    <2> HIDE DEF combined, all
    <2>3. Len(combined) = Len(all) - n
      BY <1>1, <1>2, <1>3, <2>2
    <2> QED BY <2>1, <2>2, <2>3 DEF combined
  <1> HIDE DEF combined, all
  <1>5. \A i \in 1..Len(combined) : combined[i] = all[n + i]
    <2> SUFFICES ASSUME NEW i \in 1..Len(combined) PROVE combined[i] = all[n + i]
      OBVIOUS
    <2>1. CASE i <= Len(rest)
      BY <1>1, <1>2, <1>3, <1>4, <2>1
    <2>2. CASE i > Len(rest)
      <3>1. combined[i] = more[i - Len(rest)]
        BY <1>1, <1>2, <1>3, <1>4, <2>2
      <3>2. n + i \in (Len(text) + 1)..(Len(text) + Len(more))
        BY <1>1, <1>2, <1>3, <1>4, <2>2
      <3>3. all[n + i] = more[n + i - Len(text)]
        BY <1>2, <3>2
      <3>4. n + i - Len(text) = i - Len(rest)
        <4>1. Len(rest) = Len(text) - n /\ Len(text) \in Int /\ n \in Int /\ i \in Int
          BY <1>1, <1>2, <1>3, <1>4
        <4> QED BY <4>1
      <3> QED BY <3>1, <3>3, <3>4
    <2> QED BY <1>1, <1>2, <1>3, <1>4, <2>1, <2>2
  <1>6. PICK m \in 0..Len(combined) :
            /\ IsLastNewline(combined, m)
            /\ Unfinished(combined) = SubSeq(combined, m + 1, Len(combined))
            /\ Finished(combined) = SubSeq(combined, 1, m)
    BY <1>4, CutAtNewline
  <1>7. IsLastNewline(all, n + m)
    <2>1. n + m \in 0..Len(all)
      BY <1>1, <1>2, <1>4
    <2>2. n + m > 0 => all[n + m] = Newline
      <3>1. CASE m > 0
        BY <1>4, <1>5, <1>6, <3>1 DEF IsLastNewline
      <3>2. CASE m = 0
        BY <1>1, <1>2, <3>2 DEF IsLastNewline
      <3> QED BY <1>1, <1>6, <3>1, <3>2
    <2>3. ASSUME NEW i \in (n + m + 1)..Len(all) PROVE all[i] # Newline
      <3>1. i - n \in (m + 1)..Len(combined) /\ i - n \in 1..Len(combined) /\ n + (i - n) = i
        BY <1>1, <1>2, <1>4, <1>6
      <3>2. combined[i - n] # Newline
        BY <1>6, <3>1 DEF IsLastNewline
      <3> QED BY <1>5, <3>1, <3>2
    <2> QED BY <2>1, <2>2, <2>3 DEF IsLastNewline
  <1>8. Unfinished(all) = Unfinished(combined)
    <2>1. PICK q \in 0..Len(all) :
            IsLastNewline(all, q) /\ Unfinished(all) = SubSeq(all, q + 1, Len(all))
      BY <1>2, CutAtNewline
    <2>2. q = n + m
      BY <1>2, <1>7, <2>1, LastNewlineIsOne
    <2>3. /\ SubSeq(all, n + m + 1, Len(all)) \in Text
          /\ Len(SubSeq(all, n + m + 1, Len(all))) = Len(all) - (n + m)
          /\ \A i \in 1..(Len(all) - (n + m)) :
                SubSeq(all, n + m + 1, Len(all))[i] = all[n + m + i]
      <3>1. n + m \in 0..Len(all)
        BY <1>7 DEF IsLastNewline
      <3> QED BY <1>2, <3>1, AfterPlace
    <2>4. /\ SubSeq(combined, m + 1, Len(combined)) \in Text
          /\ Len(SubSeq(combined, m + 1, Len(combined))) = Len(combined) - m
          /\ \A i \in 1..(Len(combined) - m) :
                SubSeq(combined, m + 1, Len(combined))[i] = combined[m + i]
      BY <1>4, <1>6, AfterPlace
    <2> DEFINE a == SubSeq(all, n + m + 1, Len(all))
               c == SubSeq(combined, m + 1, Len(combined))
    <2>5. \A i \in 1..Len(a) : a[i] = c[i]
      <3> SUFFICES ASSUME NEW i \in 1..Len(a) PROVE a[i] = c[i]
        OBVIOUS
      <3>1. i \in 1..(Len(all) - (n + m)) /\ i \in 1..(Len(combined) - m) /\ m + i \in 1..Len(combined)
        BY <1>1, <1>2, <1>4, <1>6, <2>3
      <3>2. a[i] = all[n + m + i] /\ c[i] = combined[m + i] /\ n + (m + i) = n + m + i
        BY <1>1, <1>6, <2>3, <2>4, <3>1
      <3> QED BY <1>5, <3>1, <3>2
    <2>6. a \in Text /\ c \in Text /\ Len(a) = Len(c)
      BY <1>1, <1>2, <1>4, <1>6, <2>3, <2>4
    <2> HIDE DEF a, c
    <2>7. a = c
      BY <2>5, <2>6, SeqEqual DEF Text
    <2> QED BY <1>6, <2>1, <2>2, <2>7 DEF a, c
  <1>9. ASSUME NEW r \in RecordsIn(all), r \notin RecordsIn(text)
        PROVE  r \in RecordsIn(Finished(combined))
    <2>1. r \in 1..MaxRecords
      BY <1>9 DEF RecordsIn
    <2>2. PICK i \in 1..(Len(all) - 2) :
            /\ all[i] = <<r, 1>> /\ all[i + 1] = <<r, 2>> /\ all[i + 2] = Newline
            /\ i = 1 \/ all[i - 1] = Newline
      BY <1>2, <1>9, <2>1, RecordOf
    <2>3. MaxRecords \in Nat
      BY FileAssumption
    <2>4. i + 2 <= n + m
      BY <1>2, <1>7, <2>2 DEF IsLastNewline
    <2>5. i + 2 > n
      <3> SUFFICES ASSUME i + 2 <= n PROVE FALSE
        BY <1>1, <2>2, <1>2
      <3>0. /\ i \in 1..Len(text) /\ i + 1 \in 1..Len(text) /\ i + 2 \in 1..Len(text)
            /\ i # 1 => i - 1 \in 1..Len(text)
        BY <1>1, <1>2, <2>2
      <3>1. /\ text[i] = all[i] /\ text[i + 1] = all[i + 1] /\ text[i + 2] = all[i + 2]
            /\ i # 1 => text[i - 1] = all[i - 1]
        BY <1>2, <3>0
      <3>2. i \in 1..(Len(text) - 2)
        BY <1>1, <1>2, <2>2
      <3> QED BY <1>9, <2>1, <2>2, <3>1, <3>2, RecordOf
    <2>6. all[i] # Newline /\ all[i + 1] # Newline
      BY <2>1, <2>2, <2>3 DEF Newline
    <2>7. i > n
      <3> SUFFICES ASSUME i <= n PROVE FALSE
        BY <1>1, <2>2, <1>2
      <3>1. n = i \/ n = i + 1
        BY <1>1, <1>2, <2>2, <2>5
      <3>2. text[n] = Newline /\ all[n] = text[n]
        BY <1>1, <1>2, <2>2 DEF IsLastNewline
      <3> QED BY <2>6, <3>1, <3>2
    <2> DEFINE k == i - n
    <2>8. k \in 1..(m - 2) /\ k + 2 \in 1..Len(combined) /\ n + k = i /\ n \in Nat /\ m \in Nat
          /\ m <= Len(combined)
      BY <1>1, <1>2, <1>4, <1>6, <2>2, <2>4, <2>7
    <2>9. /\ combined[k] = all[i] /\ combined[k + 1] = all[i + 1] /\ combined[k + 2] = all[i + 2]
          /\ k # 1 => combined[k - 1] = all[i - 1]
      <3> HIDE DEF k
      <3>1. k \in 1..Len(combined) /\ k + 1 \in 1..Len(combined) /\ k + 2 \in 1..Len(combined)
            /\ (k # 1 => k - 1 \in 1..Len(combined))
        BY <1>2, <1>4, <2>8
      <3>2. n + (k + 1) = i + 1 /\ n + (k + 2) = i + 2 /\ n + (k - 1) = i - 1
        BY <2>8
      <3> QED BY <1>5, <2>8, <3>1, <3>2
    <2>10. k = 1 \/ combined[k - 1] = Newline
      <3>1. CASE i = 1
        BY <2>7, <2>8, <3>1
      <3>2. CASE i # 1
        BY <2>2, <2>9, <3>2
      <3> QED BY <3>1, <3>2
    <2> DEFINE ended == SubSeq(combined, 1, m)
    <2>11. /\ ended \in Text /\ Len(ended) = m
           /\ \A j \in 1..m : ended[j] = combined[j]
      <3>1. 1 \in 1..(Len(combined) + 1) /\ m \in (1 - 1)..Len(combined) /\ Len(combined) \in Nat
        BY <1>1, <1>2, <1>4, <1>6
      <3>2. /\ ended \in Text /\ Len(ended) = m - 1 + 1
            /\ \A j \in 1..(m - 1 + 1) : ended[j] = combined[1 + j - 1]
        BY <1>4, <3>1, StretchIs
      <3> QED BY <2>8, <3>2
    <2> HIDE DEF k, ended
    <2>12. /\ ended[k] = <<r, 1>> /\ ended[k + 1] = <<r, 2>> /\ ended[k + 2] = Newline
           /\ k = 1 \/ ended[k - 1] = Newline
      BY <2>2, <2>8, <2>9, <2>10, <2>11
    <2>13. r \in RecordsIn(ended)
      BY <2>1, <2>8, <2>11, <2>12, RecordOf
    <2> QED BY <1>6, <2>13 DEF ended
  <1> QED BY <1>3, <1>4, <1>8, <1>9 DEF rest, combined, all

LEMMA NothingRead ==
  /\ <<>> \in Text /\ Unfinished(<<>>) = <<>> /\ RecordsIn(<<>>) = {}
  /\ \A text \in Text : \A n \in Nat : SubSeq(text, n + 1, n) = <<>>
  <1>1. <<>> \in Text /\ Len(<<>>) = 0
    BY DEF Text
  <1>2. PICK k \in 0..Len(<<>>) : Unfinished(<<>>) = SubSeq(<<>>, k + 1, Len(<<>>))
    BY <1>1, CutAtNewline
  <1>3. Unfinished(<<>>) = <<>>
    BY <1>1, <1>2, SubSeqEmpty
  <1>4. RecordsIn(<<>>) = {}
    <2>1. \A r \in 1..MaxRecords : ~(\E i \in 1..(Len(<<>>) - 2) : TRUE)
      BY <1>1
    <2> QED BY <2>1 DEF RecordsIn
  <1>5. ASSUME NEW text \in Text, NEW n \in Nat PROVE SubSeq(text, n + 1, n) = <<>>
    BY SubSeqEmpty
  <1> QED BY <1>1, <1>3, <1>4, <1>5

\* What was read of a text stays as it was when the text grows.
LEMMA ReadStays ==
  ASSUME NEW text \in Text, NEW more \in Text, NEW m \in Nat, NEW n \in m..Len(text)
  PROVE  SubSeq(text \o more, m + 1, n) = SubSeq(text, m + 1, n)
  <1>1. /\ Len(text) \in Nat /\ Len(more) \in Nat
        /\ text \o more \in Text /\ Len(text \o more) = Len(text) + Len(more)
        /\ \A i \in 1..Len(text) : (text \o more)[i] = text[i]
    BY TextsAre
  <1>2. CASE m = n
    BY <1>1, <1>2, NothingRead
  <1>3. CASE m < n
    <2>1. m + 1 \in 1..Len(text) /\ n \in 1..Len(text)
      BY <1>1, <1>3
    <2> QED BY <2>1, SubSeqOfConcat1 DEF Text
  <1> QED BY <1>1, <1>2, <1>3

-----------------------------------------------------------------------------
(* The reader *)

TailerTypes ==
    /\ inode \in Nat /\ appended \in Nat
    /\ file \in Text /\ unwritten \in Text /\ pending \in Text
    /\ known_inode \in 0..inode
    /\ offset \in Nat /\ skipped \in Nat

\* What the reader knows before it has seen a file, and after.
ReaderKnows ==
    /\ present => inode # 0
    /\ pc = "bootstrap" => known_inode = 0
    /\ pc = "read" => known_inode # 0
    /\ known_inode = 0 => offset = 0 /\ skipped = 0 /\ pending = <<>>

ReadSoFar == SubSeq(file, skipped + 1, offset)

\* While the path still names the file the reader knows, the reader is at a
\* place of it, keeps what follows the last newline before that place, and has
\* returned all records before it.
KeepsItsPlace ==
    known_inode = inode =>
        /\ skipped <= offset /\ offset <= Len(file)
        /\ pending = Unfinished(ReadSoFar)
        /\ RecordsIn(ReadSoFar) \subseteq delivered

TailerInv == TailerTypes /\ ReaderKnows /\ KeepsItsPlace

LEMMA TailerInit ==
  CondorInit => TailerInv
  <1> SUFFICES ASSUME CondorInit PROVE TailerInv
    OBVIOUS
  <1>1. /\ inode = 0 /\ appended = 0 /\ file = <<>> /\ unwritten = <<>> /\ pending = <<>>
        /\ known_inode = 0 /\ offset = 0 /\ skipped = 0 /\ ~present /\ pc = "bootstrap"
    BY DEF CondorInit, InitFile
  <1>2. ReadSoFar = <<>>
    BY <1>1, NothingRead DEF ReadSoFar
  <1>3. TailerTypes
    BY <1>1, NothingRead DEF TailerTypes
  <1>4. ReaderKnows
    BY <1>1 DEF ReaderKnows
  <1>5. KeepsItsPlace
    BY <1>1, <1>2, NothingRead DEF KeepsItsPlace
  <1> QED BY <1>3, <1>4, <1>5 DEF TailerInv

\* A reader that has just come to a place it counts from keeps it.
LEMMA AtTheStart ==
  ASSUME file' \in Text, offset' = skipped', skipped' \in 0..Len(file'), pending' = <<>>
  PROVE  KeepsItsPlace'
  <1>1. Len(file') \in Nat
    BY DEF Text
  <1>2. skipped' \in Nat
    BY <1>1
  <1>3. ReadSoFar' = <<>>
    BY <1>2, NothingRead DEF ReadSoFar
  <1> QED BY <1>1, <1>3, NothingRead DEF KeepsItsPlace

LEMMA LineIsText ==
  ASSUME NEW r \in 1..MaxRecords
  PROVE  Line(r) \in Text
  <1>1. <<r, 1>> \in Unit /\ <<r, 2>> \in Unit /\ Newline \in Unit
    BY DEF Unit
  <1> HIDE DEF Newline
  <1> QED BY <1>1 DEF Line, Text

LEMMA TailerWriter ==
  ASSUME TailerInv, WriterStep, UNCHANGED readerVars
  PROVE  TailerInv'
  <1> USE DEF readerVars
  <1>0. Len(file) \in Nat /\ Len(unwritten) \in Nat /\ inode \in Nat /\ known_inode \in 0..inode
    BY DEF TailerInv, TailerTypes, Text
  <1>1. CASE Rotate \/ WriterCrash
    <2>1. UNCHANGED <<inode, appended, file, readerVars>> /\ unwritten' \in Text
      BY <1>1, NothingRead DEF Rotate, WriterCrash, TailerInv, TailerTypes
    <2>2. present' => present
      BY <1>1 DEF Rotate, WriterCrash
    <2>3. ReadSoFar' = ReadSoFar
      BY <2>1 DEF ReadSoFar
    <2> QED BY <2>1, <2>2, <2>3 DEF TailerInv, TailerTypes, ReaderKnows, KeepsItsPlace
  <1>2. CASE OpenAppend
    <2>1. unwritten' \in Text /\ appended' \in Nat
      <3>1. MaxRecords \in Nat /\ appended \in Nat /\ appended < MaxRecords
        BY <1>2, FileAssumption DEF OpenAppend, TailerInv, TailerTypes
      <3>2. appended + 1 \in 1..MaxRecords
        BY <3>1
      <3> QED BY <1>2, <3>1, <3>2, LineIsText DEF OpenAppend
    <2>2. CASE present
      <3>1. UNCHANGED <<inode, file, readerVars>>
        BY <1>2, <2>2 DEF OpenAppend
      <3>2. ReadSoFar' = ReadSoFar
        BY <3>1 DEF ReadSoFar
      <3> QED BY <2>1, <2>2, <3>1, <3>2 DEF TailerInv, TailerTypes, ReaderKnows, KeepsItsPlace
    <2>3. CASE ~present
      <3>1. inode' = inode + 1 /\ file' = <<>> /\ UNCHANGED readerVars
        BY <1>2, <2>3 DEF OpenAppend
      <3>2. inode' \in Nat /\ inode' # 0 /\ known_inode' \in 0..inode' /\ known_inode' # inode'
        BY <1>0, <3>1
      <3>3. TailerTypes'
        BY <2>1, <3>1, <3>2, NothingRead DEF TailerInv, TailerTypes
      <3> QED BY <3>1, <3>2, <3>3 DEF TailerInv, ReaderKnows, KeepsItsPlace
    <2> QED BY <2>2, <2>3
  <1>3. CASE WriteChunk
    <2>1. PICK n \in 1..Len(unwritten) :
              /\ file' = file \o SubSeq(unwritten, 1, n)
              /\ unwritten' = SubSeq(unwritten, n + 1, Len(unwritten))
      BY <1>3 DEF WriteChunk
    <2>2. UNCHANGED <<present, inode, appended, readerVars>>
      BY <1>3 DEF WriteChunk
    <2> DEFINE chunk == SubSeq(unwritten, 1, n)
    <2>3. chunk \in Text /\ unwritten' \in Text
      <3>1. unwritten \in Text
        BY DEF TailerInv, TailerTypes
      <3>2. 1 \in 1..(Len(unwritten) + 1) /\ n \in (1 - 1)..Len(unwritten) /\ n \in 0..Len(unwritten)
        BY <1>0
      <3>3. chunk \in Text
        BY <3>1, <3>2, StretchIs
      <3>4. SubSeq(unwritten, n + 1, Len(unwritten)) \in Text
        BY <3>1, <3>2, AfterPlace
      <3> QED BY <2>1, <3>3, <3>4
    <2>4. file' = file \o chunk
      BY <2>1
    <2> HIDE DEF chunk
    <2>5. /\ Len(chunk) \in Nat /\ file' \in Text /\ Len(file') = Len(file) + Len(chunk)
      BY <2>3, <2>4, TextsAre DEF TailerInv, TailerTypes
    <2>6. TailerTypes' /\ ReaderKnows'
      BY <2>2, <2>3, <2>5 DEF TailerInv, TailerTypes, ReaderKnows
    <2>7. ASSUME known_inode = inode PROVE ReadSoFar' = ReadSoFar /\ offset <= Len(file')
      <3>1. /\ file \in Text /\ skipped \in Nat /\ offset \in skipped..Len(file)
        BY <1>0, <2>7 DEF TailerInv, TailerTypes, KeepsItsPlace
      <3>2. SubSeq(file \o chunk, skipped + 1, offset) = SubSeq(file, skipped + 1, offset)
        BY <2>3, <3>1, ReadStays
      <3>3. offset <= Len(file')
        BY <1>0, <2>5, <3>1
      <3> QED BY <2>2, <2>4, <3>2, <3>3 DEF ReadSoFar
    <2> QED BY <2>2, <2>6, <2>7 DEF TailerInv, KeepsItsPlace
  <1> QED BY <1>1, <1>2, <1>3 DEF WriterStep

LEMMA TailerReader ==
  ASSUME TailerInv, ReaderStep
  PROVE  TailerInv'
  <1>0. /\ inode \in Nat /\ appended \in Nat /\ file \in Text /\ unwritten \in Text
        /\ pending \in Text /\ known_inode \in 0..inode /\ offset \in Nat /\ skipped \in Nat
        /\ Len(file) \in Nat
    BY DEF TailerInv, TailerTypes, Text
  <1>1. CASE Bootstrap
    <2>1. known_inode = 0 /\ offset = 0 /\ skipped = 0 /\ pending = <<>>
      BY <1>1 DEF Bootstrap, TailerInv, ReaderKnows
    <2>2. UNCHANGED <<fileVars, pending>> /\ pc' = "exists"
      BY <1>1 DEF Bootstrap
    <2>3. CASE present
      <3>1. known_inode' = inode /\ offset' = Len(file) /\ skipped' = Len(file)
        BY <1>1, <2>3 DEF Bootstrap
      <3>2. TailerTypes'
        BY <1>0, <2>2, <3>1 DEF TailerTypes, fileVars
      <3>3. ReaderKnows'
        BY <2>2, <2>3, <3>1 DEF TailerInv, ReaderKnows, fileVars
      <3>4. KeepsItsPlace'
        BY <1>0, <2>1, <2>2, <3>1, AtTheStart DEF fileVars
      <3> QED BY <3>2, <3>3, <3>4 DEF TailerInv
    <2>4. CASE ~present
      <3>1. UNCHANGED <<fileVars, known_inode, offset, skipped, pending>>
        BY <1>1, <2>2, <2>4 DEF Bootstrap
      <3>2. TailerTypes'
        BY <1>0, <3>1 DEF TailerTypes, fileVars
      <3>3. ReaderKnows'
        BY <2>1, <2>2, <3>1 DEF TailerInv, ReaderKnows, fileVars
      <3>4. KeepsItsPlace'
        BY <1>0, <2>1, <3>1, AtTheStart DEF fileVars
      <3> QED BY <3>2, <3>3, <3>4 DEF TailerInv
    <2> QED BY <2>3, <2>4
  <1>2. CASE PollExists \/ PollRaises
    <2>1. UNCHANGED <<fileVars, known_inode, offset, pending, delivered, skipped>>
          /\ pc' \in {"stat", "dead"}
      BY <1>2 DEF PollExists, PollRaises
    <2>2. ReadSoFar' = ReadSoFar
      BY <2>1 DEF ReadSoFar, fileVars
    <2> QED BY <2>1, <2>2 DEF TailerInv, TailerTypes, ReaderKnows, KeepsItsPlace, fileVars
  <1>3. CASE PollStat
    <2>1. present /\ inode # 0 /\ known_inode' = inode /\ UNCHANGED <<fileVars, delivered>>
          /\ pc' = "read"
      BY <1>3 DEF PollStat, TailerInv, ReaderKnows
    <2>2. CASE known_inode # 0 /\ (inode # known_inode \/ Len(file) < offset)
      <3>1. offset' = 0 /\ pending' = <<>> /\ skipped' = 0
        BY <1>3, <2>2 DEF PollStat
      <3>2. TailerTypes'
        BY <1>0, <2>1, <3>1, NothingRead DEF TailerTypes, fileVars
      <3>3. ReaderKnows'
        BY <2>1 DEF ReaderKnows, fileVars
      <3>4. KeepsItsPlace'
        BY <1>0, <2>1, <3>1, AtTheStart DEF fileVars
      <3> QED BY <3>2, <3>3, <3>4 DEF TailerInv
    <2>3. CASE ~(known_inode # 0 /\ (inode # known_inode \/ Len(file) < offset))
      <3>1. UNCHANGED <<offset, pending, skipped>>
        BY <1>3, <2>3 DEF PollStat
      <3>2. TailerTypes'
        BY <1>0, <2>1, <3>1 DEF TailerTypes, fileVars
      <3>3. ReaderKnows'
        BY <2>1 DEF ReaderKnows, fileVars
      <3>4. CASE known_inode = 0
        <4>1. offset = 0 /\ skipped = 0 /\ pending = <<>>
          BY <3>4 DEF TailerInv, ReaderKnows
        <4>2. KeepsItsPlace'
          BY <1>0, <2>1, <3>1, <4>1, AtTheStart DEF fileVars
        <4> QED BY <3>2, <3>3, <4>2 DEF TailerInv
      <3>5. CASE known_inode # 0
        <4>1. known_inode = inode
          BY <2>3, <3>5
        <4>2. ReadSoFar' = ReadSoFar
          BY <2>1, <3>1 DEF ReadSoFar, fileVars
        <4>3. KeepsItsPlace'
          BY <2>1, <3>1, <4>1, <4>2 DEF TailerInv, KeepsItsPlace, fileVars
        <4> QED BY <3>2, <3>3, <4>3 DEF TailerInv
      <3> QED BY <3>4, <3>5
    <2> QED BY <2>2, <2>3
  <1>4. CASE PollRead
    <2>1. known_inode # 0 /\ UNCHANGED <<fileVars, known_inode, skipped>> /\ pc' = "exists"
      BY <1>4 DEF PollRead, TailerInv, ReaderKnows
    <2> DEFINE more == SubSeq(file, offset + 1, Len(file))
               combined == pending \o more
    <2>2. CASE ~(offset < Len(file))
      <3>1. UNCHANGED <<offset, pending, delivered>>
        BY <1>4, <2>2 DEF PollRead
      <3>2. ReadSoFar' = ReadSoFar
        BY <2>1, <3>1 DEF ReadSoFar, fileVars
      <3> QED BY <2>1, <3>1, <3>2 DEF TailerInv, TailerTypes, ReaderKnows, KeepsItsPlace, fileVars
    <2>3. CASE offset < Len(file)
      <3>1. /\ offset' = Len(file) /\ pending' = Unfinished(combined)
            /\ delivered' = delivered \union RecordsIn(Finished(combined))
        BY <1>4, <2>3 DEF PollRead, Kept, Deliver
      <3>2. more \in Text
        <4>1. offset \in 0..Len(file)
          BY <1>0, <2>3
        <4> QED BY <1>0, <4>1, AfterPlace
      <3>3. combined \in Text /\ <<>> \in Text
        BY <1>0, <3>2, TextsAre, NothingRead
      <3>4. pending' \in Text
        <4> HIDE DEF combined
        <4> QED BY <3>1, <3>3, NothingRead, MoreText
      <3>5. TailerTypes'
        BY <1>0, <2>1, <3>1, <3>4 DEF TailerTypes, fileVars
      <3>6. ReaderKnows'
        BY <2>1 DEF TailerInv, ReaderKnows, fileVars
      <3>7. ASSUME known_inode = inode PROVE KeepsItsPlace'
        <4>1. /\ skipped \in 0..Len(file) /\ skipped <= offset
              /\ pending = Unfinished(ReadSoFar) /\ RecordsIn(ReadSoFar) \subseteq delivered
          BY <1>0, <2>3, <3>7 DEF TailerInv, KeepsItsPlace
        <4>2. ReadSoFar \in Text
          <5>1. skipped + 1 \in 1..(Len(file) + 1) /\ offset \in (skipped + 1 - 1)..Len(file)
            BY <1>0, <2>3, <4>1
          <5> QED BY <1>0, <5>1, StretchIs DEF ReadSoFar
        <4>3. ReadSoFar' = ReadSoFar \o more
          <5>1. offset \in skipped..Len(file)
            BY <1>0, <2>3, <4>1
          <5>2. SubSeq(file, skipped + 1, offset) \o more = SubSeq(file, skipped + 1, Len(file))
            BY <1>0, <4>1, <5>1, Adjoining
          <5> QED BY <2>1, <3>1, <5>2 DEF ReadSoFar, fileVars
        <4> HIDE DEF more
        <4>4. /\ Unfinished(ReadSoFar \o more) = Unfinished(combined)
              /\ RecordsIn(ReadSoFar \o more)
                    \subseteq RecordsIn(ReadSoFar) \union RecordsIn(Finished(combined))
          BY <3>2, <4>1, <4>2, MoreText
        <4> HIDE DEF combined
        <4>5. /\ pending' = Unfinished(ReadSoFar') /\ RecordsIn(ReadSoFar') \subseteq delivered'
          BY <3>1, <4>1, <4>3, <4>4
        <4>6. skipped' <= offset' /\ offset' <= Len(file')
          BY <1>0, <2>1, <3>1, <4>1 DEF fileVars
        <4> QED BY <4>5, <4>6 DEF KeepsItsPlace
      <3>8. ASSUME known_inode # inode PROVE KeepsItsPlace'
        BY <2>1, <3>8 DEF KeepsItsPlace, fileVars
      <3> QED BY <3>5, <3>6, <3>7, <3>8 DEF TailerInv
    <2> QED BY <2>2, <2>3
  <1> QED BY <1>1, <1>2, <1>3, <1>4 DEF ReaderStep

LEMMA TailerInvariant ==
  CondorSpec => []TailerInv
  <1>1. ASSUME TailerInv, [CondorNext]_condorVars PROVE TailerInv'
    <2>1. CASE WriterStep /\ UNCHANGED readerVars
      BY <1>1, <2>1, TailerWriter
    <2>2. CASE ReaderStep
      BY <1>1, <2>2, TailerReader
    <2>3. CASE UNCHANGED condorVars
      <3>1. UNCHANGED <<fileVars, readerVars>>
        BY <2>3 DEF condorVars
      <3>2. ReadSoFar' = ReadSoFar
        BY <3>1 DEF ReadSoFar, fileVars, readerVars
      <3> QED BY <1>1, <3>1, <3>2
            DEF TailerInv, TailerTypes, ReaderKnows, KeepsItsPlace, fileVars, readerVars
    <2> QED BY <1>1, <2>1, <2>2, <2>3 DEF CondorNext
  <1> QED BY <1>1, TailerInit, PTL DEF CondorSpec

\* No line of the file being read is passed over, however the writer's chunks,
\* rotations and crashes fall between the reader's looks at the path
\* (JsonlTailer.poll of derive_grid_plan and its copies).
THEOREM PassesNoLineOver ==
  CondorSpec => []CondorPassesNoLineOver
  <1>1. TailerInv => CondorPassesNoLineOver
    BY DEF TailerInv, KeepsItsPlace, ReadSoFar, CondorPassesNoLineOver
  <1> QED BY <1>1, TailerInvariant, PTL
================================================================================
