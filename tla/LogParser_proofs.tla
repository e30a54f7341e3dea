-------------------------- MODULE LogParser_proofs --------------------------
(***************************************************************************)
(* Proofs about LogParser for logs of any length, any number of seconds and  *)
(* any distances.  Three invariants, each inductive with those before it:    *)
(* what the counts of a log say (CountInv), which run of the receiver a       *)
(* section lies in (RunInv), and what is reported (ReportInv).               *)
(***************************************************************************)
EXTENDS LogParser, TLAPS

Runs    == {<<>>} \cup (Seconds \X Seconds)
Section == [start : Seconds, end : Seconds]
LogRecord == [read : Nat, lines : [Seconds -> Nat], last : Seconds,
              runs : SUBSET Runs, open : Runs, places : SUBSET Places]
ReadTypes ==
  /\ log \in [Nodes -> LogRecord]
  /\ persec \in [Nodes -> [Seconds -> Nat]]
  /\ sections \in [Nodes -> Seq(Section)]
  /\ reader \in [Nodes -> [newfile : BOOLEAN, last : Places \cup {NotSeen},
                           ended : BOOLEAN]]

(* Only lines of the first second of a section, or of before the first, may  *)
(* be missing in the count of a log without outliers.                        *)
Timed(n)  == \A t \in Seconds : log[n].lines[t] > 0 => t <= log[n].last
Begun(n)  == sections[n] # <<>> => log[n].read >= Skipped
Seen(n)   == reader[n].last # NotSeen => reader[n].last \in log[n].places
Bounded(n) == \A t \in Seconds : persec[n][t] <= log[n].lines[t]
Missing(n) ==
  \A t \in Seconds : OnePlace(n) /\ persec[n][t] < log[n].lines[t] =>
    \A i \in 1 .. Len(sections[n]) : t <= sections[n][i].start
Counts(n) == Timed(n) /\ Begun(n) /\ Seen(n) /\ Bounded(n) /\ Missing(n)
CountInv == ReadTypes /\ \A n \in Nodes : Counts(n)

(* A section that has an end lies in one run of the receiver.                *)
OpenRun(n) ==
  log[n].open # <<>> => log[n].open[1] <= log[n].open[2] /\ log[n].open[2] = log[n].last
Within(n) ==
  ~reader[n].newfile =>
    /\ sections[n] # <<>> /\ log[n].open # <<>>
    /\ log[n].open[1] <= sections[n][Len(sections[n])].start
Between(n) ==
  reader[n].newfile /\ sections[n] # <<>> =>
    log[n].open = <<>> /\ sections[n][Len(sections[n])].end = log[n].last
Holds(r, s) == r # <<>> /\ r[1] <= s.start /\ s.end <= r[2]
Covered(n) ==
  \A i \in 1 .. Len(sections[n]) :
    \/ sections[n][i].end = 0
    \/ \E r \in log[n].runs \cup {log[n].open} : Holds(r, sections[n][i])
Ran(n) == OpenRun(n) /\ Within(n) /\ Between(n) /\ Covered(n)
RunInv == \A n \in Nodes : Ran(n)

(* A rate is that of its second in the two logs, which are read.             *)
ReportInv ==
  /\ report = [at |-> report.at, rate |-> report.rate]
  /\ report.rate \in [Seconds -> Int]
  /\ report.at # NotSeen => \A n \in Nodes : reader[n].ended
  /\ \A t \in Seconds : report.rate[t] # NotSeen =>
       /\ \A n \in Nodes : reader[n].ended /\ SearchSection(n, t)
       /\ report.rate[t] = Rate(persec[Node1][t], persec[Node2][t])

Inv == CountInv /\ RunInv /\ ReportInv

-----------------------------------------------------------------------------
(* EndSection changes one end, and nothing else of any section.              *)
LEMMA EndSectionEffect ==
  ASSUME ReadTypes, NEW n \in Nodes, sections[n] # <<>>, EndSection(n)
  PROVE  /\ sections' \in [Nodes -> Seq(Section)]
         /\ \A m \in Nodes :
              /\ Len(sections'[m]) = Len(sections[m])
              /\ m # n => sections'[m] = sections[m]
              /\ \A i \in 1 .. Len(sections[m]) :
                   sections'[m][i].start = sections[m][i].start
         /\ \A i \in 1 .. Len(sections[n]) - 1 : sections'[n][i] = sections[n][i]
         /\ sections'[n][Len(sections[n])].end = log[n].last
         /\ sections'[n] # <<>>
<1> DEFINE s == sections[n]
           k == Len(s)
           new == [s EXCEPT ![k].end = log[n].last]
<1>1. s \in Seq(Section) /\ k \in Nat /\ k # 0 /\ s \in [1 .. k -> Section]
  BY DEF ReadTypes
<1>2. sections' = [sections EXCEPT ![n] = new]
  BY <1>1 DEF EndSection
<1>3. log[n].last \in Seconds
  BY DEF ReadTypes, LogRecord
<1>4. s[k] \in Section
  BY <1>1
<1>5. [s[k] EXCEPT !.end = log[n].last] \in Section
  BY <1>3, <1>4 DEF Section
<1>6. new \in [1 .. k -> Section]
  BY <1>1, <1>5
<1>7. new \in Seq(Section) /\ Len(new) = k
  BY <1>1, <1>6
<1>8. /\ \A i \in 1 .. k : new[i].start = s[i].start
      /\ \A i \in 1 .. k - 1 : new[i] = s[i]
      /\ new[k].end = log[n].last
  <2>1. \A i \in 1 .. k - 1 : new[i] = s[i] /\ i # k
    BY <1>1
  <2>2. new[k] = [s[k] EXCEPT !.end = log[n].last]
    BY <1>1
  <2>3. new[k].start = s[k].start /\ new[k].end = log[n].last
    BY <1>4, <2>2 DEF Section
  <2>4. QED
    BY <1>1, <2>1, <2>3
<1>9. sections'[n] = new /\ \A m \in Nodes : m # n => sections'[m] = sections[m]
  BY <1>2 DEF ReadTypes
<1>10. sections' \in [Nodes -> Seq(Section)]
  BY <1>2, <1>7 DEF ReadTypes
<1>11. new # <<>>
  BY <1>1, <1>7
<1>12. QED
  BY <1>1, <1>7, <1>8, <1>9, <1>10, <1>11

(* A line may open a section, and changes none that is there.                *)
LEMMA AppendEffect ==
  ASSUME ReadTypes, NEW n \in Nodes, NEW s \in Section,
         sections' = [sections EXCEPT ![n] = Append(@, s)]
  PROVE  /\ sections' \in [Nodes -> Seq(Section)]
         /\ \A m \in Nodes : m # n => sections'[m] = sections[m]
         /\ Len(sections'[n]) = Len(sections[n]) + 1
         /\ \A i \in 1 .. Len(sections[n]) : sections'[n][i] = sections[n][i]
         /\ sections'[n][Len(sections[n]) + 1] = s
         /\ sections'[n] # <<>>
<1>1. sections[n] \in Seq(Section)
  BY DEF ReadTypes
<1>2. /\ Append(sections[n], s) \in Seq(Section)
      /\ Len(Append(sections[n], s)) = Len(sections[n]) + 1
      /\ \A i \in 1 .. Len(sections[n]) : Append(sections[n], s)[i] = sections[n][i]
      /\ Append(sections[n], s)[Len(sections[n]) + 1] = s
      /\ Append(sections[n], s) # <<>>
  BY <1>1
<1>3. sections'[n] = Append(sections[n], s)
  BY DEF ReadTypes
<1>4. \A m \in Nodes : m # n => sections'[m] = sections[m]
  BY DEF ReadTypes
<1>5. sections' \in [Nodes -> Seq(Section)]
  BY <1>2 DEF ReadTypes
<1>6. QED
  BY <1>2, <1>3, <1>4, <1>5

(* What a header and a line of the file change of the log.                   *)
LEMMA HeaderEffect ==
  ASSUME ReadTypes, NEW n \in Nodes, IsHeader(n)
  PROVE  /\ log' \in [Nodes -> LogRecord]
         /\ \A m \in Nodes : m # n => log'[m] = log[m]
         /\ log'[n].read = log[n].read + 1 /\ log'[n].lines = log[n].lines
         /\ log'[n].last = log[n].last /\ log'[n].places = log[n].places
         /\ log'[n].runs = log[n].runs \cup {log[n].open} /\ log'[n].open = <<>>
<1> DEFINE r == log[n]
           new == [r EXCEPT !.read = r.read + 1, !.runs = r.runs \cup {r.open},
                            !.open = <<>>]
<1>1. r \in LogRecord
  BY DEF ReadTypes
<1>2. /\ r.read + 1 \in Nat /\ r.runs \cup {r.open} \in SUBSET Runs
      /\ <<>> \in Runs
  BY <1>1 DEF LogRecord, Runs
<1>3. /\ new \in LogRecord
      /\ new.read = r.read + 1 /\ new.lines = r.lines /\ new.last = r.last
      /\ new.runs = r.runs \cup {r.open} /\ new.open = <<>> /\ new.places = r.places
  <2> DEFINE a == r.read + 1
             d == r.runs \cup {r.open}
             q == [r EXCEPT !.read = a, !.runs = d, !.open = <<>>]
  <2>1. q = new
    OBVIOUS
  <2>2. a \in Nat /\ d \in SUBSET Runs /\ <<>> \in Runs
    BY <1>2
  <2> HIDE DEF r, a, d, new
  <2>3. q \in LogRecord
    BY <1>1, <2>2 DEF LogRecord
  <2>4. q.read = a /\ q.runs = d /\ q.open = <<>>
    BY <1>1, <2>2 DEF LogRecord
  <2>5. q.lines = r.lines /\ q.last = r.last /\ q.places = r.places
    BY <1>1, <2>2 DEF LogRecord
  <2> HIDE DEF q
  <2>6. QED
    BY <2>1, <2>3, <2>4, <2>5 DEF a, d
<1>4. log' = [log EXCEPT ![n] = new]
  BY DEF IsHeader
<1> HIDE DEF new
<1>5. log'[n] = new /\ \A m \in Nodes : m # n => log'[m] = log[m]
  BY <1>4 DEF ReadTypes
<1>6. log' \in [Nodes -> LogRecord]
  BY <1>3, <1>4 DEF ReadTypes
<1>7. QED
  BY <1>3, <1>5, <1>6

(* What a line adds to the log of a node.                                   *)
LEMMA LineEffect ==
  ASSUME ReadTypes, NEW n \in Nodes, NEW t \in Seconds, NEW ps \in SUBSET Places,
         IsLine(n, t, ps)
  PROVE  /\ log[n].last <= t
         /\ log' \in [Nodes -> LogRecord]
         /\ \A m \in Nodes : m # n => log'[m] = log[m]
         /\ log'[n].read = log[n].read + 1
         /\ log'[n].lines = [log[n].lines EXCEPT ![t] = @ + 1]
         /\ log'[n].last = t /\ log'[n].places = log[n].places \cup ps
         /\ log'[n].runs = log[n].runs
         /\ log'[n].open = IF log[n].open = <<>> THEN <<t, t>> ELSE <<log[n].open[1], t>>
         /\ log'[n].open # <<>>
<1> DEFINE r == log[n]
           lines == [r.lines EXCEPT ![t] = @ + 1]
           open == IF r.open = <<>> THEN <<t, t>> ELSE <<r.open[1], t>>
           new == [r EXCEPT !.read = r.read + 1, !.lines = lines, !.last = t,
                            !.places = r.places \cup ps, !.open = open]
<1>1. r \in LogRecord
  BY DEF ReadTypes
<1>2. r.open = <<>> \/ r.open \in Seconds \X Seconds
  BY <1>1 DEF Runs, LogRecord
<1>3. open \in Seconds \X Seconds /\ open # <<>>
  BY <1>2
<1>4. /\ r.read + 1 \in Nat /\ r.places \cup ps \in SUBSET Places
      /\ lines \in [Seconds -> Nat] /\ open \in Runs
  BY <1>1, <1>3 DEF LogRecord, Runs
<1>5. /\ new \in LogRecord
      /\ new.read = r.read + 1 /\ new.lines = lines /\ new.last = t
      /\ new.runs = r.runs /\ new.open = open /\ new.places = r.places \cup ps
  <2> DEFINE a == r.read + 1
             p == r.places \cup ps
             q == [r EXCEPT !.read = a, !.lines = lines, !.last = t, !.places = p,
                            !.open = open]
  <2>1. q = new
    OBVIOUS
  <2>2. a \in Nat /\ p \in SUBSET Places /\ lines \in [Seconds -> Nat] /\ open \in Runs
    BY <1>4
  <2> HIDE DEF r, a, p, lines, open, new
  <2>3. q \in LogRecord
    BY <1>1, <2>2 DEF LogRecord
  <2>4. q.read = a /\ q.lines = lines /\ q.last = t
    BY <1>1, <2>2 DEF LogRecord
  <2>5. q.runs = r.runs /\ q.open = open /\ q.places = p
    BY <1>1, <2>2 DEF LogRecord
  <2> HIDE DEF q
  <2>6. QED
    BY <2>1, <2>3, <2>4, <2>5 DEF a, p
<1>6. log[n].last <= t /\ log' = [log EXCEPT ![n] = new]
  BY DEF IsLine
<1> HIDE DEF new
<1>7. log'[n] = new /\ \A m \in Nodes : m # n => log'[m] = log[m]
  BY <1>6 DEF ReadTypes
<1>8. log' \in [Nodes -> LogRecord]
  BY <1>5, <1>6 DEF ReadTypes
<1>9. QED
  BY <1>3, <1>5, <1>6, <1>7, <1>8

-----------------------------------------------------------------------------
(* CountInv.                                                                 *)
LEMMA OtherCounts ==
  ASSUME NEW m \in Nodes, Counts(m), log'[m] = log[m], persec'[m] = persec[m],
         sections'[m] = sections[m], reader'[m] = reader[m]
  PROVE  Counts(m)'
BY DEF Counts, Timed, Begun, Seen, Bounded, Missing, OnePlace

(* Nothing is read at the start.                                            *)
LEMMA CountInit == ParserInit => CountInv
<1> SUFFICES ASSUME ParserInit PROVE CountInv
  OBVIOUS
<1>1. 0 \in Seconds
  BY ParserAssumption DEF Seconds
<1>2. ReadTypes
  <2>1. [read |-> 1, lines |-> [t \in Seconds |-> 0], last |-> 0, runs |-> {},
         open |-> <<>>, places |-> {}] \in LogRecord
    BY <1>1 DEF LogRecord, Runs
  <2>2. log \in [Nodes -> LogRecord]
    BY <2>1 DEF ParserInit
  <2>3. /\ persec \in [Nodes -> [Seconds -> Nat]]
        /\ sections \in [Nodes -> Seq(Section)]
        /\ reader \in [Nodes -> [newfile : BOOLEAN, last : Places \cup {NotSeen},
                                 ended : BOOLEAN]]
    BY DEF ParserInit
  <2>4. QED
    BY <2>2, <2>3 DEF ReadTypes
<1>3. ASSUME NEW n \in Nodes PROVE Counts(n)
  <2>1. /\ \A t \in Seconds : log[n].lines[t] = 0 /\ persec[n][t] = 0
        /\ sections[n] = <<>> /\ reader[n].last = NotSeen
    BY DEF ParserInit
  <2>2. QED
    BY <2>1 DEF Counts, Timed, Begun, Seen, Bounded, Missing
<1>4. QED
  BY <1>2, <1>3 DEF CountInv

(* A skipped line may be missing, in the first second of a section only.    *)
LEMMA SkipCounts == ASSUME CountInv, NEW n \in Nodes, Skip(n) PROVE CountInv'
<1>1. ReadTypes /\ Counts(n) /\ sections' = sections /\ persec' = persec /\ reader' = reader
  BY DEF CountInv, Skip
<1>2. sections[n] = <<>>
  BY <1>1, ParserAssumption DEF Skip, Counts, Begun, ReadTypes, LogRecord
<1>3. log' \in [Nodes -> LogRecord] /\ \A m \in Nodes : m # n => log'[m] = log[m]
  BY <1>1, HeaderEffect, LineEffect DEF Skip
<1>4. /\ log[n].places \subseteq log'[n].places
      /\ \A t \in Seconds :
           /\ log'[n].lines[t] >= log[n].lines[t]
           /\ log'[n].lines[t] > 0 => t <= log'[n].last
  <2>0. log[n] \in LogRecord
    BY <1>1 DEF ReadTypes
  <2>1. CASE IsHeader(n)
    BY <2>0, <2>1, <1>1, HeaderEffect DEF LogRecord, Counts, Timed
  <2>2. CASE \E t \in Seconds : IsLine(n, t, {})
    <3>1. PICK t \in Seconds : IsLine(n, t, {})
      BY <2>2
    <3>2. /\ log[n].last <= t /\ log'[n].last = t
          /\ log'[n].lines = [log[n].lines EXCEPT ![t] = @ + 1]
          /\ log'[n].places = log[n].places \cup {}
      BY <1>1, <3>1, LineEffect
    <3>3. \A u \in Seconds : u \in Int
      BY DEF Seconds
    <3>4. QED
      BY <2>0, <3>2, <3>3, <1>1 DEF LogRecord, Counts, Timed
  <2>3. QED
    BY <2>1, <2>2 DEF Skip
<1>5. Counts(n)'
  <2>1. log[n] \in LogRecord /\ log'[n] \in LogRecord /\ persec[n] \in [Seconds -> Nat]
    BY <1>1, <1>3 DEF ReadTypes
  <2>2. Timed(n)'
    BY <1>4 DEF Timed
  <2>3. Begun(n)' /\ Missing(n)'
    BY <1>1, <1>2 DEF Begun, Missing
  <2>4. Seen(n)'
    BY <1>1, <1>4 DEF Seen, Counts
  <2>5. Bounded(n)'
    BY <1>1, <1>4, <2>1 DEF Bounded, Counts, LogRecord
  <2>6. QED
    BY <2>2, <2>3, <2>4, <2>5 DEF Counts
<1>6. QED
  BY <1>1, <1>3, <1>5, OtherCounts DEF CountInv, ReadTypes

(* A header ends the open section.                                          *)
LEMMA HeaderCounts == ASSUME CountInv, NEW n \in Nodes, ReadHeader(n) PROVE CountInv'
<1>1. ReadTypes /\ Counts(n) /\ persec' = persec /\ log[n].read >= Skipped
  BY DEF CountInv, ReadHeader
<1>2. /\ sections' \in [Nodes -> Seq(Section)]
      /\ \A m \in Nodes : m # n => sections'[m] = sections[m]
      /\ Len(sections'[n]) = Len(sections[n])
      /\ \A i \in 1 .. Len(sections[n]) : sections'[n][i].start = sections[n][i].start
  BY <1>1, EndSectionEffect DEF ReadHeader, NoEmptyStart
<1>3. /\ log' \in [Nodes -> LogRecord] /\ \A m \in Nodes : m # n => log'[m] = log[m]
      /\ log'[n].read = log[n].read + 1 /\ log'[n].lines = log[n].lines
      /\ log'[n].last = log[n].last /\ log'[n].places = log[n].places
  BY <1>1, HeaderEffect DEF ReadHeader
<1>4. /\ reader' \in [Nodes -> [newfile : BOOLEAN, last : Places \cup {NotSeen},
                                ended : BOOLEAN]]
      /\ \A m \in Nodes : m # n => reader'[m] = reader[m]
      /\ reader'[n].last = NotSeen
  BY <1>1 DEF ReadHeader, ReadTypes
<1>5. Counts(n)'
  <2>1. Timed(n)' /\ Seen(n)' /\ Bounded(n)'
    BY <1>1, <1>3, <1>4 DEF Counts, Timed, Seen, Bounded
  <2>2. Begun(n)'
    BY <1>1, <1>3, ParserAssumption DEF Begun, ReadTypes, LogRecord
  <2>3. Missing(n)'
    BY <1>1, <1>2, <1>3 DEF Counts, Missing, OnePlace
  <2>4. QED
    BY <2>1, <2>2, <2>3 DEF Counts
<1>6. QED
  BY <1>1, <1>2, <1>3, <1>4, <1>5, OtherCounts DEF CountInv, ReadTypes

(* A line is counted in its second.                                         *)
LEMMA LineCounts == ASSUME CountInv, NEW n \in Nodes, ReadLine(n) PROVE CountInv'
<1>1. ReadTypes /\ Counts(n) /\ log[n].read >= Skipped
  BY DEF CountInv, ReadLine
<1>2. PICK l \in Lines :
        /\ IsLine(n, l.time, {l.place})
        /\ sections' = IF reader[n].newfile
             THEN [sections EXCEPT ![n] = Append(@, [start |-> l.time, end |-> 0])]
             ELSE sections
        /\ reader' = [reader EXCEPT ![n].newfile = FALSE,
                        ![n].last = IF Outlier(n, l) THEN @ ELSE l.place]
        /\ persec' = IF Outlier(n, l) THEN persec
                     ELSE [persec EXCEPT ![n][l.time] = @ + 1]
  BY DEF ReadLine
<1>3. l.time \in Seconds /\ l.place \in Places /\ 0 \in Seconds
  BY ParserAssumption DEF Lines, Seconds
<1>4. /\ log[n].last <= l.time
      /\ log' \in [Nodes -> LogRecord] /\ \A m \in Nodes : m # n => log'[m] = log[m]
      /\ log'[n].read = log[n].read + 1
      /\ log'[n].lines = [log[n].lines EXCEPT ![l.time] = @ + 1]
      /\ log'[n].last = l.time /\ log'[n].places = log[n].places \cup {l.place}
  <2>1. {l.place} \in SUBSET Places
    BY <1>3
  <2>2. IsLine(n, l.time, {l.place})
    BY <1>2
  <2> DEFINE t == l.time
             ps == {l.place}
  <2>3. ReadTypes /\ t \in Seconds /\ ps \in SUBSET Places /\ IsLine(n, t, ps)
    BY <1>1, <1>3, <2>1, <2>2
  <2> HIDE DEF t, ps
  <2>4. /\ log[n].last <= t
        /\ log' \in [Nodes -> LogRecord] /\ \A m \in Nodes : m # n => log'[m] = log[m]
        /\ log'[n].read = log[n].read + 1
        /\ log'[n].lines = [log[n].lines EXCEPT ![t] = @ + 1]
        /\ log'[n].last = t /\ log'[n].places = log[n].places \cup ps
    BY <2>3, LineEffect
  <2>5. QED
    BY <2>4 DEF t, ps
<1>5. [start |-> l.time, end |-> 0] \in Section
  BY <1>3 DEF Section
<1>6. /\ sections' \in [Nodes -> Seq(Section)]
      /\ \A m \in Nodes : m # n => sections'[m] = sections[m]
      /\ \A i \in 1 .. Len(sections'[n]) :
           \/ i \in 1 .. Len(sections[n]) /\ sections'[n][i] = sections[n][i]
           \/ sections'[n][i].start = l.time
  <2>1. CASE reader[n].newfile
    <3>1. sections[n] \in Seq(Section) /\ Len(sections[n]) \in Nat
      BY <1>1 DEF ReadTypes
    <3>2. sections' = [sections EXCEPT ![n] = Append(@, [start |-> l.time, end |-> 0])]
      BY <1>2, <2>1
    <3> DEFINE s == [start |-> l.time, end |-> 0]
    <3>3. s \in Section /\ s.start = l.time
      BY <1>5
    <3>4. sections' = [sections EXCEPT ![n] = Append(@, s)]
      BY <3>2
    <3> HIDE DEF s
    <3>5. /\ sections' \in [Nodes -> Seq(Section)]
          /\ \A m \in Nodes : m # n => sections'[m] = sections[m]
          /\ Len(sections'[n]) = Len(sections[n]) + 1
          /\ \A i \in 1 .. Len(sections[n]) : sections'[n][i] = sections[n][i]
          /\ sections'[n][Len(sections[n]) + 1] = s
      BY <1>1, <3>3, <3>4, AppendEffect
    <3>6. \A i \in 1 .. Len(sections'[n]) :
            i \in 1 .. Len(sections[n]) \/ i = Len(sections[n]) + 1
      BY <3>1, <3>5
    <3>7. QED
      BY <3>3, <3>5, <3>6
  <2>2. CASE ~reader[n].newfile
    BY <1>1, <1>2, <2>2 DEF ReadTypes
  <2>3. QED
    BY <2>1, <2>2
<1>7. /\ reader' \in [Nodes -> [newfile : BOOLEAN, last : Places \cup {NotSeen},
                                ended : BOOLEAN]]
      /\ \A m \in Nodes : m # n => reader'[m] = reader[m]
      /\ reader'[n].last = IF Outlier(n, l) THEN reader[n].last ELSE l.place
  BY <1>1, <1>2, <1>3 DEF ReadTypes
<1>8. /\ persec' \in [Nodes -> [Seconds -> Nat]]
      /\ \A m \in Nodes : m # n => persec'[m] = persec[m]
      /\ persec'[n] = IF Outlier(n, l) THEN persec[n]
                      ELSE [persec[n] EXCEPT ![l.time] = @ + 1]
  BY <1>1, <1>2, <1>3 DEF ReadTypes
<1>9. Counts(n)'
  <2>1. /\ log[n].lines \in [Seconds -> Nat] /\ persec[n] \in [Seconds -> Nat]
        /\ log[n].read \in Nat /\ log[n].last \in Seconds
        /\ \A t \in Seconds : t \in Int
    BY <1>1 DEF ReadTypes, LogRecord, Seconds
  <2>2. Timed(n)'
    BY <1>1, <1>3, <1>4, <2>1 DEF Counts, Timed
  <2>3. Begun(n)'
    BY <1>1, <1>4, <2>1, ParserAssumption DEF Begun
  <2>4. Seen(n)'
    BY <1>1, <1>4, <1>7 DEF Counts, Seen, Outlier
  <2>5. Bounded(n)'
    BY <1>1, <1>3, <1>4, <1>8, <2>1 DEF Counts, Bounded
  <2>6. Missing(n)'
    <3>1. SUFFICES ASSUME NEW t \in Seconds, OnePlace(n)', persec'[n][t] < log'[n].lines[t],
                          NEW i \in 1 .. Len(sections'[n])
                   PROVE  t <= sections'[n][i].start
      BY DEF Missing
    <3>2. OnePlace(n) /\ ~Outlier(n, l)
      BY <1>1, <1>4, <3>1 DEF OnePlace, Outlier, Counts, Seen
    <3>3. persec[n][t] < log[n].lines[t]
      <4>1. /\ log'[n].lines = [log[n].lines EXCEPT ![l.time] = @ + 1]
            /\ persec'[n] = [persec[n] EXCEPT ![l.time] = @ + 1]
        BY <1>4, <1>8, <3>2
      <4>2. CASE t = l.time
        <5>1. /\ log'[n].lines[t] = log[n].lines[t] + 1
              /\ persec'[n][t] = persec[n][t] + 1
          BY <2>1, <4>1, <4>2
        <5>2. log[n].lines[t] \in Nat /\ persec[n][t] \in Nat
          BY <2>1
        <5>3. QED
          BY <3>1, <5>1, <5>2
      <4>3. CASE t # l.time
        BY <2>1, <3>1, <4>1, <4>3
      <4>4. QED
        BY <4>2, <4>3
    <3>4. t <= log[n].last
      BY <1>1, <2>1, <3>3 DEF Counts, Timed
    <3>5. CASE i \in 1 .. Len(sections[n]) /\ sections'[n][i] = sections[n][i]
      BY <1>1, <3>2, <3>3, <3>5 DEF Counts, Missing
    <3>6. CASE sections'[n][i].start = l.time
      BY <1>3, <1>4, <2>1, <3>4, <3>6
    <3>7. QED
      BY <1>6, <3>5, <3>6
  <2>7. QED
    BY <2>2, <2>3, <2>4, <2>5, <2>6 DEF Counts
<1>10. QED
  BY <1>1, <1>4, <1>6, <1>7, <1>8, <1>9, OtherCounts DEF CountInv, ReadTypes

(* The end of the log ends the open section.                                *)
LEMMA EndCounts == ASSUME CountInv, NEW n \in Nodes, EndOfFile(n) PROVE CountInv'
<1>1. ReadTypes /\ Counts(n) /\ log' = log /\ persec' = persec
  BY DEF CountInv, EndOfFile
<1>2. /\ sections' \in [Nodes -> Seq(Section)]
      /\ \A m \in Nodes : m # n => sections'[m] = sections[m]
      /\ Len(sections'[n]) = Len(sections[n]) /\ sections[n] # <<>>
      /\ \A i \in 1 .. Len(sections[n]) : sections'[n][i].start = sections[n][i].start
  BY <1>1, EndSectionEffect DEF EndOfFile, NoEmptyStart
<1>3. /\ reader' \in [Nodes -> [newfile : BOOLEAN, last : Places \cup {NotSeen},
                                ended : BOOLEAN]]
      /\ \A m \in Nodes : m # n => reader'[m] = reader[m]
      /\ reader'[n].last = reader[n].last
  BY <1>1 DEF EndOfFile, ReadTypes
<1>4. Counts(n)'
  <2>1. Timed(n)' /\ Seen(n)' /\ Bounded(n)' /\ Begun(n)'
    BY <1>1, <1>2, <1>3 DEF Counts, Timed, Seen, Bounded, Begun
  <2>2. Missing(n)'
    BY <1>1, <1>2 DEF Counts, Missing, OnePlace
  <2>3. QED
    BY <2>1, <2>2 DEF Counts
<1>5. QED
  BY <1>1, <1>2, <1>3, <1>4, OtherCounts DEF CountInv, ReadTypes

(* A step that reads no log changes no count.                               *)
LEMMA StillCounts ==
  ASSUME CountInv, UNCHANGED <<log, persec, sections, reader>> PROVE CountInv'
<1>1. ReadTypes'
  BY DEF CountInv, ReadTypes
<1>2. QED
  BY <1>1, OtherCounts DEF CountInv

(* CountInv is inductive.                                                   *)
LEMMA CountNext == ASSUME CountInv, [ParserNext]_parserVars PROVE CountInv'
<1>1. CASE \E n \in Nodes : Skip(n) \/ ReadHeader(n) \/ ReadLine(n) \/ EndOfFile(n)
  BY <1>1, SkipCounts, HeaderCounts, LineCounts, EndCounts
<1>2. CASE ReportStart \/ ReportSecond
  BY <1>2, StillCounts DEF ReportStart, ReportSecond
<1>3. CASE UNCHANGED parserVars
  BY <1>3, StillCounts DEF parserVars
<1>4. QED
  BY <1>1, <1>2, <1>3 DEF ParserNext

(* For a second strictly inside of a section the count is that of the lines  *)
(* of the log (node.cpp:104-207, 265-280), whatever the lines, the headers   *)
(* and their times are.                                                      *)
THEOREM InnerCounts == ParserSpec => []InnerSecondsExact
<1>1. CountInv => InnerSecondsExact
  <2>1. SUFFICES ASSUME CountInv, NEW n \in Nodes, NEW t \in Seconds, SearchSection(n, t)
                 PROVE  /\ persec[n][t] <= log[n].lines[t]
                        /\ OnePlace(n) => persec[n][t] = log[n].lines[t]
    BY DEF InnerSecondsExact
  <2>2. /\ persec[n][t] <= log[n].lines[t]
        /\ persec[n][t] \in Nat /\ log[n].lines[t] \in Nat
        /\ sections[n] \in Seq(Section)
    BY <2>1 DEF CountInv, Counts, Bounded, ReadTypes, LogRecord
  <2>3. PICK i \in 1 .. Len(sections[n]) : sections[n][i].start < t
    BY <2>1, <2>2 DEF SearchSection
  <2>4. sections[n][i].start \in Int /\ t \in Int
    <3>1. sections[n][i] \in Section
      BY <2>2, <2>3
    <3>2. QED
      BY <2>1, <3>1 DEF Section, Seconds
  <2>5. OnePlace(n) => ~(persec[n][t] < log[n].lines[t])
    BY <2>1, <2>3, <2>4 DEF CountInv, Counts, Missing
  <2>6. QED
    BY <2>2, <2>5
<1>2. QED
  BY <1>1, CountInit, CountNext, PTL DEF ParserSpec

-----------------------------------------------------------------------------
(* RunInv.                                                                   *)
LEMMA OtherRan ==
  ASSUME NEW m \in Nodes, Ran(m), log'[m] = log[m], sections'[m] = sections[m],
         reader'[m] = reader[m]
  PROVE  Ran(m)'
BY DEF Ran, OpenRun, Within, Between, Covered

(* No section and no run at the start.                                      *)
LEMMA RunInit == ParserInit => RunInv
<1> SUFFICES ASSUME ParserInit, NEW n \in Nodes PROVE Ran(n)
  BY DEF RunInv
<1>1. sections[n] = <<>> /\ reader[n].newfile /\ log[n].open = <<>>
  BY DEF ParserInit
<1>2. Covered(n)
  BY <1>1 DEF Covered
<1>3. QED
  BY <1>1, <1>2 DEF Ran, OpenRun, Within, Between

(* The end of a section that is in the current run, or that has ended, lies  *)
(* in a run that is kept.                                                    *)
LEMMA EndedCovered ==
  ASSUME ReadTypes, NEW n \in Nodes, Ran(n), sections[n] # <<>>, EndSection(n),
         log[n].runs \cup {log[n].open} \subseteq log'[n].runs \cup {log'[n].open}
  PROVE  Covered(n)'
<1> DEFINE k == Len(sections[n])
<1>1. /\ Len(sections'[n]) = k /\ k \in Nat /\ k # 0
      /\ \A i \in 1 .. k : sections'[n][i].start = sections[n][i].start
      /\ \A i \in 1 .. k - 1 : sections'[n][i] = sections[n][i]
      /\ sections'[n][k].end = log[n].last
  <2>1. sections[n] \in Seq(Section)
    BY DEF ReadTypes
  <2>2. QED
    BY <2>1, EndSectionEffect
<1>2. SUFFICES ASSUME NEW i \in 1 .. k, sections'[n][i].end # 0
               PROVE  \E r \in log[n].runs \cup {log[n].open} : Holds(r, sections'[n][i])
  BY <1>1 DEF Covered
<1>3. CASE sections'[n][i].end = sections[n][i].end
  BY <1>1, <1>2, <1>3 DEF Ran, Covered, Holds
<1>4. CASE sections'[n][i].end # sections[n][i].end
  <2>1. i = k
    BY <1>1, <1>4
  <2>2. ~reader[n].newfile
    BY <1>1, <1>4, <2>1 DEF Ran, Between, ReadTypes
  <2>3. Holds(log[n].open, sections'[n][k])
    <3>1. log[n].last \in Int
      BY DEF ReadTypes, LogRecord, Seconds
    <3>2. QED
      BY <1>1, <2>2, <3>1 DEF Ran, Within, OpenRun, Holds
  <2>4. QED
    BY <2>1, <2>3
<1>5. QED
  BY <1>3, <1>4

(* A run that goes on still holds what it held.                              *)
LEMMA StillCovered ==
  ASSUME ReadTypes, NEW n \in Nodes, Ran(n), NEW t \in Seconds, log[n].last <= t,
         log'[n].runs = log[n].runs,
         log'[n].open = IF log[n].open = <<>> THEN <<t, t>> ELSE <<log[n].open[1], t>>,
         NEW i \in 1 .. Len(sections[n]), sections[n][i].end # 0
  PROVE  \E r \in log'[n].runs \cup {log'[n].open} : Holds(r, sections[n][i])
<1>1. PICK r \in log[n].runs \cup {log[n].open} : Holds(r, sections[n][i])
  BY DEF Ran, Covered
<1>2. CASE r \in log[n].runs
  BY <1>1, <1>2
<1>3. CASE r = log[n].open
  <2>1. log[n].open # <<>> /\ log'[n].open = <<log[n].open[1], t>>
    BY <1>1, <1>3 DEF Holds
  <2>2. log[n].open[2] <= t
    BY <2>1 DEF Ran, OpenRun
  <2>3. sections[n][i] \in Section /\ log[n].open \in Seconds \X Seconds
    BY <2>1 DEF ReadTypes, LogRecord, Runs
  <2>4. /\ sections[n][i].end \in Int /\ sections[n][i].start \in Int /\ t \in Int
        /\ log[n].open[1] \in Int /\ log[n].open[2] \in Int
    BY <2>3 DEF Section, Seconds
  <2>5. Holds(log'[n].open, sections[n][i])
    BY <1>1, <1>3, <2>1, <2>2, <2>4 DEF Holds
  <2>6. QED
    BY <2>5
<1>4. QED
  BY <1>1, <1>2, <1>3

(* A skipped line is of the current run, a skipped header ends it.          *)
LEMMA SkipRan == ASSUME CountInv, RunInv, NEW n \in Nodes, Skip(n) PROVE RunInv'
<1>1. ReadTypes /\ Ran(n) /\ sections' = sections /\ reader' = reader
  BY DEF CountInv, RunInv, Skip
<1>2. sections[n] = <<>> /\ reader[n].newfile
  <2>1. sections[n] = <<>>
    BY ParserAssumption DEF Skip, CountInv, Counts, Begun, ReadTypes, LogRecord
  <2>2. QED
    BY <1>1, <2>1 DEF Ran, Within, ReadTypes
<1>3. \A m \in Nodes : m # n => log'[m] = log[m]
  BY <1>1, HeaderEffect, LineEffect DEF Skip
<1>4. OpenRun(n)'
  <2>1. CASE IsHeader(n)
    BY <1>1, <2>1, HeaderEffect DEF OpenRun
  <2>2. CASE \E t \in Seconds : IsLine(n, t, {})
    <3>1. PICK t \in Seconds : IsLine(n, t, {})
      BY <2>2
    <3>2. /\ log[n].last <= t /\ log'[n].last = t
          /\ log'[n].open = IF log[n].open = <<>> THEN <<t, t>> ELSE <<log[n].open[1], t>>
      BY <1>1, <3>1, LineEffect
    <3>3. log[n].open = <<>> \/ log[n].open \in Seconds \X Seconds
      BY <1>1 DEF ReadTypes, LogRecord, Runs
    <3>4. log[n].last \in Int /\ t \in Int
      BY <1>1 DEF ReadTypes, LogRecord, Seconds
    <3>5. CASE log[n].open = <<>>
      BY <3>2, <3>4, <3>5 DEF OpenRun
    <3>6. CASE log[n].open \in Seconds \X Seconds
      <4>1. log[n].open # <<>> /\ log[n].open[1] \in Int
        BY <3>6 DEF Seconds
      <4>2. log'[n].open = <<log[n].open[1], t>>
        BY <3>2, <4>1
      <4>3. log[n].open[1] <= log[n].last
        BY <1>1, <4>1 DEF Ran, OpenRun
      <4>4. log[n].open[1] <= t
        BY <3>2, <3>4, <4>1, <4>3
      <4>5. QED
        BY <3>2, <4>2, <4>4 DEF OpenRun
    <3>7. QED
      BY <3>3, <3>5, <3>6
  <2>3. QED
    BY <2>1, <2>2 DEF Skip
<1>5. Ran(n)'
  BY <1>1, <1>2, <1>4 DEF Ran, Within, Between, Covered
<1>6. QED
  BY <1>1, <1>3, <1>5, OtherRan DEF RunInv

(* A header ends the open section inside the run that it ends.              *)
LEMMA HeaderRan == ASSUME CountInv, RunInv, NEW n \in Nodes, ReadHeader(n) PROVE RunInv'
<1>1. ReadTypes /\ Ran(n) /\ sections[n] # <<>> /\ EndSection(n)
  BY DEF CountInv, RunInv, ReadHeader, NoEmptyStart
<1>2. /\ \A m \in Nodes : m # n => log'[m] = log[m]
      /\ log'[n].last = log[n].last /\ log'[n].open = <<>>
      /\ log'[n].runs = log[n].runs \cup {log[n].open}
  BY <1>1, HeaderEffect DEF ReadHeader
<1>3. /\ \A m \in Nodes : m # n => sections'[m] = sections[m]
      /\ Len(sections'[n]) = Len(sections[n])
      /\ sections'[n][Len(sections[n])].end = log[n].last
  BY <1>1, EndSectionEffect
<1>4. /\ \A m \in Nodes : m # n => reader'[m] = reader[m]
      /\ reader'[n].newfile
  BY <1>1 DEF ReadHeader, ReadTypes
<1>5. Covered(n)'
  BY <1>1, <1>2, EndedCovered
<1>6. Ran(n)'
  BY <1>2, <1>3, <1>4, <1>5 DEF Ran, OpenRun, Within, Between
<1>7. QED
  BY <1>2, <1>3, <1>4, <1>6, OtherRan DEF RunInv

(* The end of the log ends the last section inside the last run.            *)
LEMMA EndRan == ASSUME CountInv, RunInv, NEW n \in Nodes, EndOfFile(n) PROVE RunInv'
<1>1. ReadTypes /\ Ran(n) /\ sections[n] # <<>> /\ EndSection(n) /\ log' = log
  BY DEF CountInv, RunInv, EndOfFile, NoEmptyStart
<1>2. /\ \A m \in Nodes : m # n => sections'[m] = sections[m]
      /\ Len(sections'[n]) = Len(sections[n]) /\ sections'[n] # <<>>
      /\ sections'[n][Len(sections[n])].end = log[n].last
      /\ \A i \in 1 .. Len(sections[n]) : sections'[n][i].start = sections[n][i].start
  BY <1>1, EndSectionEffect
<1>3. /\ \A m \in Nodes : m # n => reader'[m] = reader[m]
      /\ reader'[n].newfile = reader[n].newfile
  BY <1>1 DEF EndOfFile, ReadTypes
<1>4. Covered(n)'
  BY <1>1, EndedCovered
<1>5. Len(sections[n]) \in 1 .. Len(sections[n])
  <2>1. sections[n] \in Seq(Section)
    BY <1>1 DEF ReadTypes
  <2>2. QED
    BY <1>1, <2>1
<1>6. Ran(n)'
  BY <1>1, <1>2, <1>3, <1>4, <1>5 DEF Ran, OpenRun, Within, Between
<1>7. QED
  BY <1>1, <1>2, <1>3, <1>6, OtherRan DEF RunInv

(* A line goes on with the run of the section it is in.                     *)
LEMMA LineRan == ASSUME CountInv, RunInv, NEW n \in Nodes, ReadLine(n) PROVE RunInv'
<1>1. ReadTypes /\ Ran(n)
  BY DEF CountInv, RunInv
<1>2. PICK t \in Seconds, p \in Places :
        /\ IsLine(n, t, {p})
        /\ sections' = IF reader[n].newfile
             THEN [sections EXCEPT ![n] = Append(@, [start |-> t, end |-> 0])]
             ELSE sections
        /\ \E last : reader' = [reader EXCEPT ![n].newfile = FALSE, ![n].last = last]
  BY DEF ReadLine, Lines
<1>3. /\ \A m \in Nodes : m # n => reader'[m] = reader[m]
      /\ ~reader'[n].newfile
  BY <1>1, <1>2 DEF ReadTypes
<1> DEFINE ps == {p}
<1>4. IsLine(n, t, ps) /\ ps \in SUBSET Places
  BY <1>2
<1> HIDE DEF ps
<1>5. /\ log[n].last <= t /\ log'[n].last = t /\ log'[n].runs = log[n].runs
      /\ \A m \in Nodes : m # n => log'[m] = log[m]
      /\ log'[n].open = IF log[n].open = <<>> THEN <<t, t>> ELSE <<log[n].open[1], t>>
      /\ log'[n].open # <<>>
  BY <1>1, <1>4, LineEffect
<1>6. /\ sections[n] \in Seq(Section) /\ Len(sections[n]) \in Nat
      /\ log[n].last \in Int /\ t \in Int
      /\ log[n].open = <<>> \/ log[n].open \in Seconds \X Seconds
  BY <1>1 DEF ReadTypes, LogRecord, Seconds, Runs
<1>7. /\ log'[n].open[1] <= t /\ log'[n].open[2] = t
      /\ log[n].open # <<>> => log'[n].open[1] = log[n].open[1]
  <2>1. CASE log[n].open = <<>>
    BY <1>5, <1>6, <2>1
  <2>2. CASE log[n].open # <<>>
    <3>1. log[n].open[1] \in Int /\ log[n].open[1] <= log[n].last
      BY <1>1, <1>6, <2>2 DEF Ran, OpenRun, Seconds
    <3>2. QED
      BY <1>5, <1>6, <2>2, <3>1
  <2>3. QED
    BY <2>1, <2>2
<1>8. OpenRun(n)'
  BY <1>5, <1>7 DEF OpenRun
<1>9. CASE ~reader[n].newfile
  <2>1. sections' = sections
    BY <1>2, <1>9
  <2>2. Covered(n)'
    BY <1>1, <1>5, <2>1, StillCovered DEF Covered
  <2>3. Within(n)' /\ Between(n)'
    BY <1>1, <1>3, <1>5, <1>7, <1>9, <2>1 DEF Ran, Within, Between
  <2>4. QED
    BY <1>3, <1>5, <1>8, <2>1, <2>2, <2>3, OtherRan DEF RunInv, Ran
<1>10. CASE reader[n].newfile
  <2> DEFINE s == [start |-> t, end |-> 0]
  <2>1. s \in Section /\ s.start = t /\ s.end = 0
    BY ParserAssumption DEF Section, Seconds
  <2>2. sections' = [sections EXCEPT ![n] = Append(@, s)]
    BY <1>2, <1>10
  <2> HIDE DEF s
  <2>3. /\ \A m \in Nodes : m # n => sections'[m] = sections[m]
        /\ Len(sections'[n]) = Len(sections[n]) + 1
        /\ \A i \in 1 .. Len(sections[n]) : sections'[n][i] = sections[n][i]
        /\ sections'[n][Len(sections[n]) + 1] = s
        /\ sections'[n] # <<>>
    BY <1>1, <2>1, <2>2, AppendEffect
  <2>4. Covered(n)'
    <3>1. \A i \in 1 .. Len(sections'[n]) :
            i \in 1 .. Len(sections[n]) \/ i = Len(sections[n]) + 1
      BY <1>6, <2>3
    <3>2. QED
      BY <1>1, <1>5, <2>1, <2>3, <3>1, StillCovered DEF Covered
  <2>5. Within(n)' /\ Between(n)'
    BY <1>3, <1>5, <1>7, <2>1, <2>3 DEF Within, Between
  <2>6. QED
    BY <1>3, <1>5, <1>8, <2>3, <2>4, <2>5, OtherRan DEF RunInv, Ran
<1>11. QED
  BY <1>1, <1>9, <1>10 DEF ReadTypes

(* RunInv is inductive on top of CountInv.                                  *)
LEMMA RunNext == ASSUME CountInv, RunInv, [ParserNext]_parserVars PROVE RunInv'
<1>1. CASE \E n \in Nodes : Skip(n) \/ ReadHeader(n) \/ ReadLine(n) \/ EndOfFile(n)
  BY <1>1, SkipRan, HeaderRan, LineRan, EndRan
<1>2. CASE UNCHANGED <<log, persec, sections, reader>>
  BY <1>2, OtherRan DEF RunInv
<1>3. QED
  BY <1>1, <1>2 DEF ParserNext, ReportStart, ReportSecond, parserVars

-----------------------------------------------------------------------------
(* ReportInv.                                                                *)
LEMMA ReportInit == ParserInit => ReportInv
<1> SUFFICES ASSUME ParserInit PROVE ReportInv
  OBVIOUS
<1>1. report = [at |-> NotSeen, rate |-> [t \in Seconds |-> NotSeen]]
  BY DEF ParserInit
<1>2. NotSeen \in Int
  BY DEF NotSeen
<1>3. QED
  BY <1>1, <1>2 DEF ReportInv

(* Nothing is read once anything is reported.                                *)
LEMMA ReadingFirst ==
  ASSUME CountInv, ReportInv, NEW n \in Nodes, ~reader[n].ended
  PROVE  report.at = NotSeen /\ \A t \in Seconds : report.rate[t] = NotSeen
BY DEF ReportInv

(* ReportInv is inductive: a rate is computed when both logs are read.      *)
LEMMA ReportNext == ASSUME CountInv, ReportInv, [ParserNext]_parserVars PROVE ReportInv'
<1>1. ReadTypes
  BY DEF CountInv
<1>2. CASE \E n \in Nodes : Skip(n) \/ ReadHeader(n) \/ ReadLine(n) \/ EndOfFile(n)
  <2>1. PICK n \in Nodes : ~reader[n].ended
    BY <1>2 DEF Skip, ReadHeader, ReadLine, EndOfFile, MayRead, Turn
  <2>2. report' = report
    BY <1>2 DEF Skip, ReadHeader, ReadLine, EndOfFile
  <2>3. report.at = NotSeen /\ \A t \in Seconds : report.rate[t] = NotSeen
    BY <2>1, ReadingFirst
  <2>4. QED
    BY <2>2, <2>3 DEF ReportInv
<1>3. CASE ReportStart
  <2>1. \A n \in Nodes : reader[n].ended
    BY <1>3 DEF ReportStart
  <2>2. UNCHANGED <<log, persec, sections, reader>> /\ report'.rate = report.rate
        /\ report' = [at |-> report'.at, rate |-> report'.rate]
    <3>1. report' = [report EXCEPT !.at = First(Counted(Node1))]
      BY <1>3 DEF ReportStart
    <3>2. report = [at |-> report.at, rate |-> report.rate]
      BY DEF ReportInv
    <3>3. QED
      BY <1>3, <3>1, <3>2 DEF ReportStart
  <2>3. QED
    BY <2>1, <2>2 DEF ReportInv, SearchSection
<1>4. CASE ReportSecond
  <2> DEFINE u == report.at
             both == \A n \in Nodes : SearchSection(n, u)
             value == IF both THEN Rate(persec[Node1][u], persec[Node2][u])
                      ELSE report.rate[u]
  <2>1. /\ u # NotSeen /\ UNCHANGED <<log, persec, sections, reader>>
        /\ report' = [at |-> u + 1, rate |-> [report.rate EXCEPT ![u] = value]]
    BY <1>4 DEF ReportSecond
  <2>2. \A n \in Nodes : reader[n].ended
    BY <2>1 DEF ReportInv
  <2>3. \A t \in Seconds : Rate(persec[Node1][t], persec[Node2][t]) \in Int
    <3>1. persec[Node1] \in [Seconds -> Nat] /\ persec[Node2] \in [Seconds -> Nat]
      BY <1>1 DEF ReadTypes, Nodes
    <3>2. QED
      BY <3>1 DEF Rate
  <2>4. /\ report'.rate \in [Seconds -> Int]
        /\ report' = [at |-> report'.at, rate |-> report'.rate]
        /\ \A t \in Seconds : report'.rate[t] = IF t = u THEN value ELSE report.rate[t]
    <3>1. report.rate \in [Seconds -> Int]
      BY DEF ReportInv
    <3>2. u \in Seconds => value \in Int
      BY <2>3, <3>1
    <3> HIDE DEF value, u
    <3>3. QED
      BY <2>1, <3>1, <3>2
  <2>5. ASSUME NEW t \in Seconds, report'.rate[t] # NotSeen
        PROVE  /\ \A n \in Nodes : SearchSection(n, t)
               /\ report'.rate[t] = Rate(persec[Node1][t], persec[Node2][t])
    <3>1. CASE t = u /\ both
      BY <2>4, <3>1
    <3>2. CASE ~(t = u /\ both)
      <4>1. report'.rate[t] = report.rate[t]
        BY <2>4, <3>2
      <4>2. QED
        BY <2>5, <4>1 DEF ReportInv
    <3>3. QED
      BY <3>1, <3>2
  <2>6. QED
    BY <2>1, <2>2, <2>4, <2>5 DEF ReportInv, SearchSection
<1>5. CASE UNCHANGED parserVars
  BY <1>5 DEF parserVars, ReportInv, SearchSection
<1>6. QED
  BY <1>2, <1>3, <1>4, <1>5 DEF ParserNext

(* The three invariants together.                                           *)
LEMMA InvAlways == ParserSpec => []Inv
<1>1. ParserInit => Inv
  BY CountInit, RunInit, ReportInit DEF Inv
<1>2. Inv /\ [ParserNext]_parserVars => Inv'
  BY CountNext, RunNext, ReportNext DEF Inv
<1>3. QED
  BY <1>1, <1>2, PTL DEF ParserSpec

(* No second is reported in which one of the cars was not receiving          *)
(* (node.cpp:139-165, main.cpp:90).                                          *)
THEOREM NoPauseReported == ParserSpec => []PausesLeftOut
<1>1. Inv => PausesLeftOut
  <2>1. SUFFICES ASSUME Inv, NEW t \in Seconds, report.rate[t] # NotSeen, NEW n \in Nodes
                 PROVE  Received(n, t)
    BY DEF PausesLeftOut
  <2>2. SearchSection(n, t)
    BY <2>1 DEF Inv, ReportInv
  <2>3. sections[n] \in Seq(Section)
    BY <2>1 DEF Inv, CountInv, ReadTypes
  <2>4. PICK i \in 1 .. Len(sections[n]) : sections[n][i].start < t /\ t < sections[n][i].end
    BY <2>2, <2>3 DEF SearchSection
  <2>5. sections[n][i] \in Section
    BY <2>3, <2>4
  <2>6. /\ sections[n][i].start \in Int /\ sections[n][i].end \in Int
        /\ t \in Int /\ 0 <= t
    BY <2>1, <2>5 DEF Section, Seconds
  <2>7. sections[n][i].end # 0
    BY <2>4, <2>6
  <2>8. PICK r \in log[n].runs \cup {log[n].open} : Holds(r, sections[n][i])
    BY <2>1, <2>7 DEF Inv, RunInv, Ran, Covered
  <2>9. r # <<>> /\ r[1] \in Int /\ r[2] \in Int
    <3>1. r \in Runs /\ r # <<>>
      BY <2>1, <2>8 DEF Inv, CountInv, ReadTypes, LogRecord, Holds
    <3>2. r \in Seconds \X Seconds
      BY <3>1 DEF Runs
    <3>3. QED
      BY <3>1, <3>2 DEF Seconds
  <2>10. r[1] < t /\ t < r[2]
    BY <2>4, <2>6, <2>8, <2>9 DEF Holds
  <2>11. QED
    BY <2>8, <2>9, <2>10 DEF Received
<1>2. QED
  BY <1>1, InvAlways, PTL

(* A rate lies between the mean of the two cars and twice that mean          *)
(* (newGpsParser/main.cpp:98-123), in logs without outliers.                 *)
THEOREM RateAlwaysFair == ParserSpec => []RateFair
<1>1. Inv /\ InnerSecondsExact => RateFair
  <2>1. SUFFICES ASSUME Inv, InnerSecondsExact, NEW t \in Seconds,
                        report.rate[t] # NotSeen, \A n \in Nodes : OnePlace(n)
                 PROVE  LET mean == log[Node1].lines[t] + log[Node2].lines[t]
                        IN  mean <= report.rate[t] /\ report.rate[t] <= 2 * mean
    BY DEF RateFair
  <2>2. /\ \A n \in Nodes : SearchSection(n, t)
        /\ report.rate[t] = Rate(persec[Node1][t], persec[Node2][t])
    BY <2>1 DEF Inv, ReportInv
  <2>3. /\ persec[Node1][t] = log[Node1].lines[t]
        /\ persec[Node2][t] = log[Node2].lines[t]
    BY <2>1, <2>2 DEF InnerSecondsExact, Nodes
  <2>4. persec[Node1][t] \in Nat /\ persec[Node2][t] \in Nat
    BY <2>1 DEF Inv, CountInv, ReadTypes, Nodes
  <2>5. QED
    BY <2>2, <2>3, <2>4 DEF Rate
<1>2. QED
  BY <1>1, InvAlways, InnerCounts, PTL
=============================================================================
