----------------------------- MODULE LogParser -----------------------------
(***************************************************************************)
(* i2c-gps/parser/newGpsParser: reads the logs of two cars and reports, for *)
(* each second in which both were receiving, the share of packets that got   *)
(* through.  It is written twice, for each radio; this is one of them.  A    *)
(* log has a header for each start of the receiver, then a line per packet   *)
(* with its time and the distance it came from.  The lines of the model are  *)
(* written as they are read, and of the log is kept what the properties     *)
(* ask for.                                                                  *)
(***************************************************************************)
EXTENDS Integers, Sequences

CONSTANTS
  Node1, Node2, \* the two cars
  Skipped,      \* the lines the reader leaves out at first, 3
  MaxTime,      \* bounds: the seconds of a log are 0 .. MaxTime,
  MaxLines1, MaxLines2,  \* lines and headers of each log, skipped ones included
  Places        \* distances, of which any two differ by more than 2000 m

Nodes == {Node1, Node2}

ASSUME ParserAssumption ==
  /\ Node1 # Node2 /\ Skipped \in Nat \ {0}
  /\ MaxTime \in Nat /\ MaxLines1 \in Nat /\ MaxLines2 \in Nat /\ Places \subseteq Nat

VARIABLES
  log,        \* what was read of each log: how many lines, the packets of
              \* each second, the last one's time, the runs of the receiver,
              \* the places
  persec,     \* recvlog_data: the count of each second, 0 if there is none
  sections,   \* time_section: the start and the end of each, in their order
  reader,     \* newfile and last_distance of recvlog2buf, and whether it ended
  report      \* the loop of main over the seconds: the next one, and the
              \* rates so far, in twentieths of a packet per second

parserVars == <<log, persec, sections, reader, report>>

Seconds  == 0 .. MaxTime
Lines    == [time : Seconds, place : Places]
NotSeen  == -1

ParserInit ==
  /\ log = [n \in Nodes |-> [read |-> 1, lines |-> [t \in Seconds |-> 0],
                            last |-> 0, runs |-> {}, open |-> <<>>, places |-> {}]]
  /\ persec = [n \in Nodes |-> [t \in Seconds |-> 0]]
  /\ sections = [n \in Nodes |-> <<>>]
  /\ reader = [n \in Nodes |-> [newfile |-> TRUE, last |-> NotSeen, ended |-> FALSE]]
  /\ report = [at |-> NotSeen, rate |-> [t \in Seconds |-> NotSeen]]

-----------------------------------------------------------------------------
(* The files.  The times of a log do not decrease; the reader leaves out     *)
(* Skipped lines where there is one header.  IsHeader and IsLine only write    *)
(* down what the line was.                                                   *)
First(S) == CHOOSE t \in S : \A u \in S : t <= u
Final(S) == CHOOSE t \in S : \A u \in S : u <= t
Turn(n) == ~reader[n].ended /\ (n = Node1 \/ reader[Node1].ended)
MayRead(n) == Turn(n) /\ log[n].read < (IF n = Node1 THEN MaxLines1 ELSE MaxLines2)

IsHeader(n) ==
  log' = [log EXCEPT ![n].read = @ + 1, ![n].runs = @ \cup {log[n].open},
                     ![n].open = <<>>]
IsLine(n, time, places) ==
  /\ log[n].last <= time
  /\ log' = [log EXCEPT ![n].read = @ + 1, ![n].lines[time] = @ + 1,
       ![n].last = time,
       ![n].places = @ \cup places,
       ![n].open = IF @ = <<>> THEN <<time, time>> ELSE <<@[1], time>>]

Skip(n) ==
  /\ MayRead(n) /\ log[n].read < Skipped
  /\ IsHeader(n) \/ \E t \in Seconds : IsLine(n, t, {})
  /\ UNCHANGED <<persec, sections, reader, report>>

(* A header ends the section with the time of the last line.  Before the     *)
(* first line that time is not initialised, and the section is number 0: no  *)
(* log begins so (NoEmptyStart).                                             *)
NoEmptyStart(n) == sections[n] # <<>>
EndSection(n) ==
  sections' = [sections EXCEPT ![n][Len(sections[n])].end = log[n].last]

ReadHeaderStays(n) ==               \* wrong: newfile is not set
  /\ MayRead(n) /\ log[n].read >= Skipped /\ NoEmptyStart(n)
  /\ IsHeader(n)
  /\ EndSection(n)
  /\ reader' = [reader EXCEPT ![n].last = NotSeen]
  /\ UNCHANGED <<persec, report>>

ReadHeader(n) ==
  /\ MayRead(n) /\ log[n].read >= Skipped /\ NoEmptyStart(n)
  /\ IsHeader(n)
  /\ EndSection(n)
  /\ reader' = [reader EXCEPT ![n].newfile = TRUE, ![n].last = NotSeen]
  /\ UNCHANGED <<persec, report>>

(* A line of a packet: it opens a section after a header, and is counted     *)
(* unless it is more than 2000 m away from the last one that was.            *)
Outlier(n, l) == reader[n].last # NotSeen /\ l.place # reader[n].last
ReadLine(n) ==
  /\ MayRead(n) /\ log[n].read >= Skipped
  /\ \E l \in Lines :
       /\ IsLine(n, l.time, {l.place})
       /\ sections' = IF reader[n].newfile
            THEN [sections EXCEPT ![n] = Append(@, [start |-> l.time, end |-> 0])]
            ELSE sections
       /\ reader' = [reader EXCEPT ![n].newfile = FALSE,
                       ![n].last = IF Outlier(n, l) THEN @ ELSE l.place]
       /\ persec' = IF Outlier(n, l) THEN persec
                    ELSE [persec EXCEPT ![n][l.time] = @ + 1]
  /\ UNCHANGED report

EndOfFile(n) ==
  /\ Turn(n) /\ NoEmptyStart(n)
  /\ EndSection(n)
  /\ reader' = [reader EXCEPT ![n].ended = TRUE]
  /\ UNCHANGED <<log, persec, report>>

-----------------------------------------------------------------------------
(* search_time_section: strictly inside of a section.                        *)
SearchSectionClosed(n, t) ==        \* wrong: its first and last second too
  \E i \in DOMAIN sections[n] : sections[n][i].start <= t /\ t <= sections[n][i].end

SearchSection(n, t) ==
  \E i \in DOMAIN sections[n] : sections[n][i].start < t /\ t < sections[n][i].end

(* The rate of a second: the mean of both nodes, half of that of node2 when  *)
(* node1 has none, but the whole of that of node1 when node2 has none.       *)
RateOfBoth(c1, c2) ==               \* wrong: nothing unless both have some
  IF c1 = 0 \/ c2 = 0 THEN 0 ELSE c1 + c2

Rate(c1, c2) == IF c2 = 0 THEN 2 * c1 ELSE c1 + c2

Counted(n) == {t \in Seconds : persec[n][t] > 0}

ReportStart ==
  /\ \A n \in Nodes : reader[n].ended
  /\ report.at = NotSeen /\ report' = [report EXCEPT !.at = First(Counted(Node1))]
  /\ UNCHANGED <<log, persec, sections, reader>>

ReportSecond ==
  LET t == report.at
      both == \A n \in Nodes : SearchSection(n, t)
  IN  /\ t # NotSeen /\ t < Final(Counted(Node1))
      /\ report' = [at |-> t + 1, rate |-> [report.rate EXCEPT ![t] =
                      IF both THEN Rate(persec[Node1][t], persec[Node2][t]) ELSE @]]
      /\ UNCHANGED <<log, persec, sections, reader>>

ParserNext ==
  \/ \E n \in Nodes : Skip(n) \/ ReadHeader(n) \/ ReadLine(n) \/ EndOfFile(n)
  \/ ReportStart \/ ReportSecond
ParserSpec == ParserInit /\ [][ParserNext]_parserVars

-----------------------------------------------------------------------------
(* For a second strictly inside of a section the count is that of the lines  *)
(* of that second in the log, although the reader leaves out the lines       *)
(* before the first section (node.cpp:124-126, 265-280); outliers may lower  *)
(* it, in a log that has places far from each other.                         *)
OnePlace(n) == \A p, q \in log[n].places : p = q
InnerSecondsExact ==
  \A n \in Nodes : \A t \in Seconds : SearchSection(n, t) =>
    /\ persec[n][t] <= log[n].lines[t]
    /\ OnePlace(n) => persec[n][t] = log[n].lines[t]

(* A pause of a receiver is not taken for a loss of packets: each second     *)
(* that is reported lies, for both cars, between two lines of one run of     *)
(* the receiver (node.cpp:139-165, main.cpp:90).                             *)
Received(n, t) ==
  \E r \in log[n].runs \cup {log[n].open} : r # <<>> /\ r[1] < t /\ t < r[2]
PausesLeftOut ==
  \A t \in Seconds : report.rate[t] # NotSeen => \A n \in Nodes : Received(n, t)

(* The rate of a second (main.cpp:98-123) is not below the mean of what the  *)
(* two cars received in it, and not above twice that.                        *)
RateFair ==
  \A t \in Seconds :
    report.rate[t] # NotSeen /\ (\A n \in Nodes : OnePlace(n)) =>
      LET mean == log[Node1].lines[t] + log[Node2].lines[t]
      IN  mean <= report.rate[t] /\ report.rate[t] <= 2 * mean
=============================================================================
