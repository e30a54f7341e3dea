---------------------------- MODULE ConfigLoader ----------------------------
(***************************************************************************)
(* The configuration on its way to the radio: the words that Slave_Ctrl.v    *)
(* stores in the configuration region of the SRAM, the two pointers of       *)
(* SRAM_ctrl.v, and the Main machine of Wireless_Ctrl.v (states 0, 247 to    *)
(* 250, 1 to 7) that cuts them into commands and sends each to the Si4463.   *)
(* A word is known by the row it belongs to and its place there, and the     *)
(* region by the runs of words stored in it, the newest first.               *)
(***************************************************************************)
EXTENDS ModeTables, SequencesExt

CONSTANTS
  Burst,         \* the words the CPU shifts in between two looks at the Main
                 \* machine
  Disturbed      \* the read pointers at which the Main machine, while it
                 \* loads, may be disturbed: by the CPU or a CTS error

ASSUME LoaderAssumption ==
  Burst \in Nat \ {0} /\ Disturbed \subseteq Nat

VARIABLES
  mem,           \* the region: the row of each run, where it lies, its first
                 \* word and how many
  wr, rd,        \* config_wr_ptr, config_rd_ptr, from CONFIG_START_P
  main,          \* the registers of the Main machine
  loaded,        \* the commands sent since it started, <<freq, row, number>>
  clean          \* it started with a whole row from its beginning, and
                 \* nothing was stored since

loaderVars == <<mem, wr, rd, main, loaded, clean>>

(* The bytes of a row: number and place in the command, place 0 its length.  *)
Byte(k, j, v) == [command |-> k, place |-> j, value |-> v]
Bytes(lengths) ==
  FlattenSeq([k \in DOMAIN lengths |->
    <<Byte(k, 0, lengths[k])>> \o [j \in 1 .. lengths[k] |-> Byte(k, j, 0)]])
TableBytes == [f \in {433, 915} |-> [r \in 0 .. SIZE_OF_MODES |->
                 Bytes(Table(f)[r].lengths)]]

Unknown == Byte(0, 1, 0)         \* what no row of a table has put there
Blank   == <<0, 0, 0>>
InTable(f, r) == f # 0 /\ r <= SIZE_OF_MODES

Word(ref) ==                     \* the two bytes of a word, from word 1 on
  LET bytes == IF InTable(ref[1], ref[2]) THEN TableBytes[ref[1]][ref[2]]
               ELSE <<>>
      At(i) == IF i \in DOMAIN bytes THEN bytes[i] ELSE Unknown
  IN  <<At(2 * ref[3] - 1), At(2 * ref[3])>>

(* The words of a row: the total, and the bytes it counts; row 50 is beyond  *)
(* the tables and its total, whatever it is, is taken for 2.                 *)
WordsOf(f, r) == 1 + (IF InTable(f, r) THEN Table(f)[r].total + 1 ELSE 3) \div 2

MainReset == [pc |-> "reset", total |-> 0, started |-> FALSE, len |-> 0,
              next |-> 0, flag |-> FALSE, percmd |-> 0, count |-> 0, cmd |-> <<>>]

LoaderInit ==
  /\ mem = <<>> /\ wr = 0 /\ rd = 0
  /\ main = [MainReset EXCEPT !.pc = "off"] /\ loaded = <<>> /\ clean = FALSE

MayDisturb == main.pc \in {"total", "word", "send"} => rd \in Disturbed

(* Need_reset_from_sram or CTS_error_reset_n.  The registers are written      *)
(* before they are read again.                                               *)
Restart == main' = MainReset /\ loaded' = <<>> /\ clean' = FALSE

-----------------------------------------------------------------------------
Run(f, r, at, first, n) == [row |-> <<f, r>>, at |-> at, first |-> first, n |-> n]

Covers(run, old) == run.at <= old.at /\ old.at + old.n <= run.at + run.n

(* The word at address a, Blank where nothing was stored.                    *)
WordAt(a) ==
  LET over == {i \in DOMAIN mem : a \in mem[i].at .. mem[i].at + mem[i].n - 1}
      run  == mem[Min(over)]
  IN  IF over = {} THEN Blank
      ELSE <<run.row[1], run.row[2], run.first + a - run.at>>

(* Slave_Ctrl states 30 to 37: up to Burst words of the row, at wr; `done'   *)
(* words of it are stored.                                                   *)
StoreWords(f, r, done) ==
  LET n == Min({Burst, WordsOf(f, r) - done})
      continues == done > 0 /\ mem[1].at + mem[1].n = wr
  IN  /\ MayDisturb
      /\ mem' = IF continues THEN [mem EXCEPT ![1].n = @ + n]
                ELSE <<Run(f, r, wr, done, n)>> \o mem
      /\ wr' = wr + n /\ clean' = FALSE
      /\ UNCHANGED <<rd, main, loaded>>

(* Slave_Ctrl states 38 to 42 and SRAM_ctrl state 7: both pointers return    *)
(* and the Main machine starts again.  What earlier rows have left is not    *)
(* told apart from other garbage.                                            *)
EndStore ==
  /\ wr' = 0 /\ rd' = 0
  /\ mem' = <<mem[1]>> \o SelectSeq(Tail(mem), LAMBDA run :
                              run.row = mem[1].row /\ ~Covers(mem[1], run))
  /\ Restart

(* The GetCTS loop gives up (10000 polls): Main starts again.                *)
CtsError ==
  /\ main.pc \in {"send", "stray", "ready"} /\ MayDisturb
  /\ Restart /\ UNCHANGED <<mem, wr, rd>>

(* A row lies whole at the start of the region.                              *)
Stored(f, r) == \A a \in 0 .. WordsOf(f, r) - 1 : WordAt(a) = <<f, r, a>>
WholeRow == \E f \in {433, 915} : \E r \in Filled(f) : Stored(f, r)

(* States 0, 249, 248, 247 and 250: the radio is switched off and on.        *)
PowerUp ==
  /\ main.pc = "reset"
  /\ main' = [main EXCEPT !.pc = "total", !.count = 0]
  /\ clean' = (wr = 0 /\ rd = 0 /\ WholeRow)
  /\ UNCHANGED <<mem, wr, rd, loaded>>

(* SRAM_ctrl state 6.  Where nothing was stored the pointer is not followed. *)
ReadRef == WordAt(rd)
NextRd  == IF ReadRef = Blank THEN rd ELSE rd + 1

(* State 1.  A word that is not the total of a row is garbage, and so is all *)
(* that follows; it is not followed further.                                 *)
ReadTotal ==
  /\ main.pc = "total" /\ rd' = NextRd
  /\ LET ref == ReadRef IN
     main' = IF InTable(ref[1], ref[2]) /\ ref[3] = 0
             THEN [main EXCEPT !.total = Table(ref[1])[ref[2]].total,
                     !.flag = FALSE, !.started = FALSE, !.pc = "word"]
             ELSE [MainReset EXCEPT !.pc = "stray"]
  /\ UNCHANGED <<mem, wr, loaded, clean>>

(* Main_Cmd_Data has 16 bytes; what is written beyond is dropped.            *)
Put(cmd, ref, byte) ==
  IF Len(cmd) < 16 THEN Append(cmd, <<ref[1], ref[2], byte.command, byte.place>>)
  ELSE cmd
Inc8(n) == (n + 1) % 256
Garbage == 256                   \* no length of a byte

(* State 3, the first word of a command: its length and its first byte.      *)
FirstWord ==
  LET ref == ReadRef  bytes == Word(ref)  len == bytes[1].value IN
  /\ main.pc = "word" /\ ~main.started
  /\ main' = IF bytes[1].place # 0 THEN [MainReset EXCEPT !.pc = "stray"]
             ELSE [main EXCEPT !.len = len, !.percmd = 1, !.flag = FALSE,
                     !.cmd = Put(<<>>, ref, bytes[2]), !.started = (len # 1),
                     !.pc = IF len = 1 THEN "send" ELSE "word"]
  /\ rd' = NextRd /\ UNCHANGED <<mem, wr, loaded, clean>>

(* State 3, a further word: when its first byte is the last of the command,  *)
(* the second is the length of the next; garbage when it is no length.       *)
EndsFirst == Inc8(main.percmd) = main.len

EndCommand(ref, bytes) ==
  [main EXCEPT !.cmd = Put(@, ref, bytes[1]), !.percmd = Inc8(@), !.flag = ~@,
     !.next = IF bytes[2].place = 0 THEN bytes[2].value ELSE Garbage,
     !.pc = "send"]

Swapped(ref, bytes) == Put(Put(main.cmd, ref, bytes[2]), ref, bytes[1])   \* wrong
Both(ref, bytes)    == Put(Put(main.cmd, ref, bytes[1]), ref, bytes[2])

TwoBytes(ref, bytes) ==
  LET percmd == Inc8(Inc8(main.percmd)) IN
  [main EXCEPT !.cmd = Both(ref, bytes), !.percmd = percmd, !.flag = FALSE,
     !.started = (percmd # main.len),
     !.pc = IF percmd = main.len THEN "send" ELSE "word"]

NextWord ==
  /\ main.pc = "word" /\ main.started
  /\ main' = IF EndsFirst THEN EndCommand(ReadRef, Word(ReadRef))
             ELSE TwoBytes(ReadRef, Word(ReadRef))
  /\ rd' = NextRd /\ UNCHANGED <<mem, wr, loaded, clean>>

(* The command in Main_Cmd_Data: its number if it is one of a row, whole.    *)
Sending ==
  LET k == main.cmd[1][3] IN
  IF main.cmd = [j \in 1 .. main.len |-> <<main.cmd[1][1], main.cmd[1][2], k, j>>]
  THEN SubSeq(main.cmd[1], 1, 3) ELSE Blank

(* States 4 to 6: the command is sent.  The length of the next, when it is   *)
(* known, is taken over before config_count counts the one that was sent.    *)
Counted == main.count + (IF main.flag THEN main.next ELSE main.len) + 1

SendCommand ==
  /\ main.pc = "send"
  /\ loaded' = Append(loaded, Sending)
  /\ main' = [main EXCEPT !.percmd = 0, !.cmd = <<>>, !.count = Counted % 2^16,
                !.len = IF main.flag THEN main.next ELSE @,
                !.pc = CASE main.flag /\ main.next = Garbage -> "stray"
                         [] Counted % 2^16 >= main.total -> "done"
                         [] OTHER -> "word"]
  /\ UNCHANGED <<mem, wr, rd, clean>>

(* State 7 and SRAM_ctrl state 8: the read pointer returns, and the write    *)
(* pointer with it; unless SRAM_ctrl was busy and has missed the pulse.      *)
ReadDone ==
  /\ main.pc = "done" /\ main' = [MainReset EXCEPT !.pc = "ready"]
  /\ (wr' = 0 /\ rd' = 0) \/ UNCHANGED <<wr, rd>>
  /\ UNCHANGED <<mem, loaded, clean>>

(* Among the garbage, config_count gets past config_len at some time.        *)
StrayEnds ==
  /\ main.pc = "stray" /\ main' = [main EXCEPT !.pc = "done"]
  /\ UNCHANGED <<mem, wr, rd, loaded, clean>>

LoaderNext == CtsError \/ PowerUp \/ ReadTotal \/ FirstWord \/ NextWord
              \/ SendCommand \/ ReadDone \/ StrayEnds
=============================================================================
