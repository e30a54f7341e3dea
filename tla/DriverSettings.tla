--------------------------- MODULE DriverSettings ---------------------------
(***************************************************************************)
(* fpga-si4463/kernel_module/main.c: what a user may set of the driver:      *)
(* freq, speed_kbps and power_lvl in debugfs, the MTU of the device, and the *)
(* row of the table of modes that is sent to the FPGA for it.                *)
(***************************************************************************)
EXTENDS ModeTables, FiniteSetsExt

CONSTANTS Freqs, Speeds, Powers, Mtus   \* the numbers a user tries

ASSUME SettingsAssumption == Freqs \cup Speeds \cup Powers \cup Mtus \subseteq Nat

VARIABLES freq, speed_kbps, power_lvl, mtu,
          last,     \* the last row asked for, and the speed it stands for
          sending   \* spidev_sync has it and the caller waits

settingVars == <<freq, speed_kbps, power_lvl, mtu, last, sending>>

SettingsInit ==                  \* si4463_probe, module_net_init
  /\ freq = DEFAULT_FREQ /\ speed_kbps = 100 * DEFAULT_MODE /\ power_lvl = 127
  /\ mtu = 230 /\ sending = FALSE
  /\ last = [freq |-> DEFAULT_FREQ, row |-> DEFAULT_MODE,
             report |-> 100 * DEFAULT_MODE]

(* update_device_with_new_config: the row goes to the FPGA; the caller goes  *)
(* on when it is there.                                                      *)
Send(row, report) ==
  /\ ~sending /\ sending' = TRUE
  /\ last' = [freq |-> freq, row |-> row, report |-> report]
  /\ UNCHANGED <<freq, speed_kbps, power_lvl, mtu>>

Sent ==
  /\ sending /\ sending' = FALSE /\ speed_kbps' = last.report
  /\ UNCHANGED <<freq, power_lvl, mtu, last>>

-----------------------------------------------------------------------------
(* The two loops of status_speed_write: down to a filled row or, when that   *)
(* ends at row 0, up to one.                                                 *)
RowDown(rows) ==
  LET down[v \in 0 .. SIZE_OF_MODES] ==
        IF v > 0 /\ v \notin rows THEN down[v - 1] ELSE v
  IN  down

RowUp(rows) ==
  LET up[v \in 0 .. SIZE_OF_MODES + 1] ==
        IF v <= SIZE_OF_MODES /\ v \notin rows THEN up[v + 1] ELSE v
  IN  up

SelectedRowDownOnly(val) ==      \* wrong: does not look upwards
  RowDown(Filled(freq))[Min({val \div 100, SIZE_OF_MODES})]

SelectedRow(val) ==
  LET down == RowDown(Filled(freq))[Min({val \div 100, SIZE_OF_MODES})]
  IN  IF down = 0 THEN RowUp(Filled(freq))[0] ELSE down

(* status_speed_write.  Below 100 the row asked for is number 50, beyond the *)
(* end of the table; when the table is empty nothing is sent.                *)
SpeedWrite50 == \E val \in Speeds : val < 100 /\ Send(50, 50)

SpeedWrite ==
  \E val \in Speeds :
    /\ val >= 100 /\ SelectedRow(val) <= SIZE_OF_MODES
    /\ Send(SelectedRow(val), 100 * SelectedRow(val))

(* status_freq_write: the radio is told with the next speed only.            *)
FreqFor(val) == IF val <= 500 THEN 433 ELSE 915

FreqWrite ==
  /\ \E val \in Freqs : freq' = FreqFor(val)
  /\ UNCHANGED <<speed_kbps, power_lvl, mtu, last, sending>>

(* status_power_lvl_write; the command that follows is in SifDriver.         *)
PowerFor(val) == Min({val, 127})

PowerWrite ==
  /\ \E val \in Powers : val < 256 /\ power_lvl' = PowerFor(val)
  /\ UNCHANGED <<freq, speed_kbps, mtu, last, sending>>

(* si4463_change_mtu.                                                        *)
ChangeMtu ==
  /\ \E new_mtu \in Mtus : new_mtu >= 68 /\ mtu' = new_mtu
  /\ UNCHANGED <<freq, speed_kbps, power_lvl, last, sending>>

(* si4463_start: row DEFAULT_MODE, while speed_kbps stays.                   *)
Start == Table(freq)[DEFAULT_MODE].total > 0
         /\ Send(DEFAULT_MODE, speed_kbps)

SettingsNext == \/ SpeedWrite50 \/ SpeedWrite \/ FreqWrite \/ PowerWrite
                \/ ChangeMtu \/ Start

-----------------------------------------------------------------------------
(* The two loops of status_speed_write (main.c:1066-1076) end, in the table  *)
(* in use, on a filled row: the last that is not above the speed or, if      *)
(* there is none but row 0, the first of all.                                *)
Reference(rows, val) ==
  LET below == {r \in rows : r > 0 /\ 100 * r <= val}
  IN  IF below # {} THEN Max(below) ELSE Min(rows)
FilledRowBelow ==
  \A hundreds \in 1 .. SIZE_OF_MODES + 1, rest \in {0, 99} :
    LET val == 100 * hundreds + rest
    IN  SelectedRow(val) = Reference(Filled(freq), val)
=============================================================================
