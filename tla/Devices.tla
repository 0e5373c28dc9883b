------------------------------- MODULE Devices -------------------------------
(***************************************************************************)
(* sensors/temperature (adt7410, mcp9808, ds18b20) and epaper/.  A         *)
(* behaviour has one driver and its device.  A call is a few transactions  *)
(* on a bus that may fail at each of them; between two of them the device  *)
(* may lose its power and come back with its defaults.                     *)
(***************************************************************************)
EXTENDS Integers, Sequences, FiniteSets

CONSTANTS
  Raws,                 \* values of the temperature register, by kind of sensor
  MaxFaults,            \* losses of power and faults of the bus, a bound
  BYTE, Width, Height,  \* bits in a byte of the frame buffer (8), the panel
  Planes                \* its colour planes
VARIABLES
  dev,     \* the device
  drv,     \* the driver's static data or the context of the panel
  op,      \* the call going on: its name, its next transaction, what it wants and has read
  last,    \* the call that ended last: its result, and what the device held at its last transaction
  faults
vars == <<dev, drv, op, last, faults>>

Idle == [name |-> "none", step |-> 0, want |-> 0, old |-> <<>>]
None == [name |-> "none", rc |-> "ok", value |-> 0, want |-> 0, old |-> <<>>, held |-> <<>>]
Begin(name, want) == op.name = "none" /\ op' = [name |-> name, step |-> 1, want |-> want, old |-> <<>>] /\ last' = None
Ends(rc, value, held) ==
  op' = Idle /\ last' = [name |-> op.name, rc |-> rc, value |-> value, want |-> op.want, old |-> op.old, held |-> held]
Refuse(name, rc) == op.name = "none" /\ last' = [None EXCEPT !.name = name, !.rc = rc]
  /\ UNCHANGED <<dev, drv, op, faults>>
GoesOn(old) == op' = [op EXCEPT !.step = @ + 1, !.old = old] /\ UNCHANGED last
Fault == faults < MaxFaults /\ faults' = faults + 1
Is(name, step) == op.name = name /\ op.step = step

Signed(v, bits) == IF v >= 2^(bits - 1) THEN v - 2^bits ELSE v
\* What a reading says, in sixteenths of a degree.
Sixteenths(t) == IF t.negative THEN -(16 * t.integer + t.frac) ELSE 16 * t.integer + t.frac
Temp(negative, magnitude) == [negative |-> negative, integer |-> magnitude \div 16, frac |-> magnitude % 16]

(***************************************************************************)
(* adt7410 and mcp9808.  `dev` is what answers at each address.            *)
(***************************************************************************)
Defaults == [res |-> 0, shutdown |-> FALSE, locked |-> FALSE, other |-> 0]
I2cInit(kind) ==
  /\ \E raw \in Raws[kind] :
       dev = [a |-> [id |-> kind, regs |-> Defaults, raw |-> raw], b |-> [id |-> "other", regs |-> Defaults, raw |-> 0]]
  /\ drv = [kind |-> kind, addr |-> "a", ready |-> FALSE] /\ op = Idle /\ last = None /\ faults = 0
It == dev[drv.addr]

adt_temp(raw) == IF raw >= 2^15 THEN Temp(TRUE, 2^13 - (raw \div 8)) ELSE Temp(FALSE, raw \div 8)
mcp_temp(raw) ==
  LET upper == (raw \div 256) % 32
  IN IF upper >= 16 THEN Temp(TRUE, 2^13 - (raw % 2^13)) ELSE Temp(FALSE, (upper % 16) * 256 + (raw % 256))
\* Thousandths of a degree, rounded away from zero; 13 bits unless set to 16.
adt_millidegrees(raw, res) ==
  LET r == IF res = 1 THEN raw ELSE raw - (raw % 8)
      units == Signed(r, 16)
  IN IF units < 0 THEN -((-units * 1000 + 64) \div 128) ELSE (units * 1000 + 64) \div 128

\* init: another address is taken at once, and found or not found to be the sensor;
\* the two registers mcp9808 is known by are read as one.
init(addr) == Begin("init", 0) /\ drv' = [drv EXCEPT !.ready = FALSE, !.addr = addr] /\ UNCHANGED <<dev, faults>>
init_id ==
  /\ Is("init", 1)
  /\ IF It.id = drv.kind THEN drv' = [drv EXCEPT !.ready = TRUE] /\ Ends("ok", 0, It)
     ELSE Ends("id", 0, It) /\ UNCHANGED drv
  /\ UNCHANGED <<dev, faults>>

\* The plain read does not ask whether there was an init.
read == Begin("read", 0) /\ UNCHANGED <<dev, drv, faults>>
read_temp ==
  /\ Is("read", 1)
  /\ Ends("ok", IF drv.kind = "adt7410" THEN adt_temp(It.raw) ELSE mcp_temp(It.raw), It)
  /\ UNCHANGED <<dev, drv, faults>>
read_mc == drv.kind = "adt7410" /\ drv.ready /\ Begin("read_mc", 0) /\ UNCHANGED <<dev, drv, faults>>
read_mc_config == Is("read_mc", 1) /\ GoesOn(It.regs) /\ UNCHANGED <<dev, drv, faults>>
read_mc_temp == Is("read_mc", 2) /\ Ends("ok", adt_millidegrees(It.raw, op.old.res), It)
  /\ UNCHANGED <<dev, drv, faults>>

\* Setting the resolution or the shutdown: read, change, write, read again.  The
\* resolution of mcp9808 has a register of its own, that is not read first.
set_field(name, v) ==
  /\ drv.ready /\ op.name = "none" /\ last' = None /\ UNCHANGED <<dev, drv, faults>>
  /\ op' = [name |-> name, step |-> IF drv.kind = "mcp9808" /\ name = "res" THEN 2 ELSE 1, want |-> v, old |-> It.regs]
refuse_field(name) == ~drv.ready /\ Refuse(name, "no_device")
Settings == {"res", "shutdown"}
Changed(regs) == IF op.name = "res" THEN [regs EXCEPT !.res = op.want] ELSE [regs EXCEPT !.shutdown = op.want]
set_read ==
  /\ op.name \in Settings /\ op.step = 1
  /\ IF drv.kind = "mcp9808" /\ op.name = "shutdown" /\ op.want /\ It.regs.locked THEN Ends("param", 0, It)
       ELSE GoesOn(It.regs)
  /\ UNCHANGED <<dev, drv, faults>>
\* mcp9808 does not shut down while it is locked, and only its power unlocks it.
Written ==
  IF drv.kind = "adt7410" THEN Changed(op.old)
  ELSE IF op.name = "res" THEN Changed(It.regs)
  ELSE IF It.regs.locked /\ op.want THEN It.regs
  ELSE [Changed(op.old) EXCEPT !.res = It.regs.res, !.locked = It.regs.locked]
set_write ==
  /\ op.name \in Settings /\ op.step = 2
  /\ dev' = [dev EXCEPT ![drv.addr].regs = Written]
  /\ GoesOn(op.old) /\ UNCHANGED <<drv, faults>>
set_verify_trusts ==
  /\ op.name \in Settings /\ op.step = 3 /\ Ends("ok", 0, It) /\ UNCHANGED <<dev, drv, faults>>
\* adt7410 compares the whole register, mcp9808 what was to change.
set_verify ==
  /\ op.name \in Settings /\ op.step = 3
  /\ LET same == IF drv.kind = "adt7410" THEN It.regs = Changed(op.old) ELSE Changed(It.regs) = It.regs
     IN Ends(IF same THEN "ok" ELSE "bus", 0, It)
  /\ UNCHANGED <<dev, drv, faults>>

\* A transaction fails; a write that does may have been taken.
i2c_fails ==
  /\ op.name # "none" /\ Fault /\ Ends("bus", 0, It) /\ UNCHANGED drv
  /\ \/ UNCHANGED dev
     \/ op.name \in Settings /\ op.step = 2 /\ dev' = [dev EXCEPT ![drv.addr].regs = Written]
i2c_power == Fault /\ dev' = [dev EXCEPT !.a.regs = Defaults] /\ UNCHANGED <<drv, op, last>>
i2c_lock == drv.kind = "mcp9808" /\ dev' = [dev EXCEPT !.a.regs.locked = TRUE] /\ UNCHANGED <<drv, op, last, faults>>

I2cNext ==
  \/ \E addr \in {"a", "b"} : init(addr)
  \/ init_id \/ read \/ read_temp \/ read_mc \/ read_mc_config \/ read_mc_temp
  \/ \E v \in {0, 1} : set_field("res", v)
  \/ \E v \in BOOLEAN : set_field("shutdown", v)
  \/ \E name \in Settings : refuse_field(name)
  \/ set_read \/ set_write \/ set_verify \/ i2c_fails \/ i2c_power \/ i2c_lock

(***************************************************************************)
(* ds18b20.  A scratchpad comes with a check; without a device the bus     *)
(* reads as ones, and shorted as zeros, for which the check is right.      *)
(***************************************************************************)
Pad(raw, th, res) == [raw |-> raw, th |-> th, res |-> res]
WireInit ==
  /\ dev = [pad |-> Pad(1360, 7, 12), rom |-> [th |-> 7, res |-> 12], temp |-> 0, converting |-> FALSE,
       present |-> TRUE]
  /\ drv = [kind |-> "ds18b20", ready |-> FALSE] /\ op = Idle /\ last = None /\ faults = 0
ow_init ==
  /\ op.name = "none" /\ drv' = [drv EXCEPT !.ready = dev.present]
  /\ last' = [None EXCEPT !.name = "init", !.rc = IF dev.present THEN "ok" ELSE "no_device"]
  /\ UNCHANGED <<dev, op, faults>>
start_conversion ==
  /\ op.name = "none"
  /\ IF dev.present THEN dev' = [dev EXCEPT !.converting = TRUE] /\ last' = [None EXCEPT !.name = "start"]
     ELSE last' = [None EXCEPT !.name = "start", !.rc = "bus"] /\ UNCHANGED dev
  /\ UNCHANGED <<drv, op, faults>>

\* read_scratchpad: reset, nine bytes, reset; then the check and the fixed bits.
Read(contents) == IF contents = "pad" THEN "ok" ELSE "crc"
Contents == IF dev.present THEN {"pad", "garbled"} ELSE {"ones", "zeros"}
read_scratchpad_fails ==
  \/ ~dev.present /\ Ends("bus", 0, dev.pad)
  \/ \E c \in Contents : c # "pad" /\ Ends(Read(c), 0, dev.pad)
ds_temp(pad) ==
  LET raw == pad.raw - (pad.raw % 2^(12 - pad.res))
  IN IF raw >= 2^15 THEN Temp(TRUE, (2^16 - raw) % 2^16) ELSE Temp(FALSE, raw)
ow_read == Begin("ow_read", 0) /\ UNCHANGED <<dev, drv, faults>>
ow_read_pad ==
  /\ Is("ow_read", 1)
  /\ \/ read_scratchpad_fails
     \/ dev.present /\ Ends("ok", ds_temp(dev.pad), dev.pad)
  /\ UNCHANGED <<dev, drv, faults>>
set_resolution(bits) ==
  IF drv.ready THEN Begin("ow_res", bits) /\ UNCHANGED <<dev, drv, faults>> ELSE Refuse("ow_res", "no_device")
ow_res_pad ==
  /\ Is("ow_res", 1)
  /\ \/ read_scratchpad_fails
     \/ dev.present /\ GoesOn(dev.pad)
  /\ UNCHANGED <<dev, drv, faults>>
ow_res_write ==
  /\ Is("ow_res", 2)
  /\ IF dev.present THEN GoesOn(op.old) /\ dev' = [dev EXCEPT !.pad.th = op.old.th, !.pad.res = op.want]
     ELSE Ends("bus", 0, dev.pad) /\ UNCHANGED dev
  /\ UNCHANGED <<drv, faults>>
ow_res_verify ==
  /\ Is("ow_res", 3)
  /\ \/ read_scratchpad_fails
     \/ dev.present /\ Ends(IF dev.pad.th = op.old.th /\ dev.pad.res = op.want THEN "ok" ELSE "bus", 0, dev.pad)
  /\ UNCHANGED <<dev, drv, faults>>
\* The bits a shorter conversion does not fill are undefined.
converted ==
  /\ dev.converting
  /\ \E low \in {0, 2^(12 - dev.pad.res) - 1} :
       dev' = [dev EXCEPT !.converting = FALSE, !.pad.raw = dev.temp - (dev.temp % 2^(12 - dev.pad.res)) + low]
  /\ UNCHANGED <<drv, op, last, faults>>
ow_power ==
  /\ Fault /\ dev' = [dev EXCEPT !.pad = Pad(1360, dev.rom.th, dev.rom.res), !.converting = FALSE, !.present = ~@]
  /\ UNCHANGED <<drv, op, last>>
ow_warms == \E raw \in Raws.ds18b20 : dev' = [dev EXCEPT !.temp = raw] /\ UNCHANGED <<drv, op, last, faults>>
WireNext ==
  \/ ow_init \/ start_conversion \/ ow_read \/ ow_read_pad \/ converted \/ ow_power \/ ow_warms
  \/ \E bits \in {9, 12} : set_resolution(bits)
  \/ ow_res_pad \/ ow_res_write \/ ow_res_verify

(***************************************************************************)
(* epaper.  `drv` has the planes as sets of bits, and what was painted; the *)
(* panel has a frame, and shows it ("planes"), another or a torn one.     *)
(***************************************************************************)
Pixels == (0..Width - 1) \X (0..Height - 1)
Colours == {"white", "black", "red"}
PanelInit ==
  /\ dev = [powered |-> FALSE, on |-> FALSE, busy |-> FALSE, frame |-> FALSE, image |-> "other"]
  /\ drv = [kind |-> "epaper", black |-> {}, red |-> {}, painted |-> [p \in Pixels |-> "white"]]
  /\ op = Idle /\ last = None /\ faults = 0
\* Without a red plane, red is shown as black.
decode_colour(c) == IF Planes < 2 /\ c = "red" THEN "black" ELSE c
framebuffer_size == (Width * Height + BYTE - 1) \div BYTE
At(p) == BYTE * (p[2] * ((Width + BYTE - 1) \div BYTE) + (p[1] \div BYTE)) + (p[1] % BYTE)
set_pixel(p, c) ==
  /\ op.name = "none"
  /\ drv' = [drv EXCEPT !.black = IF decode_colour(c) = "black" THEN @ \union {At(p)} ELSE @ \ {At(p)},
                        !.red = IF Planes < 2 THEN @
                                ELSE IF decode_colour(c) = "red" THEN @ \union {At(p)} ELSE @ \ {At(p)},
                        !.painted[p] = decode_colour(c)]
  /\ UNCHANGED <<dev, op, last, faults>>
clear(c) ==
  /\ op.name = "none"
  /\ LET all == 0..BYTE * framebuffer_size - 1 IN
     drv' = [drv EXCEPT !.black = IF decode_colour(c) = "black" THEN all ELSE {},
                        !.red = IF Planes > 1 /\ decode_colour(c) = "red" THEN all ELSE {},
                        !.painted = [p \in Pixels |-> decode_colour(c)]]
  /\ UNCHANGED <<dev, op, last, faults>>
panel_init == op.name = "none" /\ dev' = [dev EXCEPT !.powered = TRUE] /\ UNCHANGED <<drv, op, last, faults>>

\* refresh, and refresh_rect, for which the driver has nothing of its own: reset,
\* settings and planes; ready; power on; ready; show; done or not.
refresh == Begin("refresh", 0) /\ UNCHANGED <<dev, drv, faults>>
push_frames ==
  /\ Is("refresh", 1) /\ GoesOn(<<>>)
  /\ dev' = [dev EXCEPT !.on = FALSE, !.busy = FALSE, !.frame = dev.powered,
                        !.image = IF dev.busy /\ dev.on THEN "torn" ELSE "other"]
  /\ UNCHANGED <<drv, faults>>
wait_ready ==
  /\ op.name = "refresh" /\ op.step \in {2, 4}
  /\ IF dev.busy THEN Fault /\ Ends("busy", 0, dev) ELSE GoesOn(<<>>) /\ UNCHANGED faults
  /\ UNCHANGED <<dev, drv>>
power_on == Is("refresh", 3) /\ dev' = [dev EXCEPT !.on = dev.powered, !.busy = dev.powered] /\ GoesOn(<<>>)
  /\ UNCHANGED <<drv, faults>>
display_refresh == Is("refresh", 5) /\ dev' = [dev EXCEPT !.busy = dev.on] /\ GoesOn(<<>>) /\ UNCHANGED <<drv, faults>>
\* The last wait ends after its tries whether the panel is done or not.
refresh_done ==
  /\ Is("refresh", 6)
  /\ IF dev.busy THEN Fault ELSE UNCHANGED faults
  /\ Ends("ok", ~dev.busy, dev) /\ UNCHANGED <<dev, drv>>
sleep ==
  /\ op.name = "none" /\ dev' = [dev EXCEPT !.on = FALSE, !.busy = FALSE,
                         !.image = IF dev.busy /\ dev.on THEN "torn" ELSE @]
  /\ UNCHANGED <<drv, op, last, faults>>
panel_done ==
  /\ dev.busy
  /\ dev' = [dev EXCEPT !.busy = FALSE,
                         !.image = IF op.step = 6 \/ (op.name = "none" /\ last.rc = "ok") THEN "planes" ELSE @]
  /\ UNCHANGED <<drv, op, last, faults>>
PanelNext ==
  \/ \E p \in Pixels, c \in Colours : set_pixel(p, c)
  \/ \E c \in Colours : clear(c)
  \/ panel_init \/ refresh \/ push_frames \/ wait_ready \/ power_on \/ display_refresh \/ refresh_done \/ sleep
       \/ panel_done

(***************************************************************************)
(* Properties.                                                             *)
(***************************************************************************)
\* sensors: what a read says is what the register held, below zero too and at
\* either resolution, of the sensor that was identified; a setting that was taken
\* is in the device when the call ends, next to the other settings.
SensorsSound ==
  last.rc = "ok" /\ op.name = "none" =>
    CASE last.name = "init" /\ drv.kind # "ds18b20" -> last.held.id = drv.kind
      [] last.name = "read" /\ drv.ready ->
           Sixteenths(last.value) = IF drv.kind = "adt7410" THEN Signed(last.held.raw, 16) \div 8
             ELSE Signed(last.held.raw % 2^13, 13)
      [] last.name = "read_mc" ->
           LET err == 128 * last.value - 1000 * (IF last.old.res = 1 THEN Signed(last.held.raw, 16)
             ELSE 8 * (Signed(last.held.raw, 16) \div 8))
           IN -64 <= err /\ err <= 64
      [] last.name = "res" -> last.held.regs.res = last.want
           /\ (drv.kind = "adt7410" => last.held.regs.shutdown = last.old.shutdown)
      [] last.name = "shutdown" -> last.held.regs.shutdown = last.want
           /\ (drv.kind = "adt7410" => last.held.regs.res = last.old.res)
      [] last.name = "ow_read" ->
           LET v == Signed(last.held.raw, 16) - Sixteenths(last.value) IN 0 <= v /\ v < 2^(12 - last.held.res)
      [] last.name = "ow_res" -> last.held.res = last.want /\ last.held.th = last.old.th
      [] OTHER -> TRUE

\* epaper: every pixel has the colour it was painted, within the frame buffer, on
\* panels of whole bytes a row; and a refresh that did not run out of time shows
\* the planes.
PanelSound ==
  /\ drv.black \union drv.red \subseteq 0..BYTE * framebuffer_size - 1
  /\ \A p \in Pixels : drv.painted[p] = IF At(p) \in drv.red THEN "red" ELSE IF At(p) \in drv.black THEN "black"
       ELSE "white"
  /\ last.name = "refresh" /\ last.rc = "ok" /\ last.value /\ last.held.on => last.held.image = "planes"
       /\ last.held.frame
=============================================================================
